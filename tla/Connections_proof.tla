------------------------- MODULE Connections_proof -------------------------
(***************************************************************************)
(* Who gets in, and what is kept of their coming and going.  What holds of *)
(* the address blocks and the API keys for every set of addresses, ranges, *)
(* requests, connections and uploads and every grace; and of the           *)
(* connection history for every set of connections and reasons and every   *)
(* size of the queue.                                                      *)
(***************************************************************************)
EXTENDS Admission, ConnectionHistory, FiniteSetTheorems, SequenceTheorems, TLAPS

-----------------------------------------------------------------------------
(* Admission: types.                                                       *)

ReloadWork == [at : {"list", "store"}, op : {"create", "delete"}, row : Block, rows : SUBSET Block, lone : BOOLEAN]
SweepWork  == [at : {"list", "store"}, op : {"sweep"}, row : {None}, rows : SUBSET Block, lone : BOOLEAN]
CloseWork  == [at : {"close"}, row : Block, op : {"create"}]
DeleteWork == [at : {"delete block"}, row : Block]
UpdateWork == [at : {"write key"}, op : {"update"}, key : KeyIds, read : Nat, typed : Nat, disabled : BOOLEAN,
               scope : SUBSET Systems, lone : BOOLEAN]
RotateWork == [at : {"write key"}, op : {"rotate"}, key : KeyIds, read : Nat, lone : BOOLEAN]
GateWork   == ReloadWork \union CloseWork \union DeleteWork
RingWork   == UpdateWork \union RotateWork

Arrived == [at : Places \ {"away"}, ip : Addresses, slipped : SUBSET Block, unclosed : SUBSET Block]
Key       == [secret : Nat, previous : Nat, until : Nat, disabled : BOOLEAN, scope : SUBSET Systems]
Uploading == [at : Waiting \union {"accepted", "refused"}, secret : Nat \ {0}, system : Systems \union {Unknown},
              scope : SUBSET Systems, ever : BOOLEAN, always : BOOLEAN]

GateType ==
  /\ now \in 0..MaxTime /\ trusted \in TrustLists
  /\ blocks \subseteq Block /\ list \subseteq Block /\ doubt \subseteq Block
  /\ nextBlock \in 1..(MaxRows + 1)
  /\ conns \in [Connections -> {[at |-> "away"]} \union Arrived]
WorkType ==
  /\ work \in [Procs -> {Idle} \union GateWork \union RingWork \union SweepWork]
  /\ \A r \in Requests : work[r] \in {Idle} \union GateWork \union RingWork
  /\ work[Sweeper] \in {Idle} \union SweepWork
  /\ left \in [{"block", "key", "connection", "upload", "fault"} -> Nat]
RingType ==
  /\ keys \in [KeyIds -> {None} \union Key]
  /\ shown \in [KeyIds -> Nat] /\ replaced \in [KeyIds -> [secret : Nat, until : Nat]]
  /\ raced \subseteq KeyIds /\ nextKey \in 2..(MaxRows + 1) /\ nextSecret \in Nat \ {0, 1}
UploadType == uploads \in [Uploads -> {[at |-> "away"]} \union Uploading]

-----------------------------------------------------------------------------
(* Blocks: what a reload that is under way may yet do to the list.         *)

\* The table's rows are told apart by their numbers and by their ranges.
OneRowEach ==
  /\ \A b \in blocks : b.id < nextBlock
  /\ \A x, z \in blocks : (x.id = z.id \/ x.range = z.range) => x = z

Doing(b, op, steps) == \E r \in Requests : work[r].at \in steps /\ work[r].op = op /\ work[r].row = b
Unread(b, op) == Doing(b, op, {"list"})
Coming(b, op) == Doing(b, op, {"list", "store"})

\* Of reloads that overlap none is alone, and what one has and the other has
\* not is in doubt.
Overlaps ==
  \A p \in Procs : work[p].at = "store" => \A q \in Storing(p) :
    ~work[p].lone /\ work[p].rows \ work[q].rows \subseteq doubt

\* What a reload that has read is about to make of the list.
Stores ==
  \A p \in Procs : work[p].at = "store" =>
    /\ \A b \in InForce(blocks) \ work[p].rows : b \in doubt \/ Unread(b, "create")
    /\ \A b \in InForce(work[p].rows) \ blocks : b \in doubt \/ Unread(b, "delete")
    /\ \A b \in InForce(work[p].rows) \ list : b \in doubt \/ Coming(b, "create")

Listed ==
  /\ \A b \in InForce(blocks) \ list : b \in doubt \/ Coming(b, "create")
  /\ \A b \in InForce(list) \ blocks : b \in doubt \/ Coming(b, "delete")

\* What may come to cover a connection is a block whose creation has yet to
\* close it, but for those it slipped past or that were left unclosed.
Excused(c) == conns[c].slipped \union conns[c].unclosed
Held(R, ip, free) == \A b \in Covering(R, ip) \ free : Doing(b, "create", {"list", "store", "close"})
ConnsHeld ==
  \A c \in Connections : conns[c].at \in {"let in", "open"} =>
    \A a \in Addresses, f \in SUBSET Block : conns[c].ip = a /\ a \notin trusted /\ f = Excused(c) =>
      /\ Held(blocks, a, f) /\ Held(list, a, f)
      /\ \A p \in Procs : work[p].at = "store" => Held(work[p].rows, a, f)
TrustHeld == \A c \in Connections : conns[c].at \in {"refused", "cut"} => ~Trusted(conns[c].ip)

BlockInv == OneRowEach /\ Overlaps /\ Stores /\ Listed /\ ConnsHeld /\ TrustHeld

-----------------------------------------------------------------------------
(* Secrets.                                                                *)

\* The secrets that are a key's: in its row, in the hands of requests, and in
\* what the admin was told.
Owns(k, s) ==
  \/ keys[k] # None /\ s \in {keys[k].secret, keys[k].previous}
  \/ \E r \in Requests : /\ work[r].at = "write key" /\ work[r].key = k
                         /\ s = work[r].read \/ (work[r].op = "update" /\ s = work[r].typed)

\* No secret is two keys', and the next one is nobody's.
Owned ==
  /\ \A k \in KeyIds : \A s \in Nat : Owns(k, s) => s < nextSecret /\ k < nextKey
  /\ \A k, j \in KeyIds : \A s \in Nat \ {0} : Owns(k, s) /\ Owns(j, s) => k = j
  /\ \A k \in KeyIds : keys[k] # None => keys[k].secret # 0
  /\ \A r \in Requests : work[r].at = "write key" => work[r].read # 0

\* A request that is alone with its key has read what is there; and the row is
\* what the admin was told, but for keys that raced.
ReadStands ==
  \A r \in Requests : work[r].at = "write key" /\ work[r].lone =>
    \A k \in KeyIds : k = work[r].key /\ keys[k] # None => work[r].read = keys[k].secret
AsShown ==
  \A k \in KeyIds \ raced : keys[k] # None =>
    /\ keys[k].secret = shown[k]
    /\ keys[k].previous = replaced[k].secret /\ keys[k].until = replaced[k].until
NoneReplaced == \A k \in KeyIds : k >= nextKey => replaced[k].secret = 0 /\ replaced[k].until = 0
Told == ReadStands /\ AsShown /\ NoneReplaced

\* What the last rotation replaced is among what all of them did.
RetiredToo == DOMAIN retired = KeyIds /\ \A k \in KeyIds : replaced[k] \in retired[k]

\* What an upload remembers of its secret: it was good at some time, it has
\* been at all times.
Remembers(u) ==
  /\ u.at \in Waiting => (u.always => Good(keys, now, u)) /\ (Good(keys, now, u) => u.ever)
  /\ u.at = "by previous" /\ u.always => ByPrevious(keys, now, u.secret) # {}
  /\ u.at = "known" => /\ apiKeyMayUpload(u.scope, u.system) => u.ever
                       /\ u.always => apiKeyMayUpload(u.scope, u.system)
Remembered == UploadsAreAnsweredRight /\ \A u \in Uploads : Remembers(uploads[u])

-----------------------------------------------------------------------------
(* The types hold.                                                         *)

\* The sweep is none of the requests, and no row is None.
LEMMA ProcFacts ==
  /\ Sweeper \in Procs /\ Requests \subseteq Procs /\ Procs \ {Sweeper} \subseteq Requests
  /\ \A r \in Requests : r # Sweeper
  /\ None \notin Block /\ None \notin Key
BY AdmissionAssumption DEF AdmissionAssumption, Procs, Block, Key, Never

\* Each kind of work is at steps of its own.
LEMMA WorkKinds ==
  /\ \A w \in GateWork \union RingWork \union SweepWork : w.at # "idle" /\ w # Idle
  /\ \A w \in ReloadWork \union SweepWork : w.at \in {"list", "store"}
  /\ \A w \in CloseWork : w.at = "close"
  /\ \A w \in DeleteWork : w.at = "delete block"
  /\ \A w \in RingWork : w.at = "write key"
  /\ \A w \in UpdateWork : w.op = "update"
  /\ \A w \in RotateWork : w.op = "rotate"
  /\ Idle.at = "idle"
<1>1. /\ \A w \in ReloadWork \union SweepWork : w.at \in {"list", "store"}
      /\ \A w \in CloseWork : w.at = "close"
      /\ \A w \in DeleteWork : w.at = "delete block"
      /\ Idle.at = "idle"
  BY DEF Idle, ReloadWork, SweepWork, CloseWork, DeleteWork
<1>2. /\ \A w \in UpdateWork : w.at = "write key" /\ w.op = "update"
      /\ \A w \in RotateWork : w.at = "write key" /\ w.op = "rotate"
  BY DEF UpdateWork, RotateWork
<1>. QED  BY <1>1, <1>2 DEF GateWork, RingWork

\* What a request, or the sweep, is at tells what it has in hand.
LEMMA WorkOf ==
  ASSUME WorkType
  PROVE  /\ \A r \in Requests : /\ work[r].at \in {"list", "store"} => work[r] \in ReloadWork
                                /\ work[r].at = "close" => work[r] \in CloseWork
                                /\ work[r].at = "delete block" => work[r] \in DeleteWork
                                /\ work[r].at = "write key" => work[r] \in RingWork
                                /\ work[r].at = "write key" /\ work[r].op = "update" => work[r] \in UpdateWork
                                /\ work[r].at = "write key" /\ work[r].op = "rotate" => work[r] \in RotateWork
         /\ work[Sweeper].at \in {"list", "store", "idle"}
         /\ work[Sweeper].at \in {"list", "store"} => work[Sweeper] \in SweepWork
BY WorkKinds DEF WorkType, GateWork, RingWork

\* Every step keeps the types of the blocks, connections and requests.
LEMMA BlockSteps ==
  ASSUME GateType, WorkType, RingType, [ANext]_avars
  PROVE  GateType' /\ WorkType'
<1>. USE DEF GateType, WorkType
<1>0. /\ now \in Nat /\ MaxTime \in Nat /\ MaxRows \in Nat \ {0} /\ Never \in Nat /\ nextBlock \in Nat
      /\ work \in [Procs -> {Idle} \union GateWork \union RingWork \union SweepWork]
  BY AdmissionAssumption DEF AdmissionAssumption, Never
<1>w. ASSUME NEW r \in Requests, NEW w \in {Idle} \union GateWork \union RingWork, work' = [work EXCEPT ![r] = w]
      PROVE  /\ work' \in [Procs -> {Idle} \union GateWork \union RingWork \union SweepWork]
             /\ \A q \in Requests : work'[q] \in {Idle} \union GateWork \union RingWork
             /\ work'[Sweeper] \in {Idle} \union SweepWork
  BY <1>0, <1>w, ProcFacts
<1>s. ASSUME NEW w \in {Idle} \union SweepWork, work' = [work EXCEPT ![Sweeper] = w]
      PROVE  /\ work' \in [Procs -> {Idle} \union GateWork \union RingWork \union SweepWork]
             /\ \A q \in Requests : work'[q] \in {Idle} \union GateWork \union RingWork
             /\ work'[Sweeper] \in {Idle} \union SweepWork
  BY <1>0, <1>s, ProcFacts
<1>l. ASSUME NEW kind \in {"block", "key", "connection", "upload", "fault"}, Take(kind)
      PROVE  left' \in [{"block", "key", "connection", "upload", "fault"} -> Nat]
  BY <1>l DEF Take
<1>r. ASSUME NEW op \in {"create", "delete"}, NEW b \in Block
      PROVE  Reloading(op, b) \in ReloadWork
  BY DEF Reloading, ReloadWork
<1>1. ASSUME NEW r \in Requests, NEW range \in Ranges, NEW x \in {now + 1, Never}, IPBlocksCreate(r, range, x)
      PROVE  GateType' /\ WorkType'
  <2>. DEFINE b == [id |-> nextBlock, range |-> range, expires |-> x]
  <2>1. b \in Block
    <3>1. nextBlock \in 1..MaxRows /\ x \in 1..Never
      BY <1>0, <1>1 DEF IPBlocksCreate, Never
    <3>. QED  BY <3>1 DEF Block
  <2>2. /\ blocks' = blocks \union {b} /\ nextBlock' = nextBlock + 1 /\ nextBlock <= MaxRows
        /\ work' = [work EXCEPT ![r] = Reloading("create", b)] /\ Take("block")
        /\ UNCHANGED <<now, list, trusted, conns, doubt>>
    BY <1>1 DEF IPBlocksCreate, CreateIPBlock, Begin
  <2>. HIDE DEF b
  <2>3. Reloading("create", b) \in GateWork
    BY <1>r, <2>1 DEF GateWork
  <2>4. nextBlock' \in 1..(MaxRows + 1) /\ blocks' \subseteq Block
    BY <1>0, <2>1, <2>2
  <2>5. left' \in [{"block", "key", "connection", "upload", "fault"} -> Nat]
    BY <1>l, <2>2
  <2>. QED  BY <1>w, <2>2, <2>3, <2>4, <2>5
<1>2. ASSUME NEW r \in Requests, NEW b \in blocks, IPBlocksDelete(r, b)
      PROVE  GateType' /\ WorkType'
  <2>1. [at |-> "delete block", row |-> b] \in DeleteWork
    BY DEF DeleteWork
  <2>. QED  BY <1>2, <1>w, <1>l, <2>1 DEF IPBlocksDelete, Begin, GateWork, gate
<1>3. ASSUME NEW r \in Requests, DeleteIPBlock(r)
      PROVE  GateType' /\ WorkType'
  <2>1. work[r].row \in Block
    BY <1>3, WorkOf DEF DeleteIPBlock, DeleteWork
  <2>. QED  BY <1>3, <1>w, <1>r, <2>1 DEF DeleteIPBlock, GateWork
<1>4. ASSUME Sweep
      PROVE  GateType' /\ WorkType'
  <2>1. Reloading("sweep", None) \in SweepWork
    BY DEF Reloading, SweepWork
  <2>. QED  BY <1>4, <1>s, <2>1 DEF Sweep, InForce
<1>5. ASSUME NEW p \in Procs, ReadList(p)
      PROVE  GateType' /\ WorkType'
  <2>. DEFINE R == InForce(blocks)
              alone == Storing(p) = {}
  <2>1. R \in SUBSET Block /\ alone \in BOOLEAN
    BY DEF InForce
  <2>2. \A w \in ReloadWork : /\ [w EXCEPT !.lone = FALSE] \in ReloadWork
                              /\ [w EXCEPT !.at = "store", !.rows = R, !.lone = alone] \in ReloadWork
    BY <2>1 DEF ReloadWork
  <2>3. \A w \in SweepWork : /\ [w EXCEPT !.lone = FALSE] \in SweepWork
                             /\ [w EXCEPT !.at = "store", !.rows = R, !.lone = alone] \in SweepWork
    BY <2>1 DEF SweepWork
  <2>4. /\ work[p].at = "list" /\ UNCHANGED <<now, blocks, list, trusted, conns, nextBlock, left>>
        /\ doubt' = doubt \union Unlike(p, R)
        /\ work' = [q \in Procs |->
             IF q = p THEN [work[p] EXCEPT !.at = "store", !.rows = R, !.lone = alone]
             ELSE IF q \in Storing(p) THEN [work[q] EXCEPT !.lone = FALSE] ELSE work[q]]
    BY <1>5 DEF ReadList
  <2>. HIDE DEF R, alone
  <2>5. \A q \in Procs : work[q].at = "store" => work[q].rows \subseteq Block
    BY WorkOf, ProcFacts DEF ReloadWork, SweepWork
  <2>6. Unlike(p, R) \subseteq Block
    BY <2>1, <2>5 DEF Unlike, Storing
  <2>7. \A q \in Requests : work'[q] \in {Idle} \union GateWork \union RingWork
    BY <2>2, <2>4, WorkOf, ProcFacts DEF GateWork, Storing
  <2>8. work'[Sweeper] \in {Idle} \union SweepWork
    BY <2>3, <2>4, WorkOf, ProcFacts DEF Storing
  <2>9. work' \in [Procs -> {Idle} \union GateWork \union RingWork \union SweepWork]
    BY <2>4, <2>7, <2>8, ProcFacts
  <2>. QED  BY <2>4, <2>6, <2>7, <2>8, <2>9
<1>6. ASSUME NEW p \in Procs, StoreList(p)
      PROVE  GateType' /\ WorkType'
  <2>1. work[p].rows \subseteq Block
    BY <1>6, WorkOf, ProcFacts DEF StoreList, ReloadWork, SweepWork
  <2>2. p \in Requests => AfterReload(p) \in {Idle} \union CloseWork
    BY <1>6, WorkOf DEF StoreList, AfterReload, ReloadWork, CloseWork
  <2>3. p = Sweeper => AfterReload(p) = Idle
    BY <1>6, WorkOf DEF StoreList, AfterReload, SweepWork
  <2>4. doubt' \subseteq doubt
    BY <1>6 DEF StoreList
  <2>5. /\ work' = [work EXCEPT ![p] = AfterReload(p)] /\ list' = work[p].rows
        /\ UNCHANGED <<now, blocks, trusted, conns, nextBlock, left>>
    BY <1>6 DEF StoreList
  <2>6. CASE p \in Requests
    <3>1. AfterReload(p) \in {Idle} \union GateWork
      BY <2>2, <2>6 DEF GateWork
    <3>. QED  BY <1>w, <2>1, <2>4, <2>5, <2>6, <3>1
  <2>7. CASE p = Sweeper
    BY <1>s, <2>1, <2>3, <2>4, <2>5, <2>7
  <2>. QED  BY <2>6, <2>7, ProcFacts
<1>7. ASSUME NEW p \in Procs, Reload(p)
      PROVE  GateType' /\ WorkType'
  <2>1. /\ work' = [work EXCEPT ![p] = Idle] /\ Take("fault")
        /\ UNCHANGED <<now, blocks, list, trusted, nextBlock>>
    BY <1>7 DEF Reload
  <2>2. doubt' \subseteq Block
    <3>1. work[p].row = None \/ work[p].row \in Block
      BY <1>7, WorkOf, ProcFacts DEF Reload, ReloadWork, SweepWork
    <3>. QED  BY <1>7, <3>1 DEF Reload
  <2>3. conns' \in [Connections -> {[at |-> "away"]} \union Arrived]
    <3>1. \A x \in Arrived, b \in Block : [x EXCEPT !.unclosed = @ \union {b}] \in Arrived
      BY DEF Arrived
    <3>2. \A c \in Connections : conns[c].at \in {"let in", "open"} => conns[c] \in Arrived
      <4>1. [at |-> "away"].at = "away"
        OBVIOUS
      <4>. QED  BY <4>1
    <3>3. work[p].op = "create" => work[p].row \in Block
      BY <1>7, WorkOf, ProcFacts DEF Reload, ReloadWork, SweepWork
    <3>. QED  BY <1>7, <3>1, <3>2, <3>3 DEF Reload
  <2>. QED  BY <1>w, <1>s, <1>l, <2>1, <2>2, <2>3, ProcFacts
<1>8. ASSUME NEW r \in Requests, CloseFor(r)
      PROVE  GateType' /\ WorkType'
  <2>1. /\ work' = [work EXCEPT ![r] = Idle]
        /\ UNCHANGED <<now, blocks, list, trusted, doubt, nextBlock, left>>
    BY <1>8 DEF CloseFor
  <2>2. conns' \in [Connections -> {[at |-> "away"]} \union Arrived]
    <3>1. \A x \in Arrived, b \in Block : /\ [x EXCEPT !.slipped = @ \union {b}] \in Arrived
                                          /\ [x EXCEPT !.at = "cut"] \in Arrived
      BY DEF Arrived, Places
    <3>2. \A c \in Connections : conns[c].at \in {"let in", "open"} => conns[c] \in Arrived
      <4>1. [at |-> "away"].at = "away"
        OBVIOUS
      <4>. QED  BY <4>1
    <3>3. work[r].row \in Block
      BY <1>8, WorkOf DEF CloseFor, CloseWork
    <3>. QED  BY <1>8, <3>1, <3>2, <3>3 DEF CloseFor
  <2>. QED  BY <1>w, <2>1, <2>2
<1>9. ASSUME NEW c \in Connections, NEW a \in Addresses, IPBlock(c, a)
      PROVE  GateType' /\ WorkType'
  <2>. DEFINE here == IF Refused(a) THEN "refused" ELSE "let in"
              past == {b \in doubt : a \in b.range}
              new == [at |-> here, ip |-> a, slipped |-> past, unclosed |-> {}]
  <2>1. here \in {"refused", "let in"} /\ past \in SUBSET Block
    OBVIOUS
  <2>2. conns' = [conns EXCEPT ![c] = new]
    BY <1>9 DEF IPBlock
  <2>. HIDE DEF here, past
  <2>3. new \in Arrived
    BY <2>1 DEF Arrived, Places
  <2>. HIDE DEF new
  <2>. QED  BY <1>9, <1>l, <2>2, <2>3 DEF IPBlock
<1>10. ASSUME NEW c \in Connections, Register(c)
       PROVE  GateType' /\ WorkType'
  <2>1. conns[c] \in Arrived
    <3>1. [at |-> "away"].at = "away"
      OBVIOUS
    <3>. QED  BY <1>10, <3>1 DEF Register
  <2>2. [conns[c] EXCEPT !.at = "open"] \in Arrived
    BY <2>1 DEF Arrived, Places
  <2>. QED  BY <1>10, <2>2 DEF Register
<1>11. ASSUME NEW r \in Requests, NEW k \in KeyIds, NEW t \in 0..nextSecret, NEW d \in BOOLEAN, NEW scope \in Scopes,
              APIKeysUpdate(r, k, t, d, scope)
       PROVE  GateType' /\ WorkType'
  <2>. DEFINE w == [at |-> "write key", op |-> "update", key |-> k, read |-> keys[k].secret,
                    typed |-> t, disabled |-> d, scope |-> scope, lone |-> TRUE]
  <2>1. keys[k].secret \in Nat /\ t \in Nat /\ scope \in SUBSET Systems
    <3>1. keys[k] \in Key
      BY <1>11 DEF APIKeysUpdate, GetAPIKey, RingType
    <3>2. t \in Nat
      BY DEF RingType
    <3>3. scope \in SUBSET Systems
      BY DEF Scopes
    <3>. QED  BY <3>1, <3>2, <3>3 DEF Key
  <2>2. w \in UpdateWork
    BY <2>1 DEF UpdateWork
  <2>3. work' = [work EXCEPT ![r] = w]
    BY <1>11 DEF APIKeysUpdate
  <2>. HIDE DEF w
  <2>4. w \in RingWork
    BY <2>2 DEF RingWork
  <2>. QED  BY <1>11, <1>w, <1>l, <2>3, <2>4 DEF APIKeysUpdate, Begin, gate
<1>12. ASSUME NEW r \in Requests, NEW k \in KeyIds, APIKeysRotate(r, k)
       PROVE  GateType' /\ WorkType'
  <2>1. keys[k].secret \in Nat
    BY <1>12 DEF APIKeysRotate, GetAPIKey, RingType, Key
  <2>2. [at |-> "write key", op |-> "rotate", key |-> k, read |-> keys[k].secret, lone |-> TRUE] \in RotateWork
    BY <2>1 DEF RotateWork
  <2>. QED  BY <1>12, <1>w, <1>l, <2>2 DEF APIKeysRotate, Begin, gate, RingWork
<1>13. ASSUME NEW r \in Requests, NEW k \in KeyIds, work' = Overlapped(r, k), UNCHANGED <<now, gate, left>>
       PROVE  GateType' /\ WorkType'
  <2>1. /\ \A w \in UpdateWork : [w EXCEPT !.lone = FALSE] \in UpdateWork
        /\ \A w \in RotateWork : [w EXCEPT !.lone = FALSE] \in RotateWork
    BY DEF UpdateWork, RotateWork
  <2>2. \A w \in RingWork : [w EXCEPT !.lone = FALSE] \in RingWork
    BY <2>1 DEF RingWork
  <2>3. \A q \in Requests : work'[q] \in {Idle} \union GateWork \union RingWork
    BY <1>13, <2>2, WorkOf, ProcFacts DEF Overlapped
  <2>4. work'[Sweeper] \in {Idle} \union SweepWork
    BY <1>13, WorkOf, ProcFacts DEF Overlapped
  <2>5. work' \in [Procs -> {Idle} \union GateWork \union RingWork \union SweepWork]
    <3>1. \A q \in Procs : work'[q] \in {Idle} \union GateWork \union RingWork \union SweepWork
      BY <2>3, <2>4, ProcFacts
    <3>. QED  BY <1>13, <3>1 DEF Overlapped
  <2>. QED  BY <1>13, <2>3, <2>4, <2>5 DEF gate
<1>14. ASSUME NEW r \in Requests, UpdateAPIKey(r) \/ RotateAPIKey(r)
       PROVE  GateType' /\ WorkType'
  <2>1. work[r].key \in KeyIds
    BY <1>14, WorkOf DEF UpdateAPIKey, RotateAPIKey, RingWork, UpdateWork, RotateWork
  <2>2. /\ work' = [work EXCEPT ![r] = Idle] \/ work' = Overlapped(r, work[r].key)
        /\ UNCHANGED <<now, gate, left>>
    BY <1>14 DEF UpdateAPIKey, RotateAPIKey
  <2>. QED  BY <1>13, <1>w, <2>1, <2>2 DEF gate
<1>15. ASSUME NEW r \in Requests, \/ \E scope \in Scopes : APIKeysCreate(r, scope)
                                  \/ \E k \in KeyIds : APIKeysDelete(r, k)
       PROVE  GateType' /\ WorkType'
  <2>1. UNCHANGED <<now, gate, work>> /\ Take("key")
    BY <1>15 DEF APIKeysCreate, APIKeysDelete, Begin
  <2>. QED  BY <1>l, <2>1 DEF gate
<1>16. ASSUME NEW u \in Uploads, Upload(u)
       PROVE  GateType' /\ WorkType'
  <2>1. UNCHANGED <<now, gate, work>> /\ (left' = left \/ Take("upload"))
    BY <1>16 DEF Upload, APIKeyAuth, GetAPIKeyByKey, GetAPIKeyByPreviousKey, PostCallUpload
  <2>. QED  BY <1>l, <2>1 DEF gate
<1>17. ASSUME Tick
       PROVE  GateType' /\ WorkType'
  <2>1. now' = now + 1 /\ now < MaxTime /\ UNCHANGED <<gate, work, left>>
    BY <1>17 DEF Tick
  <2>2. now' \in 0..MaxTime
    BY <1>0, <2>1
  <2>. QED  BY <2>1, <2>2 DEF gate
<1>18. ASSUME Restart
       PROVE  GateType' /\ WorkType'
  <2>1. work' = [p \in Procs |-> Idle]
    BY <1>18 DEF Restart
  <2>. QED  BY <1>18, <1>l, <2>1, ProcFacts DEF Restart, InForce
<1>19. CASE UNCHANGED avars
  BY <1>19 DEF avars, gate
<1>20. ASSUME NEW r \in Requests, Admin(r)
       PROVE  GateType' /\ WorkType'
  BY <1>1, <1>2, <1>3, <1>8, <1>11, <1>12, <1>14, <1>15, <1>20 DEF Admin
<1>21. ASSUME NEW p \in Procs, Reloads(p)
       PROVE  GateType' /\ WorkType'
  BY <1>5, <1>6, <1>7, <1>21 DEF Reloads
<1>. QED  BY <1>4, <1>9, <1>10, <1>16, <1>17, <1>18, <1>19, <1>20, <1>21 DEF ANext

-----------------------------------------------------------------------------
(* The blocks hold.                                                        *)

StoreRows(p) == work[p].at = "store" => work[p].rows \subseteq Block

\* What a reload has read are blocks.
LEMMA RowsAreBlocks == GateType /\ WorkType => \A p \in Procs : StoreRows(p)
BY WorkOf, ProcFacts DEF ReloadWork, SweepWork, StoreRows

\* Time only takes blocks out of force.
LEMMA TimePasses ==
  ASSUME GateType, now' \in {now, now + 1}
  PROVE  \A b \in Block : now' < b.expires => now < b.expires
BY AdmissionAssumption DEF GateType, AdmissionAssumption, Block, Never

\* A step that only moves requests which do not reload leaves all of it.
LEMMA ElsewhereKeeps ==
  ASSUME GateType, WorkType, BlockInv,
         UNCHANGED <<blocks, list, trusted, doubt, conns, nextBlock>>, now' \in {now, now + 1},
         \A p \in Procs : work'[p] = work[p] \/ ( /\ work[p].at \notin {"list", "store", "close"}
                                                  /\ work'[p].at \notin {"list", "store", "close"} )
  PROVE  BlockInv'
<1>1. \A p \in Procs : work'[p].at = "store" => work'[p] = work[p]
  OBVIOUS
<1>2. \A p \in Procs : Storing(p)' = Storing(p)
  BY DEF Storing
<1>3. ASSUME NEW b, NEW op, NEW steps \in SUBSET {"list", "store", "close"}, Doing(b, op, steps)
      PROVE  Doing(b, op, steps)'
  BY <1>3, ProcFacts DEF Doing
<1>4. \A b, op : /\ Unread(b, op) => Unread(b, op)'
                 /\ Coming(b, op) => Coming(b, op)'
                 /\ Doing(b, op, {"list", "store", "close"}) => Doing(b, op, {"list", "store", "close"})'
  BY <1>3 DEF Unread, Coming
<1>5. \A b \in Block : now' < b.expires => now < b.expires
  BY TimePasses
<1>6. \A p \in Procs : work[p].at = "store" => work[p].rows \subseteq Block
  BY RowsAreBlocks DEF StoreRows
<1>7. blocks \subseteq Block /\ list \subseteq Block
  BY DEF GateType
<1>8. OneRowEach' /\ TrustHeld'
  BY DEF BlockInv, OneRowEach, TrustHeld, Trusted
<1>9. Overlaps'
  BY <1>1, <1>2 DEF BlockInv, Overlaps, Storing
<1>10. Stores'
  BY <1>1, <1>4, <1>5, <1>6, <1>7 DEF BlockInv, Stores, InForce
<1>11. Listed'
  BY <1>4, <1>5, <1>7 DEF BlockInv, Listed, InForce
<1>12. ConnsHeld'
  BY <1>1, <1>4, <1>5, <1>6, <1>7 DEF BlockInv, ConnsHeld, Excused, Held, Covering, InForce, Trusted
<1>. QED  BY <1>8, <1>9, <1>10, <1>11, <1>12 DEF BlockInv

\* A request that starts to reload takes nothing from what others do, and is
\* no reload that has read.
LEMMA StartsReload ==
  ASSUME WorkType, NEW r \in Procs, work[r].at \notin {"list", "store", "close"}, NEW w, w.at = "list",
         work' = [work EXCEPT ![r] = w]
  PROVE  /\ \A p \in Procs : work'[p].at = "store" <=> work[p].at = "store"
         /\ \A p \in Procs : work'[p].at = "store" => work'[p] = work[p]
         /\ \A p \in Procs : Storing(p)' = Storing(p)
         /\ \A b, op : /\ Unread(b, op) => Unread(b, op)'
                       /\ Coming(b, op) => Coming(b, op)'
                       /\ Doing(b, op, {"list", "store", "close"}) => Doing(b, op, {"list", "store", "close"})'
<1>1. \A p \in Procs : work'[p] = IF p = r THEN w ELSE work[p]
  BY DEF WorkType
<1>2. ASSUME NEW b, NEW op, NEW steps \in SUBSET {"list", "store", "close"}, Doing(b, op, steps)
      PROVE  Doing(b, op, steps)'
  BY <1>1, <1>2, ProcFacts DEF Doing
<1>3. \A p \in Procs : Storing(p)' = Storing(p)
  BY <1>1 DEF Storing
<1>. QED  BY <1>1, <1>2, <1>3 DEF Unread, Coming

\* A new block is in no list yet, and its creation is under way.
LEMMA CreateKeeps ==
  ASSUME GateType, WorkType, BlockInv, NEW r \in Requests, NEW range \in Ranges, NEW x \in {now + 1, Never},
         IPBlocksCreate(r, range, x)
  PROVE  BlockInv'
<1>0. PICK b : b = [id |-> nextBlock, range |-> range, expires |-> x]
  OBVIOUS
<1>. DEFINE w == Reloading("create", b)
<1>1. /\ work[r] = Idle /\ blocks' = blocks \union {b} /\ nextBlock' = nextBlock + 1
      /\ work' = [work EXCEPT ![r] = w] /\ \A z \in blocks : z.range # b.range
      /\ UNCHANGED <<now, list, trusted, conns, doubt>> /\ b.id = nextBlock
  BY <1>0 DEF IPBlocksCreate, CreateIPBlock, Begin
<1>2. w.at = "list" /\ w.op = "create" /\ w.row = b
  BY DEF Reloading
<1>. HIDE DEF w
<1>3. /\ \A p \in Procs : work'[p].at = "store" <=> work[p].at = "store"
      /\ \A p \in Procs : work'[p].at = "store" => work'[p] = work[p]
      /\ \A p \in Procs : Storing(p)' = Storing(p)
      /\ \A z, op : /\ Unread(z, op) => Unread(z, op)'
                    /\ Coming(z, op) => Coming(z, op)'
                    /\ Doing(z, op, {"list", "store", "close"}) => Doing(z, op, {"list", "store", "close"})'
  BY <1>1, <1>2, StartsReload, WorkKinds, ProcFacts
<1>4. Unread(b, "create")' /\ Coming(b, "create")' /\ Doing(b, "create", {"list", "store", "close"})'
  BY <1>1, <1>2, ProcFacts DEF Unread, Coming, Doing, WorkType
<1>5. OneRowEach' /\ TrustHeld'
  <2>1. nextBlock \in Nat /\ \A z \in blocks : z.id \in Nat
    BY AdmissionAssumption DEF GateType, Block, AdmissionAssumption
  <2>. QED  BY <1>1, <2>1 DEF BlockInv, OneRowEach, TrustHeld, Trusted
<1>6. Overlaps'
  BY <1>1, <1>3 DEF BlockInv, Overlaps, Storing
<1>7. Stores'
  BY <1>1, <1>3, <1>4 DEF BlockInv, Stores, InForce
<1>8. Listed'
  BY <1>1, <1>3, <1>4 DEF BlockInv, Listed, InForce
<1>9. ConnsHeld'
  BY <1>1, <1>3, <1>4 DEF BlockInv, ConnsHeld, Excused, Held, Covering, InForce, Trusted
<1>. QED  BY <1>5, <1>6, <1>7, <1>8, <1>9 DEF BlockInv

\* The row goes, and the reload that takes it out of the list is to come.
LEMMA DeleteKeeps ==
  ASSUME GateType, WorkType, BlockInv, NEW r \in Requests, DeleteIPBlock(r)
  PROVE  BlockInv'
<1>0. PICK b : b = work[r].row
  OBVIOUS
<1>. DEFINE w == Reloading("delete", b)
<1>1. /\ work[r].at = "delete block" /\ blocks' = blocks \ {b}
      /\ work' = [work EXCEPT ![r] = w]
      /\ UNCHANGED <<now, list, trusted, conns, doubt, nextBlock>>
  BY <1>0 DEF DeleteIPBlock
<1>2. w.at = "list" /\ w.op = "delete" /\ w.row = b
  BY DEF Reloading
<1>. HIDE DEF w
<1>3. /\ \A p \in Procs : work'[p].at = "store" <=> work[p].at = "store"
      /\ \A p \in Procs : work'[p].at = "store" => work'[p] = work[p]
      /\ \A p \in Procs : Storing(p)' = Storing(p)
      /\ \A z, op : /\ Unread(z, op) => Unread(z, op)'
                    /\ Coming(z, op) => Coming(z, op)'
                    /\ Doing(z, op, {"list", "store", "close"}) => Doing(z, op, {"list", "store", "close"})'
  BY <1>1, <1>2, StartsReload, ProcFacts
<1>4. Unread(b, "delete")' /\ Coming(b, "delete")'
  BY <1>1, <1>2, ProcFacts DEF Unread, Coming, Doing, WorkType
<1>5. OneRowEach' /\ TrustHeld'
  BY <1>1 DEF BlockInv, OneRowEach, TrustHeld, Trusted
<1>6. Overlaps'
  BY <1>1, <1>3 DEF BlockInv, Overlaps, Storing
<1>7. Stores'
  BY <1>1, <1>3, <1>4 DEF BlockInv, Stores, InForce
<1>8. Listed'
  BY <1>1, <1>3, <1>4 DEF BlockInv, Listed, InForce
<1>9. ConnsHeld'
  BY <1>1, <1>3 DEF BlockInv, ConnsHeld, Excused, Held, Covering, InForce, Trusted
<1>. QED  BY <1>5, <1>6, <1>7, <1>8, <1>9 DEF BlockInv

\* The sweep takes out what is no longer in force.
LEMMA SweepKeeps ==
  ASSUME GateType, WorkType, BlockInv, Sweep
  PROVE  BlockInv'
<1>. DEFINE w == Reloading("sweep", None)
<1>1. /\ work[Sweeper] = Idle /\ blocks' = InForce(blocks)
      /\ work' = [work EXCEPT ![Sweeper] = w]
      /\ UNCHANGED <<now, list, trusted, conns, doubt, nextBlock>>
  BY DEF Sweep
<1>2. w.at = "list"
  BY DEF Reloading
<1>. HIDE DEF w
<1>3. /\ \A p \in Procs : work'[p].at = "store" <=> work[p].at = "store"
      /\ \A p \in Procs : work'[p].at = "store" => work'[p] = work[p]
      /\ \A p \in Procs : Storing(p)' = Storing(p)
      /\ \A z, op : /\ Unread(z, op) => Unread(z, op)'
                    /\ Coming(z, op) => Coming(z, op)'
                    /\ Doing(z, op, {"list", "store", "close"}) => Doing(z, op, {"list", "store", "close"})'
  BY <1>1, <1>2, StartsReload, WorkKinds, ProcFacts
<1>5. OneRowEach' /\ TrustHeld'
  BY <1>1 DEF BlockInv, OneRowEach, TrustHeld, Trusted, InForce
<1>6. Overlaps'
  BY <1>1, <1>3 DEF BlockInv, Overlaps, Storing
<1>7. Stores'
  BY <1>1, <1>3 DEF BlockInv, Stores, InForce
<1>8. Listed'
  BY <1>1, <1>3 DEF BlockInv, Listed, InForce
<1>9. ConnsHeld'
  BY <1>1, <1>3 DEF BlockInv, ConnsHeld, Excused, Held, Covering, InForce, Trusted
<1>. QED  BY <1>5, <1>6, <1>7, <1>8, <1>9 DEF BlockInv

\* A reload reads: all it and the others that have read disagree on is in doubt.
LEMMA ReadKeeps ==
  ASSUME GateType, WorkType, BlockInv, NEW p \in Procs, ReadList(p)
  PROVE  BlockInv'
<1>0. PICK R : R = InForce(blocks)
  OBVIOUS
<1>1. /\ work[p].at = "list" /\ UNCHANGED <<now, blocks, list, trusted, conns, nextBlock>>
      /\ doubt' = doubt \union Unlike(p, R)
      /\ work' = [q \in Procs |->
           IF q = p THEN [work[p] EXCEPT !.at = "store", !.rows = R, !.lone = Storing(p) = {}]
           ELSE IF q \in Storing(p) THEN [work[q] EXCEPT !.lone = FALSE] ELSE work[q]]
  BY <1>0 DEF ReadList
<1>2. \A q \in Procs : work[q].at \in {"list", "store"} => work[q] \in ReloadWork \union SweepWork
  BY WorkOf, ProcFacts
<1>3. /\ work'[p].at = "store" /\ work'[p].rows = R /\ work'[p].op = work[p].op /\ work'[p].row = work[p].row
      /\ work'[p].lone <=> Storing(p) = {}
  <2>. DEFINE alone == Storing(p) = {}
  <2>1. alone \in BOOLEAN /\ work'[p] = [work[p] EXCEPT !.at = "store", !.rows = R, !.lone = alone]
    BY <1>1
  <2>. HIDE DEF alone
  <2>2. /\ work'[p].at = "store" /\ work'[p].rows = R /\ work'[p].op = work[p].op /\ work'[p].row = work[p].row
        /\ work'[p].lone = alone
    BY <1>1, <1>2, <2>1 DEF ReloadWork, SweepWork
  <2>. QED  BY <2>2 DEF alone
<1>4. ASSUME NEW q \in Procs, q # p
      PROVE  /\ work'[q].at = work[q].at
             /\ work[q].at \in {"list", "store"} =>
                  work'[q].op = work[q].op /\ work'[q].row = work[q].row /\ work'[q].rows = work[q].rows
             /\ work[q].at = "close" => work'[q] = work[q]
             /\ work[q].at = "store" => ~work'[q].lone
  <2>1. CASE work[q].at = "store"
    <3>1. q \in Storing(p) /\ work'[q] = [work[q] EXCEPT !.lone = FALSE]
      BY <1>1, <1>4, <2>1 DEF Storing
    <3>. QED  BY <1>2, <2>1, <3>1 DEF ReloadWork, SweepWork
  <2>2. CASE work[q].at # "store"
    BY <1>1, <1>4, <2>2 DEF Storing
  <2>. QED  BY <2>1, <2>2
<1>5. /\ \A q \in Procs : q # p => Storing(q)' = Storing(q) \union {p}
      /\ Storing(p)' = Storing(p)
  BY <1>3, <1>4 DEF Storing
<1>6. \A q \in Storing(p) : work[q].rows \ R \subseteq doubt' /\ R \ work[q].rows \subseteq doubt'
  <2>. SUFFICES ASSUME NEW q \in Storing(p)
                PROVE  (work[q].rows \ R) \cup (R \ work[q].rows) \subseteq doubt'
    OBVIOUS
  <2>1. (work[q].rows \ R) \cup (R \ work[q].rows) \subseteq Unlike(p, R)
    BY DEF Unlike
  <2>. QED  BY <1>1, <2>1
<1>7. \A z, op : /\ Coming(z, op) => Coming(z, op)'
                 /\ Doing(z, op, {"list", "store", "close"}) => Doing(z, op, {"list", "store", "close"})'
                 /\ Unread(z, op) => Unread(z, op)' \/ (p \in Requests /\ work[p].op = op /\ work[p].row = z)
  <2>1. ASSUME NEW z, NEW op, NEW steps \in {{"list", "store"}, {"list", "store", "close"}}, Doing(z, op, steps)
        PROVE  Doing(z, op, steps)'
    <3>. PICK r \in Requests : work[r].at \in steps /\ work[r].op = op /\ work[r].row = z
      BY <2>1 DEF Doing
    <3>1. r \in Procs /\ work[r].at \in {"list", "store", "close"}
      BY ProcFacts
    <3>2. work'[r].op = op /\ work'[r].row = z /\ (work'[r].at = work[r].at \/ work'[r].at = "store")
      BY <1>3, <1>4, <3>1
    <3>3. work'[r].at \in steps
      BY <3>2
    <3>. QED  BY <3>2, <3>3 DEF Doing
  <2>2. ASSUME NEW z, NEW op, Unread(z, op)
        PROVE  Unread(z, op)' \/ (p \in Requests /\ work[p].op = op /\ work[p].row = z)
    <3>. PICK r \in Requests : work[r].at = "list" /\ work[r].op = op /\ work[r].row = z
      BY <2>2 DEF Unread, Doing
    <3>1. r # p => work'[r].at = "list" /\ work'[r].op = op /\ work'[r].row = z
      BY <1>4, ProcFacts
    <3>. QED  BY <3>1 DEF Unread, Doing
  <2>. QED  BY <2>1, <2>2 DEF Coming
<1>8. OneRowEach' /\ TrustHeld'
  BY <1>1 DEF BlockInv, OneRowEach, TrustHeld, Trusted
<1>9. Overlaps'
  <2>. SUFFICES ASSUME NEW q \in Procs, work'[q].at = "store", NEW s \in Storing(q)'
                PROVE  ~work'[q].lone /\ work'[q].rows \ work'[s].rows \subseteq doubt'
    BY DEF Overlaps
  <2>0. s \in Procs /\ s # q /\ work'[s].at = "store"
    BY DEF Storing
  <2>1. CASE q = p
    BY <1>3, <1>4, <1>5, <1>6, <2>0, <2>1
  <2>2. CASE q # p /\ s = p
    <3>1. q \in Storing(p)
      BY <1>4, <2>2 DEF Storing
    <3>. QED  BY <1>3, <1>4, <1>6, <2>2, <3>1
  <2>3. CASE q # p /\ s # p
    <3>1. work[q].at = "store" /\ s \in Storing(q)
      BY <1>4, <2>0, <2>3 DEF Storing
    <3>. QED  BY <1>1, <1>4, <2>0, <2>3, <3>1 DEF BlockInv, Overlaps
  <2>. QED  BY <2>1, <2>2, <2>3
<1>10. Stores'
  <2>. SUFFICES ASSUME NEW q \in Procs, work'[q].at = "store"
                PROVE  /\ \A b \in InForce(blocks)' \ work'[q].rows : b \in doubt' \/ Unread(b, "create")'
                       /\ \A b \in InForce(work[q].rows)' \ blocks' : b \in doubt' \/ Unread(b, "delete")'
                       /\ \A b \in InForce(work[q].rows)' \ list' : b \in doubt' \/ Coming(b, "create")'
    BY DEF Stores
  <2>1. CASE q = p
    BY <1>0, <1>1, <1>3, <1>7, <2>1 DEF BlockInv, Listed, InForce
  <2>2. CASE q # p
    <3>1. q \in Storing(p) /\ work[q].at = "store" /\ work'[q].rows = work[q].rows
      BY <1>4, <2>2 DEF Storing
    <3>2. /\ \A b \in InForce(blocks) \ work[q].rows : b \in doubt'
          /\ \A b \in InForce(work[q].rows) \ blocks : b \in doubt'
      BY <1>0, <1>6, <3>1 DEF InForce
    <3>3. \A b \in InForce(work[q].rows) \ list : b \in doubt \/ Coming(b, "create")
      BY <3>1 DEF BlockInv, Stores
    <3>. QED  BY <1>1, <1>7, <3>1, <3>2, <3>3 DEF InForce
  <2>. QED  BY <2>1, <2>2
<1>11. Listed'
  BY <1>1, <1>7 DEF BlockInv, Listed, InForce
<1>12. ConnsHeld'
  <2>1. \A q \in Procs : work'[q].at = "store" => work'[q].rows \subseteq blocks \/ (work[q].at = "store" /\ work'[q].rows = work[q].rows)
    BY <1>0, <1>3, <1>4 DEF InForce
  <2>2. \A Q, a, f : Held(Q, a, f) => Held(Q, a, f)'
    BY <1>1, <1>7 DEF Held, Covering, InForce
  <2>3. \A a, f : Held(blocks, a, f) => \A Q \in SUBSET blocks : Held(Q, a, f)
    BY DEF Held, Covering, InForce
  <2>. SUFFICES ASSUME NEW c \in Connections, conns'[c].at \in {"let in", "open"},
                       NEW a \in Addresses, conns'[c].ip = a, a \notin trusted',
                       NEW f \in SUBSET Block, f = Excused(c)'
                PROVE  /\ Held(blocks, a, f)' /\ Held(list, a, f)'
                       /\ \A q \in Procs : work'[q].at = "store" => Held(work[q].rows, a, f)'
    BY DEF ConnsHeld
  <2>4. /\ Held(blocks, a, f) /\ Held(list, a, f)
        /\ \A q \in Procs : work[q].at = "store" => Held(work[q].rows, a, f)
    BY <1>1 DEF BlockInv, ConnsHeld, Excused
  <2>5. Held(blocks, a, f)' /\ Held(list, a, f)'
    <3>1. PICK Q, z : Q = blocks /\ z = list
      OBVIOUS
    <3>2. Held(Q, a, f)' /\ Held(z, a, f)'
      BY <2>2, <2>4, <3>1
    <3>. QED  BY <1>1, <3>1, <3>2 DEF Held, Covering, InForce
  <2>6. ASSUME NEW q \in Procs, work'[q].at = "store"
        PROVE  Held(work[q].rows, a, f)'
    <3>1. PICK Q : Q = work'[q].rows
      OBVIOUS
    <3>2. Held(Q, a, f)
      BY <2>1, <2>3, <2>4, <2>6, <3>1
    <3>3. Held(Q, a, f)'
      BY <2>2, <3>2
    <3>. QED  BY <3>1, <3>3 DEF Held, Covering, InForce
  <2>. QED  BY <2>5, <2>6
<1>. QED  BY <1>8, <1>9, <1>10, <1>11, <1>12 DEF BlockInv

\* A reload stores what it has read, and settles what is in doubt if it was
\* alone.
LEMMA StoreKeeps ==
  ASSUME GateType, WorkType, BlockInv, NEW p \in Procs, StoreList(p)
  PROVE  BlockInv'
<1>0. PICK R : R = work[p].rows
  OBVIOUS
<1>1. /\ work[p].at = "store" /\ list' = R /\ UNCHANGED <<now, blocks, trusted, conns, nextBlock>>
      /\ doubt' = IF work[p].lone THEN {b \in doubt : (b \in R) # (b \in blocks)} ELSE doubt
      /\ work' = [work EXCEPT ![p] = AfterReload(p)]
  BY <1>0 DEF StoreList
<1>2. \A q \in Procs : work'[q] = IF q = p THEN AfterReload(p) ELSE work[q]
  BY <1>1 DEF WorkType
<1>3. AfterReload(p) = Idle \/ (AfterReload(p).at = "close" /\ AfterReload(p).op = "create" /\ AfterReload(p).row = work[p].row)
  BY DEF AfterReload
<1>4. AfterReload(p).at \notin {"list", "store"} /\ (work[p].op = "create" => AfterReload(p).at = "close" /\ AfterReload(p).op = "create" /\ AfterReload(p).row = work[p].row)
  BY <1>3, WorkKinds DEF AfterReload
<1>5. \A z, op : /\ Unread(z, op) => Unread(z, op)'
                 /\ Doing(z, "create", {"list", "store", "close"}) => Doing(z, "create", {"list", "store", "close"})'
                 /\ Unread(z, op)' => Coming(z, op)'
                 /\ Coming(z, op) => Doing(z, op, {"list", "store", "close"})
  BY <1>1, <1>2, <1>4, ProcFacts DEF Unread, Coming, Doing
<1>6. \A q \in Procs : work'[q].at = "store" => q # p /\ work'[q] = work[q]
  BY <1>2, <1>4
<1>7. \A q \in Procs : work'[q].at = "store" => doubt' = doubt /\ work[q].rows \ R \subseteq doubt
  <2>. SUFFICES ASSUME NEW q \in Procs, work'[q].at = "store"
                PROVE  doubt' = doubt /\ work[q].rows \ R \subseteq doubt
    OBVIOUS
  <2>1. q \in Storing(p) /\ p \in Storing(q) /\ work[q].at = "store"
    BY <1>1, <1>6 DEF Storing
  <2>. QED  BY <1>0, <1>1, <2>1 DEF BlockInv, Overlaps
<1>8. OneRowEach' /\ TrustHeld'
  BY <1>1 DEF BlockInv, OneRowEach, TrustHeld, Trusted
<1>9. Overlaps'
  <2>. SUFFICES ASSUME NEW q \in Procs, work'[q].at = "store", NEW s \in Storing(q)'
                PROVE  ~work'[q].lone /\ work'[q].rows \ work'[s].rows \subseteq doubt'
    BY DEF Overlaps
  <2>0. s \in Procs /\ s # q /\ work'[s].at = "store"
    BY DEF Storing
  <2>1. work'[q] = work[q] /\ work'[s] = work[s] /\ s \in Storing(q)
    BY <1>6, <2>0 DEF Storing
  <2>. QED  BY <1>7, <2>1 DEF BlockInv, Overlaps
<1>10. Stores'
  <2>. SUFFICES ASSUME NEW q \in Procs, work'[q].at = "store"
                PROVE  /\ \A b \in InForce(blocks)' \ work'[q].rows : b \in doubt' \/ Unread(b, "create")'
                       /\ \A b \in InForce(work[q].rows)' \ blocks' : b \in doubt' \/ Unread(b, "delete")'
                       /\ \A b \in InForce(work[q].rows)' \ list' : b \in doubt' \/ Coming(b, "create")'
    BY DEF Stores
  <2>1. work'[q] = work[q] /\ doubt' = doubt /\ work[q].rows \ R \subseteq doubt
    BY <1>6, <1>7
  <2>. QED  BY <1>1, <1>5, <2>1 DEF BlockInv, Stores, InForce
<1>11. Listed'
  <2>1. /\ \A b \in InForce(blocks) \ R : b \in doubt \/ Unread(b, "create")
        /\ \A b \in InForce(R) \ blocks : b \in doubt \/ Unread(b, "delete")
    BY <1>0, <1>1 DEF BlockInv, Stores
  <2>2. \A b \in doubt : (b \in R) # (b \in blocks) => b \in doubt'
    BY <1>1
  <2>3. /\ \A b \in InForce(blocks) \ R : b \in doubt' \/ Unread(b, "create")
        /\ \A b \in InForce(R) \ blocks : b \in doubt' \/ Unread(b, "delete")
    BY <2>1, <2>2 DEF InForce
  <2>4. InForce(blocks)' = InForce(blocks) /\ InForce(list)' = InForce(R) /\ blocks' = blocks
    BY <1>1 DEF InForce
  <2>. QED  BY <1>1, <1>5, <2>3, <2>4 DEF Listed
<1>12. ConnsHeld'
  BY <1>0, <1>1, <1>5, <1>6 DEF BlockInv, ConnsHeld, Excused, Held, Covering, InForce, Trusted
<1>. QED  BY <1>8, <1>9, <1>10, <1>11, <1>12 DEF BlockInv

\* A reload that fails leaves its row in doubt, and the connections its block
\* would have ended.
LEMMA FailKeeps ==
  ASSUME GateType, WorkType, BlockInv, NEW p \in Procs, Reload(p)
  PROVE  BlockInv'
<1>0. PICK b : b = work[p].row
  OBVIOUS
<1>1. /\ work[p].at = "list" /\ work' = [work EXCEPT ![p] = Idle]
      /\ UNCHANGED <<now, blocks, list, trusted, nextBlock>>
      /\ doubt' = IF b = None THEN doubt ELSE doubt \cup {b}
      /\ conns' = [c \in Connections |->
           IF work[p].op = "create" /\ conns[c].at \in {"let in", "open"} /\ conns[c].ip \in b.range
           THEN [conns[c] EXCEPT !.unclosed = @ \union {b}] ELSE conns[c]]
  BY <1>0 DEF Reload
<1>2. \A q \in Procs : work'[q] = IF q = p THEN Idle ELSE work[q]
  BY <1>1 DEF WorkType
<1>3. p \in Requests => b \in doubt' /\ b # None
  BY <1>0, <1>1, WorkOf, ProcFacts DEF ReloadWork
<1>4. \A z, op : /\ Coming(z, op) => Coming(z, op)' \/ z \in doubt'
                 /\ Unread(z, op) => Unread(z, op)' \/ z \in doubt'
                 /\ Doing(z, op, {"list", "store", "close"}) =>
                      Doing(z, op, {"list", "store", "close"})' \/ (z = b /\ work[p].op = op)
  BY <1>0, <1>2, <1>3, ProcFacts DEF Coming, Unread, Doing
<1>5. \A q \in Procs : work'[q].at = "store" => work'[q] = work[q] /\ q # p
  BY <1>2, WorkKinds
<1>6. doubt \subseteq doubt'
  BY <1>1
<1>7. ASSUME NEW c \in Connections
      PROVE  /\ conns'[c].at = conns[c].at
             /\ conns'[c].at # "away" => conns'[c].ip = conns[c].ip
             /\ conns'[c].at \in {"let in", "open"} =>
                  /\ conns[c] \in Arrived /\ Excused(c) \subseteq Excused(c)'
                  /\ work[p].op = "create" /\ conns[c].ip \in b.range => b \in Excused(c)'
  <2>1. CASE work[p].op = "create" /\ conns[c].at \in {"let in", "open"} /\ conns[c].ip \in b.range
    <3>1. [at |-> "away"].at = "away"
      OBVIOUS
    <3>2. conns[c] \in Arrived
      BY <2>1, <3>1 DEF GateType
    <3>3. conns'[c] = [conns[c] EXCEPT !.unclosed = @ \union {b}]
      BY <1>1, <2>1
    <3>. QED  BY <2>1, <3>2, <3>3 DEF Arrived, Excused
  <2>2. CASE ~(work[p].op = "create" /\ conns[c].at \in {"let in", "open"} /\ conns[c].ip \in b.range)
    <3>1. [at |-> "away"].at = "away"
      OBVIOUS
    <3>. QED  BY <1>1, <2>2, <3>1 DEF GateType, Excused
  <2>. QED  BY <2>1, <2>2
<1>8. OneRowEach' /\ TrustHeld'
  BY <1>1, <1>7 DEF BlockInv, OneRowEach, TrustHeld, Trusted
<1>9. Overlaps'
  BY <1>5, <1>6 DEF BlockInv, Overlaps, Storing
<1>10. Stores'
  BY <1>1, <1>4, <1>5, <1>6 DEF BlockInv, Stores, InForce
<1>11. Listed'
  BY <1>1, <1>4, <1>6 DEF BlockInv, Listed, InForce
<1>12. ConnsHeld'
  <2>. SUFFICES ASSUME NEW c \in Connections, conns'[c].at \in {"let in", "open"},
                       NEW a \in Addresses, conns'[c].ip = a, a \notin trusted',
                       NEW g \in SUBSET Block, g = Excused(c)'
                PROVE  /\ Held(blocks, a, g)' /\ Held(list, a, g)'
                       /\ \A q \in Procs : work'[q].at = "store" => Held(work[q].rows, a, g)'
    BY DEF ConnsHeld
  <2>1. /\ conns[c].at \in {"let in", "open"} /\ conns[c].ip = a /\ a \notin trusted
        /\ conns[c] \in Arrived /\ Excused(c) \subseteq g
        /\ work[p].op = "create" /\ a \in b.range => b \in g
    BY <1>1, <1>7
  <2>2. PICK f \in SUBSET Block : f = Excused(c)
    BY <2>1 DEF Excused, Arrived
  <2>3. /\ Held(blocks, a, f) /\ Held(list, a, f)
        /\ \A q \in Procs : work[q].at = "store" => Held(work[q].rows, a, f)
    BY <2>1, <2>2 DEF BlockInv, ConnsHeld
  <2>4. \A R : Held(R, a, f) => Held(R, a, g)'
    BY <1>1, <1>4, <2>1, <2>2 DEF Held, Covering, InForce
  <2>. QED  BY <1>1, <1>5, <2>3, <2>4 DEF Held, Covering, InForce
<1>. QED  BY <1>8, <1>9, <1>10, <1>11, <1>12 DEF BlockInv

\* The connections a new block covers end, but for those not registered yet.
LEMMA CloseKeeps ==
  ASSUME GateType, WorkType, BlockInv, NEW r \in Requests, CloseFor(r)
  PROVE  BlockInv'
<1>0. PICK b : b = work[r].row
  OBVIOUS
<1>1. /\ work[r].at = "close" /\ work' = [work EXCEPT ![r] = Idle]
      /\ UNCHANGED <<now, blocks, list, trusted, doubt, nextBlock>>
  BY DEF CloseFor
<1>2. \A q \in Procs : work'[q] = IF q = r THEN Idle ELSE work[q]
  BY <1>1 DEF WorkType
<1>3. work[r].op = "create"
  BY <1>1, WorkOf DEF CloseWork
<1>4. \A z, op : /\ Coming(z, op) => Coming(z, op)'
                 /\ Unread(z, op) => Unread(z, op)'
                 /\ Doing(z, op, {"list", "store", "close"}) => Doing(z, op, {"list", "store", "close"})' \/ z = b
  BY <1>0, <1>1, <1>2, ProcFacts DEF Coming, Unread, Doing
<1>5. \A q \in Procs : work'[q].at = "store" => work'[q] = work[q]
  BY <1>2, WorkKinds
<1>6. ASSUME NEW c \in Connections
      PROVE  \/ conns'[c] = conns[c] /\ (conns[c].at \in {"let in", "open"} => conns[c].ip \notin b.range \/ Trusted(conns[c].ip))
             \/ conns'[c].at = "cut" /\ conns'[c].ip = conns[c].ip /\ ~Trusted(conns[c].ip)
             \/ /\ conns[c].at = "let in" /\ conns'[c].at = "let in" /\ conns'[c].ip = conns[c].ip
                /\ Excused(c)' = Excused(c) \union {b}
  <2>. DEFINE covered == conns[c].at \in {"let in", "open"} /\ conns[c].ip \in b.range /\ ~Trusted(conns[c].ip)
  <2>1. conns'[c] = IF covered /\ conns[c].at = "open" THEN [conns[c] EXCEPT !.at = "cut"]
                    ELSE IF covered /\ conns[c].at = "let in" THEN [conns[c] EXCEPT !.slipped = @ \union {b}]
                    ELSE conns[c]
    BY <1>0 DEF CloseFor
  <2>2. CASE covered
    <3>1. [at |-> "away"].at = "away"
      OBVIOUS
    <3>2. conns[c] \in Arrived
      BY <2>2, <3>1 DEF GateType
    <3>. QED  BY <2>1, <2>2, <3>2 DEF Arrived, Excused
  <2>3. CASE ~covered
    BY <2>1, <2>3
  <2>. QED  BY <2>2, <2>3
<1>8. OneRowEach'
  BY <1>1 DEF BlockInv, OneRowEach
<1>9. TrustHeld'
  BY <1>1, <1>6 DEF BlockInv, TrustHeld, Trusted
<1>10. Overlaps'
  BY <1>1, <1>5 DEF BlockInv, Overlaps, Storing
<1>11. Stores'
  BY <1>1, <1>4, <1>5 DEF BlockInv, Stores, InForce
<1>12. Listed'
  BY <1>1, <1>4 DEF BlockInv, Listed, InForce
<1>13. ConnsHeld'
  <2>. SUFFICES ASSUME NEW c \in Connections, conns'[c].at \in {"let in", "open"},
                       NEW a \in Addresses, conns'[c].ip = a, a \notin trusted',
                       NEW g \in SUBSET Block, g = Excused(c)'
                PROVE  /\ Held(blocks, a, g)' /\ Held(list, a, g)'
                       /\ \A q \in Procs : work'[q].at = "store" => Held(work[q].rows, a, g)'
    BY DEF ConnsHeld
  <2>1. /\ conns[c].at \in {"let in", "open"} /\ conns[c].ip = a /\ a \notin trusted
        /\ Excused(c) \subseteq g /\ (a \in b.range => b \in g)
    BY <1>1, <1>6 DEF Trusted, Excused
  <2>2. PICK f \in SUBSET Block : f = Excused(c)
    BY <2>1
  <2>3. /\ Held(blocks, a, f) /\ Held(list, a, f)
        /\ \A q \in Procs : work[q].at = "store" => Held(work[q].rows, a, f)
    BY <2>1, <2>2 DEF BlockInv, ConnsHeld
  <2>4. \A R : Held(R, a, f) => Held(R, a, g)'
    BY <1>1, <1>4, <2>1, <2>2 DEF Held, Covering, InForce
  <2>. QED  BY <1>1, <1>5, <2>3, <2>4 DEF Held, Covering, InForce
<1>. QED  BY <1>8, <1>9, <1>10, <1>11, <1>12, <1>13 DEF BlockInv

\* A client that is let in is covered only by blocks on their way into the
\* list, or comes late.
LEMMA ConnectKeeps ==
  ASSUME GateType, WorkType, BlockInv, NEW c \in Connections,
         Register(c) \/ \E a \in Addresses : IPBlock(c, a)
  PROVE  BlockInv'
<1>1. UNCHANGED <<now, blocks, list, trusted, doubt, nextBlock, work>>
  BY DEF Register, IPBlock
<1>2. OneRowEach' /\ Overlaps' /\ Stores' /\ Listed'
  BY <1>1 DEF BlockInv, OneRowEach, Overlaps, Storing, Stores, Listed, InForce, Unread, Coming, Doing
<1>3. \A z : Coming(z, "create") => Doing(z, "create", {"list", "store", "close"})
  BY DEF Coming, Doing
<1>4. \A d \in Connections : d # c => conns'[d] = conns[d]
  BY DEF Register, IPBlock, GateType
<1>5. CASE Register(c)
  <2>1. conns[c] \in Arrived
    <3>1. [at |-> "away"].at = "away"
      OBVIOUS
    <3>. QED  BY <1>5, <3>1 DEF Register, GateType
  <2>2. conns[c].at = "let in" /\ conns'[c].at = "open" /\ conns'[c].ip = conns[c].ip
        /\ Excused(c)' = Excused(c)
    BY <1>5, <2>1 DEF Register, GateType, Arrived, Excused
  <2>3. TrustHeld'
    BY <1>1, <1>4, <2>2 DEF BlockInv, TrustHeld, Trusted
  <2>4. ConnsHeld'
    <3>. SUFFICES ASSUME NEW d \in Connections, conns'[d].at \in {"let in", "open"},
                         NEW a \in Addresses, conns'[d].ip = a, a \notin trusted',
                         NEW f \in SUBSET Block, f = Excused(d)'
                  PROVE  /\ Held(blocks, a, f)' /\ Held(list, a, f)'
                         /\ \A q \in Procs : work'[q].at = "store" => Held(work[q].rows, a, f)'
      BY DEF ConnsHeld
    <3>1. conns[d].at \in {"let in", "open"} /\ conns[d].ip = a /\ a \notin trusted /\ f = Excused(d)
      BY <1>1, <1>4, <2>2 DEF Excused
    <3>2. /\ Held(blocks, a, f) /\ Held(list, a, f)
          /\ \A q \in Procs : work[q].at = "store" => Held(work[q].rows, a, f)
      BY <3>1 DEF BlockInv, ConnsHeld
    <3>3. \A R : Held(R, a, f) => Held(R, a, f)'
      BY <1>1 DEF Held, Covering, InForce, Doing
    <3>. QED  BY <1>1, <3>2, <3>3
  <2>. QED  BY <1>2, <2>3, <2>4 DEF BlockInv
<1>6. CASE \E a \in Addresses : IPBlock(c, a)
  <2>. PICK a \in Addresses : IPBlock(c, a)
    BY <1>6
  <2>1. conns'[c].ip = a /\ conns'[c].at = (IF Refused(a) THEN "refused" ELSE "let in")
        /\ Excused(c)' = {b \in doubt : a \in b.range}
    BY DEF IPBlock, GateType, Excused
  <2>2. TrustHeld'
    BY <1>1, <1>4, <2>1 DEF BlockInv, TrustHeld, Trusted, Refused
  <2>3. \A f : conns'[c].at = "let in" /\ f = Excused(c)' /\ ~Trusted(a) =>
          /\ Held(blocks, a, f) /\ Held(list, a, f)
          /\ \A p \in Procs : work[p].at = "store" => Held(work[p].rows, a, f)
    BY <1>3, <2>1 DEF Refused, Held, Covering, InForce, BlockInv, Listed, Stores
  <2>4. ConnsHeld'
    <3>. SUFFICES ASSUME NEW d \in Connections, conns'[d].at \in {"let in", "open"},
                         NEW x \in Addresses, conns'[d].ip = x, x \notin trusted',
                         NEW f \in SUBSET Block, f = Excused(d)'
                  PROVE  /\ Held(blocks, x, f)' /\ Held(list, x, f)'
                         /\ \A q \in Procs : work'[q].at = "store" => Held(work[q].rows, x, f)'
      BY DEF ConnsHeld
    <3>1. /\ Held(blocks, x, f) /\ Held(list, x, f)
          /\ \A p \in Procs : work[p].at = "store" => Held(work[p].rows, x, f)
      <4>1. CASE d = c
        <5>1. x = a /\ conns'[c].at = "let in" /\ f = Excused(c)' /\ ~Trusted(a)
          BY <1>1, <2>1, <4>1 DEF Trusted
        <5>. QED  BY <2>3, <5>1
      <4>2. CASE d # c
        BY <1>1, <1>4, <4>2 DEF BlockInv, ConnsHeld, Excused
      <4>. QED  BY <4>1, <4>2
    <3>2. \A R : Held(R, x, f) => Held(R, x, f)'
      BY <1>1 DEF Held, Covering, InForce, Doing
    <3>. QED  BY <1>1, <3>1, <3>2
  <2>. QED  BY <1>2, <2>2, <2>4 DEF BlockInv
<1>. QED  BY <1>5, <1>6

\* The server starts again with the list as the table is.
LEMMA RestartKeeps ==
  ASSUME GateType, BlockInv, Restart
  PROVE  BlockInv'
<1>1. /\ UNCHANGED <<now, blocks, nextBlock>> /\ list' = InForce(blocks) /\ doubt' = {}
      /\ conns' = [c \in Connections |-> [at |-> "away"]] /\ work' = [p \in Procs |-> Idle]
  BY DEF Restart
<1>2. \A p \in Procs : work'[p].at = "idle"
  BY <1>1, WorkKinds
<1>. QED  BY <1>1, <1>2 DEF BlockInv, OneRowEach, Overlaps, Stores, Listed, ConnsHeld, TrustHeld, InForce

\* Every step keeps what is said of the blocks.
LEMMA BlockInvKept ==
  ASSUME GateType, WorkType, RingType, BlockInv, [ANext]_avars
  PROVE  BlockInv'
<1>1. ASSUME UNCHANGED gate, now' \in {now, now + 1},
             \A p \in Procs : work'[p] = work[p] \/ ( /\ work[p].at \notin {"list", "store", "close"}
                                                      /\ work'[p].at \notin {"list", "store", "close"} )
      PROVE  BlockInv'
  BY <1>1, ElsewhereKeeps DEF gate
<1>2. ASSUME NEW r \in Procs, NEW w, work' = [work EXCEPT ![r] = w], UNCHANGED <<now, gate>>,
             work[r].at \notin {"list", "store", "close"}, w.at \notin {"list", "store", "close"}
      PROVE  BlockInv'
  <2>1. \A p \in Procs : work'[p] = IF p = r THEN w ELSE work[p]
    BY <1>2 DEF WorkType
  <2>. QED  BY <1>1, <1>2, <2>1
<1>3. ASSUME NEW r \in Requests, NEW k, work' = Overlapped(r, k), work[r].at = "write key", UNCHANGED <<now, gate>>
      PROVE  BlockInv'
  <2>1. \A p \in Procs : work[p].at = "write key" => [work[p] EXCEPT !.lone = FALSE].at = "write key"
    <3>1. \A w \in RingWork : [w EXCEPT !.lone = FALSE].at = w.at
      BY DEF RingWork, UpdateWork, RotateWork
    <3>. QED  BY <3>1, WorkOf, ProcFacts
  <2>2. \A p \in Procs : work'[p] = work[p] \/ ( /\ work[p].at \notin {"list", "store", "close"}
                                                 /\ work'[p].at \notin {"list", "store", "close"} )
    BY <1>3, <2>1, WorkKinds DEF Overlapped
  <2>. QED  BY <1>1, <1>3, <2>2
<1>4. ASSUME NEW r \in Requests, Admin(r)
      PROVE  BlockInv'
  <2>1. ASSUME NEW range \in Ranges, NEW x \in {now + 1, Never}, IPBlocksCreate(r, range, x)
        PROVE  BlockInv'
    BY <2>1, CreateKeeps
  <2>2. ASSUME NEW b \in blocks, IPBlocksDelete(r, b)
        PROVE  BlockInv'
    BY <1>2, <2>2, WorkKinds, ProcFacts DEF IPBlocksDelete, Begin
  <2>3. ASSUME NEW scope \in Scopes, APIKeysCreate(r, scope)
        PROVE  BlockInv'
    BY <1>1, <2>3 DEF APIKeysCreate
  <2>4. ASSUME NEW k \in KeyIds, NEW t \in 0..nextSecret, NEW d \in BOOLEAN, NEW scope \in Scopes,
               APIKeysUpdate(r, k, t, d, scope)
        PROVE  BlockInv'
    <3>. DEFINE w == [at |-> "write key", op |-> "update", key |-> k, read |-> keys[k].secret,
                      typed |-> t, disabled |-> d, scope |-> scope, lone |-> TRUE]
    <3>1. w.at = "write key" /\ work' = [work EXCEPT ![r] = w] /\ work[r] = Idle /\ UNCHANGED <<now, gate>>
      BY <2>4 DEF APIKeysUpdate, Begin
    <3>. HIDE DEF w
    <3>. QED  BY <1>2, <3>1, WorkKinds, ProcFacts
  <2>5. ASSUME NEW k \in KeyIds, APIKeysRotate(r, k)
        PROVE  BlockInv'
    <3>. DEFINE w == [at |-> "write key", op |-> "rotate", key |-> k, read |-> keys[k].secret, lone |-> TRUE]
    <3>1. w.at = "write key" /\ work' = [work EXCEPT ![r] = w] /\ work[r] = Idle /\ UNCHANGED <<now, gate>>
      BY <2>5 DEF APIKeysRotate, Begin
    <3>. HIDE DEF w
    <3>. QED  BY <1>2, <3>1, WorkKinds, ProcFacts
  <2>6. ASSUME NEW k \in KeyIds, APIKeysDelete(r, k)
        PROVE  BlockInv'
    BY <1>1, <2>6 DEF APIKeysDelete
  <2>7. CASE UpdateAPIKey(r)
    <3>1. \/ work' = [work EXCEPT ![r] = Idle]
          \/ work' = Overlapped(r, work[r].key)
      BY <2>7 DEF UpdateAPIKey
    <3>2. work[r].at = "write key" /\ UNCHANGED <<now, gate>>
      BY <2>7 DEF UpdateAPIKey
    <3>3. r \in Procs /\ Idle.at = "idle"
      BY WorkKinds, ProcFacts
    <3>4. CASE work' = [work EXCEPT ![r] = Idle]
      BY <1>2, <3>2, <3>3, <3>4
    <3>5. CASE work' = Overlapped(r, work[r].key)
      BY <1>3, <3>2, <3>5
    <3>. QED  BY <3>1, <3>4, <3>5
  <2>8. CASE RotateAPIKey(r)
    BY <1>3, <2>8 DEF RotateAPIKey
  <2>. QED  BY <1>4, <2>1, <2>2, <2>3, <2>4, <2>5, <2>6, <2>7, <2>8, DeleteKeeps, CloseKeeps DEF Admin
<1>5. ASSUME NEW u \in Uploads, Upload(u)
      PROVE  BlockInv'
  BY <1>1, <1>5 DEF Upload, APIKeyAuth, GetAPIKeyByKey, GetAPIKeyByPreviousKey, PostCallUpload
<1>6. CASE Tick
  BY <1>1, <1>6 DEF Tick
<1>7. CASE UNCHANGED avars
  BY <1>1, <1>7 DEF avars
<1>8. ASSUME NEW p \in Procs, Reloads(p)
      PROVE  BlockInv'
  BY <1>8, ReadKeeps, StoreKeeps, FailKeeps DEF Reloads
<1>. QED  BY <1>4, <1>5, <1>6, <1>7, <1>8, SweepKeeps, ConnectKeeps, RestartKeeps DEF ANext

\* What is kept of the blocks is more than BlocksHold.
LEMMA BlockInvHolds ==
  ASSUME GateType, WorkType, BlockInv
  PROVE  BlocksHold
<1>1. \A b, op : Coming(b, op) => Pending(b, op)
  BY DEF Coming, Doing, Pending
<1>2. /\ \A b \in InForce(blocks) \ list : b \in doubt \/ Pending(b, "create")
      /\ \A b \in InForce(list) \ blocks : b \in doubt \/ Pending(b, "delete")
  BY <1>1 DEF BlockInv, Listed
<1>3. \A c \in Connections : conns[c].at \in {"refused", "cut"} => ~Trusted(conns[c].ip)
  BY DEF BlockInv, TrustHeld
<1>4. ASSUME NEW c \in Connections, conns[c].at = "open", Refused(conns[c].ip),
             NEW b \in Covering(list, conns[c].ip)
      PROVE  Pending(b, "create") \/ b \in conns[c].slipped \/ b \in conns[c].unclosed
  <2>1. PICK a : a = conns[c].ip
    OBVIOUS
  <2>2. a \in Addresses /\ Excused(c) \in SUBSET Block
    <3>1. [at |-> "away"].at = "away"
      OBVIOUS
    <3>. QED  BY <1>4, <2>1, <3>1 DEF GateType, Arrived, Excused
  <2>3. PICK f \in SUBSET Block : f = Excused(c)
    BY <2>2
  <2>4. Held(list, a, f)
    BY <1>4, <2>1, <2>2, <2>3 DEF BlockInv, ConnsHeld, Refused, Trusted
  <2>. QED  BY <1>4, <2>1, <2>3, <2>4 DEF Held, Doing, Pending, Excused
<1>. QED  BY <1>2, <1>3, <1>4 DEF BlocksHold

-----------------------------------------------------------------------------
(* Keys and uploads: types.                                                *)

\* What an update makes of a key's row.
LEMMA Updated ==
  ASSUME WorkType, RingType, Owned, NEW r \in Requests, UpdateAPIKey(r)
  PROVE  \E w \in UpdateWork : \E k \in KeyIds :
           /\ w = work[r] /\ k = w.key
           /\ keys' \in [KeyIds -> {None} \union Key]
           /\ \A j \in KeyIds : j # k => keys'[j] = keys[j]
           /\ keys[k] = None => keys'[k] = None
           /\ keys[k] # None =>
                /\ keys'[k] \in Key /\ keys'[k].secret = IF w.typed = 0 THEN w.read ELSE w.typed
                /\ keys'[k].previous = keys[k].previous /\ keys'[k].until = keys[k].until
<1>1. PICK w \in UpdateWork : w = work[r]
  BY WorkOf DEF UpdateAPIKey
<1>2. PICK k \in KeyIds : k = w.key
  BY <1>1 DEF UpdateWork
<1>3. PICK s \in Nat : s = IF w.typed = 0 THEN w.read ELSE w.typed
  BY <1>1 DEF UpdateWork
<1>4. PICK d \in BOOLEAN : d = w.disabled
  BY <1>1 DEF UpdateWork
<1>5. PICK y \in SUBSET Systems : y = w.scope
  BY <1>1 DEF UpdateWork
<1>6. keys' = IF keys[k] = None THEN keys ELSE [keys EXCEPT ![k].secret = s, ![k].disabled = d, ![k].scope = y]
  BY <1>1, <1>2, <1>3, <1>4, <1>5 DEF UpdateAPIKey
<1>7. CASE keys[k] = None
  BY <1>1, <1>2, <1>6, <1>7 DEF RingType
<1>8. CASE keys[k] # None
  <2>. DEFINE f == [keys EXCEPT ![k].secret = s, ![k].disabled = d, ![k].scope = y]
              x == [secret |-> s, previous |-> keys[k].previous, until |-> keys[k].until, disabled |-> d, scope |-> y]
  <2>1. keys[k] \in Key
    BY <1>8 DEF RingType
  <2>2. f[k] = x
    BY <2>1 DEF Key, RingType
  <2>3. f = [keys EXCEPT ![k] = f[k]] /\ keys' = f
    BY <1>6, <1>8 DEF RingType
  <2>4. x \in Key /\ x.secret = s /\ x.previous = keys[k].previous /\ x.until = keys[k].until
    BY <2>1 DEF Key
  <2>. HIDE DEF x
  <2>5. keys' = [keys EXCEPT ![k] = x]
    BY <2>2, <2>3
  <2>6. /\ keys' \in [KeyIds -> {None} \union Key] /\ keys'[k] = x
        /\ \A j \in KeyIds : j # k => keys'[j] = keys[j]
    BY <2>4, <2>5 DEF RingType
  <2>. QED  BY <1>1, <1>2, <1>3, <1>8, <2>4, <2>6
<1>. QED  BY <1>7, <1>8

\* What a rotation makes of it.
LEMMA Rotated ==
  ASSUME GateType, WorkType, RingType, Owned, NEW r \in Requests, RotateAPIKey(r)
  PROVE  \E w \in RotateWork : \E k \in KeyIds :
           /\ w = work[r] /\ k = w.key
           /\ keys' \in [KeyIds -> {None} \union Key] /\ replaced' \in [KeyIds -> [secret : Nat, until : Nat]]
           /\ \A j \in KeyIds : j # k => keys'[j] = keys[j] /\ replaced'[j] = replaced[j]
           /\ keys[k] = None => keys'[k] = None /\ replaced'[k] = replaced[k]
           /\ keys[k] # None =>
                /\ keys'[k] \in Key /\ keys'[k].secret = nextSecret /\ keys'[k].previous = w.read
                /\ keys'[k].until = now + Grace
                /\ replaced'[k].secret = keys[k].secret /\ replaced'[k].until = now + Grace
<1>0. now \in Nat /\ Grace \in Nat
  BY AdmissionAssumption DEF AdmissionAssumption, GateType
<1>1. PICK w \in RotateWork : w = work[r]
  BY WorkOf DEF RotateAPIKey
<1>2. PICK k \in KeyIds : k = w.key
  BY <1>1 DEF RotateWork
<1>3. PICK v \in Nat : v = w.read
  BY <1>1 DEF RotateWork
<1>4. PICK t \in Nat : t = now + Grace
  BY <1>0
<1>5. PICK s \in Nat : s = nextSecret
  BY DEF RingType
<1>6. /\ keys' = IF keys[k] = None THEN keys ELSE [keys EXCEPT ![k].secret = s, ![k].previous = v, ![k].until = t]
      /\ replaced' = IF keys[k] = None THEN replaced ELSE [replaced EXCEPT ![k] = [secret |-> keys[k].secret, until |-> t]]
  BY <1>1, <1>2, <1>3, <1>4, <1>5 DEF RotateAPIKey
<1>7. CASE keys[k] = None
  BY <1>1, <1>2, <1>6, <1>7 DEF RingType
<1>8. CASE keys[k] # None
  <2>. DEFINE f == [keys EXCEPT ![k].secret = s, ![k].previous = v, ![k].until = t]
              x == [secret |-> s, previous |-> v, until |-> t, disabled |-> keys[k].disabled, scope |-> keys[k].scope]
              z == [secret |-> keys[k].secret, until |-> t]
  <2>1. keys[k] \in Key
    BY <1>8 DEF RingType
  <2>2. f[k] = x
    BY <2>1 DEF Key, RingType
  <2>3. f = [keys EXCEPT ![k] = f[k]] /\ keys' = f /\ replaced' = [replaced EXCEPT ![k] = z]
    BY <1>6, <1>8 DEF RingType
  <2>4. /\ x \in Key /\ x.secret = s /\ x.previous = v /\ x.until = t
        /\ z \in [secret : Nat, until : Nat] /\ z.secret = keys[k].secret /\ z.until = t
    BY <2>1 DEF Key
  <2>. HIDE DEF x, z
  <2>5. keys' = [keys EXCEPT ![k] = x]
    BY <2>2, <2>3
  <2>6. /\ keys' \in [KeyIds -> {None} \union Key] /\ keys'[k] = x
        /\ replaced' \in [KeyIds -> [secret : Nat, until : Nat]] /\ replaced'[k] = z
        /\ \A j \in KeyIds : j # k => keys'[j] = keys[j] /\ replaced'[j] = replaced[j]
    BY <2>3, <2>4, <2>5 DEF RingType
  <2>. QED  BY <1>1, <1>2, <1>3, <1>4, <1>5, <1>8, <2>4, <2>6
<1>. QED  BY <1>7, <1>8

\* What watching does to the uploads.
LEMMA Watching ==
  ASSUME UploadType, NEW ks, NEW t, uploads' = Watch(ks, t)
  PROVE  /\ UploadType'
         /\ \A u \in Uploads : uploads[u].at \notin Waiting => uploads'[u] = uploads[u]
         /\ \A u \in Uploads : uploads[u].at \in Waiting =>
              /\ uploads[u] \in Uploading /\ uploads'[u].at = uploads[u].at
              /\ uploads'[u].secret = uploads[u].secret /\ uploads'[u].system = uploads[u].system
              /\ uploads'[u].scope = uploads[u].scope
              /\ (uploads'[u].ever <=> uploads[u].ever \/ Good(ks, t, uploads[u]))
              /\ (uploads'[u].always <=> uploads[u].always /\ Good(ks, t, uploads[u]))
<1>1. \A u \in Uploads : uploads[u].at \notin Waiting => uploads'[u] = uploads[u]
  BY DEF Watch
<1>2. ASSUME NEW u \in Uploads, uploads[u].at \in Waiting
      PROVE  /\ uploads[u] \in Uploading /\ uploads'[u] \in Uploading /\ uploads'[u].at = uploads[u].at
             /\ uploads'[u].secret = uploads[u].secret /\ uploads'[u].system = uploads[u].system
             /\ uploads'[u].scope = uploads[u].scope
             /\ (uploads'[u].ever <=> uploads[u].ever \/ Good(ks, t, uploads[u]))
             /\ (uploads'[u].always <=> uploads[u].always /\ Good(ks, t, uploads[u]))
  <2>1. uploads[u] \in Uploading
    <3>1. [at |-> "away"].at = "away"
      OBVIOUS
    <3>. QED  BY <1>2, <3>1 DEF UploadType, Waiting
  <2>2. PICK g \in BOOLEAN : g <=> Good(ks, t, uploads[u])
    OBVIOUS
  <2>3. PICK x \in Uploading : x = uploads[u]
    BY <2>1
  <2>4. uploads'[u] = [x EXCEPT !.ever = x.ever \/ g, !.always = x.always /\ g]
    BY <1>2, <2>2, <2>3 DEF Watch
  <2>5. (x.ever \/ g) \in BOOLEAN /\ (x.always /\ g) \in BOOLEAN
    OBVIOUS
  <2>. QED  BY <2>2, <2>3, <2>4, <2>5 DEF Uploading
<1>. QED  BY <1>1, <1>2 DEF UploadType, Watch

\* Every step keeps the types of the keys.
LEMMA RingSteps ==
  ASSUME GateType, WorkType, RingType, Owned, [ANext]_avars
  PROVE  RingType'
<1>. USE DEF RingType
<1>0. now \in Nat /\ Grace \in Nat /\ MaxRows \in Nat /\ nextSecret \in Nat /\ nextKey \in Nat
  BY AdmissionAssumption DEF AdmissionAssumption, GateType
<1>1. ASSUME UNCHANGED <<keys, shown, replaced, raced, nextKey, nextSecret>>
      PROVE  RingType'
  BY <1>1
<1>2. ASSUME NEW r \in Requests, Admin(r)
      PROVE  RingType'
  <2>1. ASSUME NEW scope \in Scopes, APIKeysCreate(r, scope)
        PROVE  RingType'
    <3>1. NewKey(nextSecret, scope) \in Key
      BY <1>0 DEF NewKey, Key, Scopes
    <3>2. /\ keys' = [keys EXCEPT ![nextKey] = NewKey(nextSecret, scope)]
          /\ nextKey \in KeyIds /\ nextKey' = nextKey + 1 /\ nextSecret' = nextSecret + 1
          /\ shown' = [shown EXCEPT ![nextKey] = nextSecret] /\ UNCHANGED <<replaced, raced>>
      BY <2>1 DEF APIKeysCreate
    <3>3. nextKey' \in 2..(MaxRows + 1)
      BY <1>0, <3>2 DEF KeyIds
    <3>4. keys' \in [KeyIds -> {None} \union Key]
      BY <3>1, <3>2
    <3>. QED  BY <1>0, <3>2, <3>3, <3>4
  <2>2. ASSUME NEW k \in KeyIds, NEW t \in 0..nextSecret, NEW d \in BOOLEAN, NEW scope \in Scopes,
               APIKeysUpdate(r, k, t, d, scope)
        PROVE  RingType'
    <3>1. nextSecret' \in {nextSecret, nextSecret + 1} /\ UNCHANGED <<keys, shown, replaced, raced, nextKey>>
      BY <2>2 DEF APIKeysUpdate
    <3>. QED  BY <1>0, <3>1
  <2>3. ASSUME NEW k \in KeyIds, APIKeysDelete(r, k)
        PROVE  RingType'
    BY <2>3 DEF APIKeysDelete
  <2>4. CASE UpdateAPIKey(r)
    <3>1. PICK w \in UpdateWork, k \in KeyIds : /\ w = work[r] /\ k = w.key
                                               /\ keys' \in [KeyIds -> {None} \union Key]
      BY <2>4, Updated
    <3>2. /\ shown' = IF w.typed = 0 THEN shown ELSE [shown EXCEPT ![k] = w.typed]
          /\ raced' \in {raced, raced \union {k}} /\ UNCHANGED <<replaced, nextKey, nextSecret>>
      BY <2>4, <3>1 DEF UpdateAPIKey
    <3>3. w.typed \in Nat
      BY <3>1 DEF UpdateWork
    <3>. QED  BY <3>1, <3>2, <3>3
  <2>5. CASE RotateAPIKey(r)
    <3>1. PICK w \in RotateWork, k \in KeyIds : /\ w = work[r] /\ k = w.key
                                               /\ keys' \in [KeyIds -> {None} \union Key]
                                               /\ replaced' \in [KeyIds -> [secret : Nat, until : Nat]]
      BY <2>5, Rotated
    <3>2. /\ shown' = [shown EXCEPT ![k] = nextSecret] /\ nextSecret' = nextSecret + 1 /\ nextKey' = nextKey
          /\ raced' \in {raced \ {k}, raced \union {k}}
      BY <2>5, <3>1 DEF RotateAPIKey
    <3>. QED  BY <1>0, <3>1, <3>2
  <2>. QED
    BY <1>1, <1>2, <2>1, <2>2, <2>3, <2>4, <2>5
    DEF Admin, ring, IPBlocksCreate, IPBlocksDelete, DeleteIPBlock, CloseFor, APIKeysRotate
<1>3. ASSUME NEW p \in Procs, Reloads(p)
      PROVE  RingType'
  BY <1>1, <1>3 DEF Reloads, ring, ReadList, StoreList, Reload
<1>4. ASSUME NEW u \in Uploads, Upload(u)
      PROVE  RingType'
  BY <1>1, <1>4 DEF Upload, APIKeyAuth, GetAPIKeyByKey, GetAPIKeyByPreviousKey, PostCallUpload
<1>. QED
  BY <1>1, <1>2, <1>3, <1>4 DEF ANext, avars, ring, Sweep, Register, IPBlock, Tick, Restart

-----------------------------------------------------------------------------
(* Whose a secret is.                                                      *)

SecretInv == Owned /\ Told

\* A step that gives no secret to a key but the next one.
LEMMA OwnedStep ==
  ASSUME RingType, RingType', Owned, nextKey <= nextKey', nextSecret <= nextSecret', NEW kk,
         \A k \in KeyIds : \A s \in Nat :
           Owns(k, s)' => Owns(k, s) \/ (k = kk /\ kk < nextKey' /\ (s = 0 \/ (s = nextSecret /\ s < nextSecret')))
  PROVE  /\ \A k \in KeyIds : \A s \in Nat : Owns(k, s)' => s < nextSecret' /\ k < nextKey'
         /\ \A k, j \in KeyIds : \A s \in Nat \ {0} : Owns(k, s)' /\ Owns(j, s)' => k = j
<1>0. {nextKey, nextKey', nextSecret, nextSecret'} \subseteq Nat /\ nextSecret' > 0 /\ KeyIds \subseteq Nat
  BY AdmissionAssumption DEF AdmissionAssumption, RingType, KeyIds
<1>1. ASSUME NEW k \in KeyIds, NEW s \in Nat, Owns(k, s)'
      PROVE  s < nextSecret' /\ k < nextKey'
  <2>1. CASE Owns(k, s)
    <3>1. s < nextSecret /\ k < nextKey
      BY <2>1 DEF Owned
    <3>. QED  BY <1>0, <3>1
  <2>2. CASE k = kk /\ kk < nextKey' /\ (s = 0 \/ (s = nextSecret /\ s < nextSecret'))
    BY <1>0, <2>2
  <2>. QED  BY <1>1, <2>1, <2>2
<1>2. ASSUME NEW k \in KeyIds, NEW j \in KeyIds, NEW s \in Nat \ {0}, Owns(k, s)', Owns(j, s)'
      PROVE  k = j
  <2>1. \A i \in KeyIds : Owns(i, s) => s < nextSecret
    BY DEF Owned
  <2>2. s = nextSecret => \A i \in KeyIds : ~Owns(i, s)
    BY <1>0, <2>1
  <2>3. /\ Owns(k, s) \/ (k = kk /\ s = nextSecret)
        /\ Owns(j, s) \/ (j = kk /\ s = nextSecret)
    BY <1>2
  <2>. QED  BY <2>2, <2>3 DEF Owned
<1>. QED  BY <1>1, <1>2

\* Steps that touch no key, and no request that is about to.
LEMMA ElsewhereOwned ==
  ASSUME SecretInv, UNCHANGED <<keys, shown, replaced, raced, nextKey, nextSecret>>,
         \A r \in Requests : work'[r].at = "write key" => work'[r] = work[r]
  PROVE  SecretInv'
<1>1. \A k \in KeyIds : \A s \in Nat : Owns(k, s)' => Owns(k, s)
  BY DEF Owns
<1>2. Owned'
  BY <1>1 DEF SecretInv, Owned
<1>3. ReadStands'
  BY DEF SecretInv, Told, ReadStands
<1>4. AsShown' /\ NoneReplaced'
  BY DEF SecretInv, Told, AsShown, NoneReplaced
<1>. QED  BY <1>2, <1>3, <1>4 DEF SecretInv, Told

\* Requests that have a key in hand keep what they have as another writes one.
Keeps(q) ==
  work'[q].at = "write key" =>
    /\ work[q].at = "write key" /\ work'[q].op = work[q].op /\ work'[q].key = work[q].key /\ work'[q].read = work[q].read
    /\ work[q].op = "update" => work'[q].typed = work[q].typed
    /\ work'[q].lone => work[q].lone

\* After an overlap no other request is alone with the key.
LEMMA Overlapping ==
  ASSUME WorkType, NEW r \in Requests, NEW k
  PROVE  /\ work' = Overlapped(r, k) =>
              \A q \in Requests : Keeps(q) /\ (work'[q].at = "write key" /\ work'[q].lone => q # r /\ work'[q].key # k)
         /\ work' = [work EXCEPT ![r] = Idle] =>
              \A q \in Requests : Keeps(q) /\ (work'[q].at = "write key" => q # r)
<1>1. \A w \in RingWork : LET x == [w EXCEPT !.lone = FALSE] IN
        x.at = w.at /\ x.op = w.op /\ x.key = w.key /\ x.read = w.read /\ x.lone = FALSE
  BY DEF RingWork, UpdateWork, RotateWork
<1>2. \A w \in UpdateWork : [w EXCEPT !.lone = FALSE].typed = w.typed
  BY DEF UpdateWork
<1>3. ASSUME work' = Overlapped(r, k), NEW q \in Requests
      PROVE  Keeps(q) /\ (work'[q].at = "write key" /\ work'[q].lone => q # r /\ work'[q].key # k)
  <2>0. q \in Procs
    BY ProcFacts
  <2>1. CASE q = r
    <3>1. work'[q].at = "idle"
      BY <1>3, <2>0, <2>1, WorkKinds DEF Overlapped
    <3>. QED  BY <2>1, <3>1 DEF Keeps
  <2>2. CASE q # r /\ work[q].at = "write key" /\ work[q].key = k
    <3>1. work'[q] = [work[q] EXCEPT !.lone = FALSE]
      BY <1>3, <2>0, <2>2 DEF Overlapped
    <3>2. work[q] \in RingWork /\ (work[q].op = "update" => work[q] \in UpdateWork)
      BY <2>2, WorkOf
    <3>3. PICK w \in RingWork : w = work[q]
      BY <3>2
    <3>4. work'[q].lone = FALSE /\ work'[q].at = w.at /\ work'[q].op = w.op /\ work'[q].key = w.key /\ work'[q].read = w.read
      BY <1>1, <3>1, <3>3
    <3>5. work[q].op = "update" => work'[q].typed = work[q].typed
      BY <1>2, <3>1, <3>2
    <3>. QED  BY <2>2, <3>3, <3>4, <3>5 DEF Keeps
  <2>3. CASE q # r /\ ~(work[q].at = "write key" /\ work[q].key = k)
    <3>1. work'[q] = work[q]
      BY <1>3, <2>0, <2>3 DEF Overlapped
    <3>. QED  BY <2>3, <3>1 DEF Keeps
  <2>. QED  BY <2>1, <2>2, <2>3
<1>4. ASSUME work' = [work EXCEPT ![r] = Idle], NEW q \in Requests
      PROVE  Keeps(q) /\ (work'[q].at = "write key" => q # r)
  <2>1. work'[q] = IF q = r THEN Idle ELSE work[q]
    BY <1>4, ProcFacts DEF WorkType
  <2>. QED  BY <2>1, WorkKinds DEF Keeps
<1>. QED  BY <1>3, <1>4

\* A new key has the next number and the next secret.
LEMMA CreateOwned ==
  ASSUME RingType, RingType', WorkType, SecretInv, NEW r \in Requests, NEW scope \in Scopes, APIKeysCreate(r, scope)
  PROVE  SecretInv'
<1>0. nextKey \in Nat /\ nextSecret \in Nat \ {0}
  BY DEF RingType
<1>1. /\ nextKey \in KeyIds /\ nextKey' = nextKey + 1 /\ nextSecret' = nextSecret + 1
      /\ keys'[nextKey] = NewKey(nextSecret, scope) /\ shown'[nextKey] = nextSecret
      /\ \A k \in KeyIds : k # nextKey => keys'[k] = keys[k] /\ shown'[k] = shown[k]
      /\ UNCHANGED <<replaced, raced, work>>
  BY DEF APIKeysCreate, RingType
<1>2. LET x == NewKey(nextSecret, scope) IN x.secret = nextSecret /\ x.previous = 0 /\ x.until = 0
  BY DEF NewKey
<1>3. \A k \in KeyIds : \A s \in Nat :
        Owns(k, s)' => Owns(k, s) \/ (k = nextKey /\ (s = 0 \/ s = nextSecret))
  BY <1>1, <1>2 DEF Owns
<1>4. /\ \A k \in KeyIds : \A s \in Nat : Owns(k, s)' => s < nextSecret' /\ k < nextKey'
      /\ \A k, j \in KeyIds : \A s \in Nat \ {0} : Owns(k, s)' /\ Owns(j, s)' => k = j
  <2>1. nextKey <= nextKey' /\ nextSecret <= nextSecret' /\ nextKey < nextKey' /\ nextSecret < nextSecret'
    BY <1>0, <1>1
  <2>2. \A k \in KeyIds : \A s \in Nat :
          Owns(k, s)' => Owns(k, s) \/ (k = nextKey /\ nextKey < nextKey' /\ (s = 0 \/ (s = nextSecret /\ s < nextSecret')))
    BY <1>3, <2>1
  <2>3. PICK kk : kk = nextKey
    OBVIOUS
  <2>4. \A k \in KeyIds : \A s \in Nat :
          Owns(k, s)' => Owns(k, s) \/ (k = kk /\ kk < nextKey' /\ (s = 0 \/ (s = nextSecret /\ s < nextSecret')))
    BY <2>2, <2>3
  <2>. QED  BY <2>1, <2>4, OwnedStep DEF SecretInv
<1>5. Owned'
  <2>1. \A k \in KeyIds : keys'[k] # None => keys'[k].secret # 0
    BY <1>0, <1>1, <1>2 DEF SecretInv, Owned
  <2>. QED  BY <1>1, <1>4, <2>1 DEF SecretInv, Owned
<1>a. \A k \in KeyIds : \A s \in Nat : Owns(k, s) => k # nextKey
  <2>1. \A k \in KeyIds : \A s \in Nat : Owns(k, s) => k < nextKey
    BY DEF SecretInv, Owned
  <2>2. ~(nextKey < nextKey)
    BY <1>0
  <2>. QED  BY <2>1, <2>2
<1>6. ReadStands'
  <2>. SUFFICES ASSUME NEW q \in Requests, work'[q].at = "write key",
                       NEW k \in KeyIds, k = work'[q].key, keys'[k] # None
                PROVE  work'[q].lone => work'[q].read = keys'[k].secret
    BY DEF ReadStands
  <2>1. work[q].read \in Nat /\ work'[q] = work[q]
    BY <1>1, WorkOf DEF RingWork, UpdateWork, RotateWork
  <2>2. Owns(k, work[q].read)
    BY <1>1 DEF Owns
  <2>3. k # nextKey
    BY <1>a, <2>1, <2>2
  <2>4. work[q].at = "write key" /\ k = work[q].key
    BY <2>1
  <2>5. keys'[k] = keys[k]
    BY <1>1, <2>3
  <2>6. work[q].lone => work[q].read = keys[k].secret
    BY <2>4, <2>5 DEF SecretInv, Told, ReadStands
  <2>. QED  BY <2>1, <2>5, <2>6
<1>7. AsShown'
  <2>1. replaced[nextKey].secret = 0 /\ replaced[nextKey].until = 0
    BY <1>0, <1>1 DEF SecretInv, Told, NoneReplaced
  <2>. QED  BY <1>1, <1>2, <2>1 DEF SecretInv, Told, AsShown
<1>8. NoneReplaced'
  <2>1. KeyIds \subseteq Int
    BY DEF KeyIds
  <2>2. \A k \in KeyIds : k >= nextKey' => k >= nextKey
    BY <1>0, <1>1, <2>1
  <2>. QED  BY <1>1, <2>2 DEF SecretInv, Told, NoneReplaced
<1>. QED  BY <1>5, <1>6, <1>7, <1>8 DEF SecretInv, Told

\* The numbers of secrets only grow.
LEMMA NextGrows ==
  ASSUME RingType, nextSecret' \in {nextSecret, nextSecret + 1}
  PROVE  /\ nextSecret <= nextSecret' /\ nextKey <= nextKey
         /\ nextSecret' = nextSecret + 1 => nextSecret < nextSecret'
<1>. nextKey \in Nat /\ nextSecret \in Nat
  BY DEF RingType
<1>. QED  OBVIOUS

\* A request that reads the key it is about to write.
LEMMA TakeOwned ==
  ASSUME RingType, RingType', WorkType, SecretInv, NEW r \in Requests, NEW k \in KeyIds, keys[k] # None, NEW w,
         work' = [work EXCEPT ![r] = w], w.at = "write key", w.key = k, w.read = keys[k].secret,
         w.op = "update" => /\ w.typed \in {0, nextSecret, keys[k].previous}
                            /\ w.typed = nextSecret => nextSecret' = nextSecret + 1,
         nextSecret' \in {nextSecret, nextSecret + 1}, UNCHANGED <<keys, shown, replaced, raced, nextKey>>
  PROVE  SecretInv'
<1>0. nextSecret <= nextSecret' /\ nextKey <= nextKey'
  BY NextGrows
<1>1. \A q \in Requests : work'[q] = IF q = r THEN w ELSE work[q]
  BY ProcFacts DEF WorkType
<1>2. keys[k] \in Key /\ keys[k].secret \in Nat /\ keys[k].secret # 0
  BY DEF RingType, Key, SecretInv, Owned
<1>3. Owns(k, keys[k].secret) /\ Owns(k, keys[k].previous)
  BY DEF Owns
<1>4. k < nextKey
  BY <1>2, <1>3 DEF SecretInv, Owned
<1>5. \A j \in KeyIds : \A s \in Nat :
        Owns(j, s)' => Owns(j, s) \/ (j = k /\ (s = 0 \/ (s = nextSecret /\ nextSecret' = nextSecret + 1)))
  <2>. SUFFICES ASSUME NEW j \in KeyIds, NEW s \in Nat, Owns(j, s)'
                PROVE  Owns(j, s) \/ (j = k /\ (s = 0 \/ (s = nextSecret /\ nextSecret' = nextSecret + 1)))
    OBVIOUS
  <2>1. CASE keys[j] # None /\ s \in {keys[j].secret, keys[j].previous}
    BY <2>1 DEF Owns
  <2>2. CASE \E q \in Requests : /\ work'[q].at = "write key" /\ work'[q].key = j
                                 /\ s = work'[q].read \/ (work'[q].op = "update" /\ s = work'[q].typed)
    <3>1. PICK q \in Requests : /\ work'[q].at = "write key" /\ work'[q].key = j
                                /\ s = work'[q].read \/ (work'[q].op = "update" /\ s = work'[q].typed)
      BY <2>2
    <3>2. CASE q # r
      <4>1. work'[q] = work[q]
        BY <1>1, <3>2
      <4>. QED  BY <3>1, <4>1 DEF Owns
    <3>3. CASE q = r
      <4>1. work'[q] = w /\ j = k
        BY <1>1, <3>1, <3>3
      <4>. QED  BY <1>3, <3>1, <4>1
    <3>. QED  BY <3>2, <3>3
  <2>. QED  BY <2>1, <2>2 DEF Owns
<1>6. \A j \in KeyIds : \A s \in Nat :
        Owns(j, s)' => Owns(j, s) \/ (j = k /\ k < nextKey' /\ (s = 0 \/ (s = nextSecret /\ s < nextSecret')))
  <2>1. nextSecret' = nextSecret + 1 => nextSecret < nextSecret'
    BY NextGrows
  <2>2. k < nextKey'
    BY <1>4
  <2>. QED  BY <1>5, <2>1, <2>2
<1>7. /\ \A j \in KeyIds : \A s \in Nat : Owns(j, s)' => s < nextSecret' /\ j < nextKey'
      /\ \A i, j \in KeyIds : \A s \in Nat \ {0} : Owns(i, s)' /\ Owns(j, s)' => i = j
  BY <1>0, <1>6, OwnedStep DEF SecretInv
<1>8. Owned'
  BY <1>1, <1>2, <1>7 DEF SecretInv, Owned
<1>9. ReadStands'
  <2>. SUFFICES ASSUME NEW q \in Requests, work'[q].at = "write key",
                       NEW j \in KeyIds, j = work'[q].key, keys'[j] # None
                PROVE  work'[q].lone => work'[q].read = keys'[j].secret
    BY DEF ReadStands
  <2>1. CASE q = r
    BY <1>1, <2>1
  <2>2. CASE q # r
    <3>1. work'[q] = work[q]
      BY <1>1, <2>2
    <3>. QED  BY <3>1 DEF SecretInv, Told, ReadStands
  <2>. QED  BY <2>1, <2>2
<1>10. AsShown' /\ NoneReplaced'
  BY DEF SecretInv, Told, AsShown, NoneReplaced
<1>. QED  BY <1>8, <1>9, <1>10 DEF SecretInv, Told

\* What a request keeps in hand it has already.
LEMMA KeptOwned ==
  ASSUME WorkType, NEW q \in Requests, Keeps(q), NEW k, NEW s, work'[q].at = "write key", work'[q].key = k,
         s = work'[q].read \/ (work'[q].op = "update" /\ s = work'[q].typed)
  PROVE  Owns(k, s)
BY DEF Keeps, Owns

\* The key's row is written from what the request has read, or has been typed.
LEMMA UpdateOwned ==
  ASSUME RingType, RingType', WorkType, SecretInv, NEW r \in Requests, UpdateAPIKey(r)
  PROVE  SecretInv'
<1>1. PICK w \in UpdateWork, k \in KeyIds :
           /\ w = work[r] /\ k = w.key
           /\ keys' \in [KeyIds -> {None} \union Key]
           /\ \A j \in KeyIds : j # k => keys'[j] = keys[j]
           /\ keys[k] = None => keys'[k] = None
           /\ keys[k] # None =>
                /\ keys'[k] \in Key /\ keys'[k].secret = IF w.typed = 0 THEN w.read ELSE w.typed
                /\ keys'[k].previous = keys[k].previous /\ keys'[k].until = keys[k].until
  BY Updated DEF SecretInv
<1>2. /\ w.at = "write key" /\ w.op = "update" /\ w.read \in Nat /\ w.typed \in Nat /\ w.lone \in BOOLEAN
      /\ w.read # 0
  BY <1>1 DEF UpdateWork, SecretInv, Owned
<1>3. /\ shown' = IF w.typed = 0 THEN shown ELSE [shown EXCEPT ![k] = w.typed]
      /\ raced' = IF w.typed = 0 /\ ~w.lone THEN raced \union {k} ELSE raced
      /\ work' = IF w.typed = 0 /\ w.lone THEN [work EXCEPT ![r] = Idle] ELSE Overlapped(r, k)
      /\ UNCHANGED <<replaced, nextKey, nextSecret>>
  BY <1>1 DEF UpdateAPIKey
<1>4. \A q \in Requests : Keeps(q) /\ (work'[q].at = "write key" => q # r)
  <2>1. CASE work' = [work EXCEPT ![r] = Idle]
    BY <2>1, Overlapping
  <2>2. CASE work' = Overlapped(r, k)
    <3>1. work'[r].at = "idle"
      BY <2>2, WorkKinds, ProcFacts DEF Overlapped
    <3>2. \A q \in Requests : Keeps(q)
      BY <2>2, Overlapping
    <3>. QED  BY <3>1, <3>2
  <2>. QED  BY <1>3, <2>1, <2>2
<1>5. keys[k] # None /\ w.typed = 0 /\ w.lone => keys'[k].secret = keys[k].secret
  BY <1>1, <1>2 DEF SecretInv, Told, ReadStands
<1>6. Owns(k, w.read) /\ Owns(k, w.typed)
  BY <1>1, <1>2 DEF Owns
<1>7. \A j \in KeyIds : \A s \in Nat : Owns(j, s)' => Owns(j, s)
  <2>. SUFFICES ASSUME NEW j \in KeyIds, NEW s \in Nat, Owns(j, s)'
                PROVE  Owns(j, s)
    OBVIOUS
  <2>1. CASE keys'[j] # None /\ s \in {keys'[j].secret, keys'[j].previous}
    <3>1. CASE j # k
      BY <1>1, <2>1, <3>1 DEF Owns
    <3>2. CASE j = k
      <4>1. keys[k] # None /\ s \in {w.read, w.typed, keys[k].previous}
        BY <1>1, <2>1, <3>2
      <4>2. Owns(k, keys[k].previous)
        BY <4>1 DEF Owns
      <4>. QED  BY <1>6, <3>2, <4>1, <4>2
    <3>. QED  BY <3>1, <3>2
  <2>2. CASE \E q \in Requests : /\ work'[q].at = "write key" /\ work'[q].key = j
                                 /\ s = work'[q].read \/ (work'[q].op = "update" /\ s = work'[q].typed)
    BY <1>4, <2>2, KeptOwned
  <2>. QED  BY <2>1, <2>2 DEF Owns
<1>8. Owned'
  <2>1. /\ \A j \in KeyIds : \A s \in Nat : Owns(j, s)' => s < nextSecret' /\ j < nextKey'
        /\ \A i, j \in KeyIds : \A s \in Nat \ {0} : Owns(i, s)' /\ Owns(j, s)' => i = j
    BY <1>3, <1>7 DEF SecretInv, Owned
  <2>2. \A j \in KeyIds : keys'[j] # None => keys'[j].secret # 0
    BY <1>1, <1>2 DEF SecretInv, Owned
  <2>3. \A q \in Requests : work'[q].at = "write key" => work'[q].read # 0
    BY <1>4 DEF SecretInv, Owned, Keeps
  <2>. QED  BY <2>1, <2>2, <2>3 DEF Owned
<1>9. ReadStands'
  <2>. SUFFICES ASSUME NEW q \in Requests, work'[q].at = "write key",
                       NEW j \in KeyIds, j = work'[q].key, keys'[j] # None
                PROVE  work'[q].lone => work'[q].read = keys'[j].secret
    BY DEF ReadStands
  <2>0. work[q].at = "write key" /\ j = work[q].key /\ work'[q].read = work[q].read /\ (work'[q].lone => work[q].lone)
    BY <1>4 DEF Keeps
  <2>1. CASE j # k
    <3>1. keys'[j] = keys[j]
      BY <1>1, <2>1
    <3>2. work[q].lone => work[q].read = keys[j].secret
      BY <2>0, <3>1 DEF SecretInv, Told, ReadStands
    <3>. QED  BY <2>0, <3>1, <3>2
  <2>2. CASE j = k /\ w.typed = 0 /\ w.lone
    <3>1. keys[k] # None
      BY <1>1, <2>2
    <3>2. keys'[k].secret = keys[k].secret
      BY <1>5, <2>2, <3>1
    <3>3. work[q].lone => work[q].read = keys[k].secret
      BY <2>0, <2>2, <3>1 DEF SecretInv, Told, ReadStands
    <3>. QED  BY <2>0, <2>2, <3>2, <3>3
  <2>3. CASE j = k /\ ~(w.typed = 0 /\ w.lone)
    <3>1. work' = Overlapped(r, k)
      BY <1>3, <2>3
    <3>2. ~work'[q].lone
      BY <2>3, <3>1, Overlapping
    <3>. QED  BY <3>2
  <2>. QED  BY <2>1, <2>2, <2>3
<1>10. AsShown'
  <2>. SUFFICES ASSUME NEW j \in KeyIds, j \notin raced', keys'[j] # None
                PROVE  /\ keys'[j].secret = shown'[j]
                       /\ keys'[j].previous = replaced'[j].secret /\ keys'[j].until = replaced'[j].until
    BY DEF AsShown
  <2>1. CASE j # k
    <3>1. keys'[j] = keys[j] /\ shown'[j] = shown[j] /\ j \notin raced /\ replaced' = replaced
      BY <1>1, <1>3, <2>1 DEF RingType
    <3>. QED  BY <3>1 DEF SecretInv, Told, AsShown
  <2>2. CASE j = k
    <3>1. keys[k] # None /\ k \notin raced /\ ~(w.typed = 0 /\ ~w.lone) /\ replaced' = replaced
      BY <1>1, <1>3, <2>2
    <3>2. /\ keys[k].secret = shown[k]
          /\ keys[k].previous = replaced[k].secret /\ keys[k].until = replaced[k].until
      BY <3>1 DEF SecretInv, Told, AsShown
    <3>3. keys'[k].secret = shown'[k]
      BY <1>1, <1>3, <1>5, <3>1, <3>2 DEF RingType
    <3>. QED  BY <1>1, <2>2, <3>1, <3>2, <3>3
  <2>. QED  BY <2>1, <2>2
<1>11. NoneReplaced'
  BY <1>3 DEF SecretInv, Told, NoneReplaced
<1>. QED  BY <1>8, <1>9, <1>10, <1>11 DEF SecretInv, Told

\* A rotation writes the next secret, and what it has read as the previous one.
LEMMA RotateOwned ==
  ASSUME GateType, RingType, RingType', WorkType, SecretInv, NEW r \in Requests, RotateAPIKey(r)
  PROVE  SecretInv'
<1>1. PICK w \in RotateWork, k \in KeyIds :
           /\ w = work[r] /\ k = w.key
           /\ keys' \in [KeyIds -> {None} \union Key] /\ replaced' \in [KeyIds -> [secret : Nat, until : Nat]]
           /\ \A j \in KeyIds : j # k => keys'[j] = keys[j] /\ replaced'[j] = replaced[j]
           /\ keys[k] = None => keys'[k] = None /\ replaced'[k] = replaced[k]
           /\ keys[k] # None =>
                /\ keys'[k] \in Key /\ keys'[k].secret = nextSecret /\ keys'[k].previous = w.read
                /\ keys'[k].until = now + Grace
                /\ replaced'[k].secret = keys[k].secret /\ replaced'[k].until = now + Grace
  BY Rotated DEF SecretInv
<1>2. w.at = "write key" /\ w.op = "rotate" /\ w.read \in Nat /\ w.lone \in BOOLEAN /\ w.read # 0
  BY <1>1 DEF RotateWork, SecretInv, Owned
<1>3. /\ shown' = [shown EXCEPT ![k] = nextSecret] /\ nextSecret' = nextSecret + 1 /\ nextKey' = nextKey
      /\ raced' = IF w.lone THEN raced \ {k} ELSE raced \union {k}
      /\ work' = Overlapped(r, k)
  BY <1>1 DEF RotateAPIKey
<1>4. \A q \in Requests : Keeps(q) /\ (work'[q].at = "write key" /\ work'[q].lone => q # r /\ work'[q].key # k)
  BY <1>3, Overlapping
<1>5. Owns(k, w.read) /\ k < nextKey
  <2>1. Owns(k, w.read)
    BY <1>1, <1>2 DEF Owns
  <2>. QED  BY <1>2, <2>1 DEF SecretInv, Owned
<1>6. nextSecret <= nextSecret' /\ nextSecret < nextSecret' /\ nextKey <= nextKey' /\ nextSecret # 0
  <2>1. nextSecret # 0
    BY DEF RingType
  <2>. QED  BY <1>3, <2>1, NextGrows
<1>7. \A j \in KeyIds : \A s \in Nat : Owns(j, s)' => Owns(j, s) \/ (j = k /\ s = nextSecret)
  <2>. SUFFICES ASSUME NEW j \in KeyIds, NEW s \in Nat, Owns(j, s)'
                PROVE  Owns(j, s) \/ (j = k /\ s = nextSecret)
    OBVIOUS
  <2>1. CASE keys'[j] # None /\ s \in {keys'[j].secret, keys'[j].previous}
    <3>1. CASE j # k
      BY <1>1, <2>1, <3>1 DEF Owns
    <3>2. CASE j = k
      <4>1. s \in {w.read, nextSecret}
        BY <1>1, <2>1, <3>2
      <4>. QED  BY <1>5, <3>2, <4>1
    <3>. QED  BY <3>1, <3>2
  <2>2. CASE \E q \in Requests : /\ work'[q].at = "write key" /\ work'[q].key = j
                                 /\ s = work'[q].read \/ (work'[q].op = "update" /\ s = work'[q].typed)
    BY <1>4, <2>2, KeptOwned
  <2>. QED  BY <2>1, <2>2 DEF Owns
<1>8. Owned'
  <2>1. /\ \A j \in KeyIds : \A s \in Nat : Owns(j, s)' => s < nextSecret' /\ j < nextKey'
        /\ \A i, j \in KeyIds : \A s \in Nat \ {0} : Owns(i, s)' /\ Owns(j, s)' => i = j
    <3>1. \A j \in KeyIds : \A s \in Nat :
            Owns(j, s)' => Owns(j, s) \/ (j = k /\ k < nextKey' /\ (s = 0 \/ (s = nextSecret /\ s < nextSecret')))
      BY <1>3, <1>5, <1>6, <1>7
    <3>. QED  BY <1>6, <3>1, OwnedStep DEF SecretInv
  <2>2. \A j \in KeyIds : keys'[j] # None => keys'[j].secret # 0
    BY <1>1, <1>6 DEF SecretInv, Owned
  <2>3. \A q \in Requests : work'[q].at = "write key" => work'[q].read # 0
    BY <1>4 DEF SecretInv, Owned, Keeps
  <2>. QED  BY <2>1, <2>2, <2>3 DEF Owned
<1>9. ReadStands'
  <2>. SUFFICES ASSUME NEW q \in Requests, work'[q].at = "write key",
                       NEW j \in KeyIds, j = work'[q].key, keys'[j] # None
                PROVE  work'[q].lone => work'[q].read = keys'[j].secret
    BY DEF ReadStands
  <2>0. work[q].at = "write key" /\ j = work[q].key /\ work'[q].read = work[q].read /\ (work'[q].lone => work[q].lone)
    BY <1>4 DEF Keeps
  <2>1. CASE j # k
    <3>1. keys'[j] = keys[j]
      BY <1>1, <2>1
    <3>2. work[q].lone => work[q].read = keys[j].secret
      BY <2>0, <3>1 DEF SecretInv, Told, ReadStands
    <3>. QED  BY <2>0, <3>1, <3>2
  <2>2. CASE j = k
    <3>1. ~work'[q].lone
      BY <1>4, <2>2
    <3>. QED  BY <3>1
  <2>. QED  BY <2>1, <2>2
<1>10. AsShown'
  <2>. SUFFICES ASSUME NEW j \in KeyIds, j \notin raced', keys'[j] # None
                PROVE  /\ keys'[j].secret = shown'[j]
                       /\ keys'[j].previous = replaced'[j].secret /\ keys'[j].until = replaced'[j].until
    BY DEF AsShown
  <2>1. CASE j # k
    <3>1. keys'[j] = keys[j] /\ shown'[j] = shown[j] /\ j \notin raced /\ replaced'[j] = replaced[j]
      BY <1>1, <1>3, <2>1 DEF RingType
    <3>. QED  BY <3>1 DEF SecretInv, Told, AsShown
  <2>2. CASE j = k
    <3>1. keys[k] # None /\ w.lone
      BY <1>1, <1>3, <2>2
    <3>2. w.read = keys[k].secret
      BY <1>1, <1>2, <3>1 DEF SecretInv, Told, ReadStands
    <3>3. shown'[k] = nextSecret
      BY <1>3 DEF RingType
    <3>. QED  BY <1>1, <2>2, <3>1, <3>2, <3>3
  <2>. QED  BY <2>1, <2>2
<1>11. NoneReplaced'
  <2>1. \A j \in KeyIds : j >= nextKey' => j # k
    <3>1. \A j \in KeyIds : j >= nextKey => ~(j < nextKey)
      <4>1. KeyIds \subseteq Int /\ nextKey \in Int
        BY DEF KeyIds, RingType
      <4>. QED  BY <4>1
    <3>. QED  BY <1>3, <1>5, <3>1
  <2>. QED  BY <1>1, <1>3, <2>1 DEF SecretInv, Told, NoneReplaced
<1>. QED  BY <1>8, <1>9, <1>10, <1>11 DEF SecretInv, Told

\* A key that goes takes its secrets with it.
LEMMA DeleteOwned ==
  ASSUME RingType, WorkType, SecretInv, NEW r \in Requests, NEW k \in KeyIds, APIKeysDelete(r, k)
  PROVE  SecretInv'
<1>1. /\ \A j \in KeyIds : keys'[j] = IF j = k THEN None ELSE keys[j]
      /\ UNCHANGED <<shown, replaced, raced, nextKey, nextSecret, work>>
  BY DEF APIKeysDelete, RingType
<1>2. \A j \in KeyIds : keys'[j] # None => keys'[j] = keys[j]
  BY <1>1
<1>3. \A j \in KeyIds : \A s \in Nat : Owns(j, s)' => Owns(j, s)
  BY <1>1, <1>2 DEF Owns
<1>4. Owned'
  BY <1>1, <1>2, <1>3 DEF SecretInv, Owned
<1>5. ReadStands'
  <2>. SUFFICES ASSUME NEW q \in Requests, work'[q].at = "write key",
                       NEW j \in KeyIds, j = work'[q].key, keys'[j] # None
                PROVE  work'[q].lone => work'[q].read = keys'[j].secret
    BY DEF ReadStands
  <2>1. keys'[j] = keys[j] /\ work' = work
    BY <1>1, <1>2
  <2>2. work[q].lone => work[q].read = keys[j].secret
    BY <2>1 DEF SecretInv, Told, ReadStands
  <2>. QED  BY <2>1, <2>2
<1>6. AsShown' /\ NoneReplaced'
  BY <1>1, <1>2 DEF SecretInv, Told, AsShown, NoneReplaced
<1>. QED  BY <1>4, <1>5, <1>6 DEF SecretInv, Told

\* Every step keeps what is said of the secrets.
LEMMA SecretInvKept ==
  ASSUME GateType, RingType, RingType', WorkType, SecretInv, [ANext]_avars
  PROVE  SecretInv'
<1>1. ASSUME NEW p \in Procs, NEW w, work' = [work EXCEPT ![p] = w], w.at # "write key", UNCHANGED ring
      PROVE  SecretInv'
  <2>1. \A q \in Requests : work'[q].at = "write key" => work'[q] = work[q]
    BY <1>1, ProcFacts DEF WorkType
  <2>. QED  BY <1>1, <2>1, ElsewhereOwned DEF ring
<1>2. ASSUME NEW r \in Requests, Admin(r)
      PROVE  SecretInv'
  <2>1. ASSUME NEW range \in Ranges, NEW x \in {now + 1, Never}, IPBlocksCreate(r, range, x)
        PROVE  SecretInv'
    <3>. DEFINE b == [id |-> nextBlock, range |-> range, expires |-> x]
                w == Reloading("create", b)
    <3>1. w.at = "list"
      BY DEF Reloading
    <3>2. work' = [work EXCEPT ![r] = w] /\ UNCHANGED ring
      BY <2>1 DEF IPBlocksCreate
    <3>. HIDE DEF w
    <3>. QED  BY <1>1, <3>1, <3>2, ProcFacts
  <2>2. ASSUME NEW b \in blocks, IPBlocksDelete(r, b)
        PROVE  SecretInv'
    <3>. DEFINE w == [at |-> "delete block", row |-> b]
    <3>1. w.at = "delete block" /\ work' = [work EXCEPT ![r] = w] /\ UNCHANGED ring
      BY <2>2 DEF IPBlocksDelete
    <3>. HIDE DEF w
    <3>. QED  BY <1>1, <3>1, ProcFacts
  <2>3. CASE DeleteIPBlock(r)
    <3>. DEFINE w == Reloading("delete", work[r].row)
    <3>1. w.at = "list" /\ work' = [work EXCEPT ![r] = w] /\ UNCHANGED ring
      BY <2>3 DEF DeleteIPBlock, Reloading
    <3>. HIDE DEF w
    <3>. QED  BY <1>1, <3>1, ProcFacts
  <2>4. CASE CloseFor(r)
    BY <1>1, <2>4, WorkKinds, ProcFacts DEF CloseFor
  <2>5. ASSUME NEW k \in KeyIds, NEW t \in 0..nextSecret, NEW d \in BOOLEAN, NEW scope \in Scopes,
               APIKeysUpdate(r, k, t, d, scope)
        PROVE  SecretInv'
    <3>. DEFINE w == [at |-> "write key", op |-> "update", key |-> k, read |-> keys[k].secret,
                      typed |-> t, disabled |-> d, scope |-> scope, lone |-> TRUE]
    <3>1. /\ w.at = "write key" /\ w.op = "update" /\ w.key = k /\ w.read = keys[k].secret /\ w.typed = t
          /\ work' = [work EXCEPT ![r] = w]
      BY <2>5 DEF APIKeysUpdate
    <3>2. /\ keys[k] # None /\ t \in {0, nextSecret, keys[k].previous}
          /\ t = nextSecret => nextSecret' = nextSecret + 1
          /\ nextSecret' \in {nextSecret, nextSecret + 1} /\ UNCHANGED <<keys, shown, replaced, raced, nextKey>>
      BY <2>5 DEF APIKeysUpdate, GetAPIKey
    <3>. HIDE DEF w
    <3>3. w.op = "update" => /\ w.typed \in {0, nextSecret, keys[k].previous}
                             /\ w.typed = nextSecret => nextSecret' = nextSecret + 1
      BY <3>1, <3>2
    <3>. QED  BY <3>1, <3>2, <3>3, TakeOwned
  <2>6. ASSUME NEW k \in KeyIds, APIKeysRotate(r, k)
        PROVE  SecretInv'
    <3>. DEFINE w == [at |-> "write key", op |-> "rotate", key |-> k, read |-> keys[k].secret, lone |-> TRUE]
    <3>1. /\ w.at = "write key" /\ w.op = "rotate" /\ w.key = k /\ w.read = keys[k].secret
          /\ work' = [work EXCEPT ![r] = w]
      BY <2>6 DEF APIKeysRotate
    <3>2. keys[k] # None /\ UNCHANGED <<keys, shown, replaced, raced, nextKey, nextSecret>>
      BY <2>6 DEF APIKeysRotate, GetAPIKey, ring
    <3>. HIDE DEF w
    <3>3. ~(w.op = "update") /\ nextSecret' \in {nextSecret, nextSecret + 1}
      BY <3>1, <3>2
    <3>. QED  BY <3>1, <3>2, <3>3, TakeOwned
  <2>. QED
    BY <1>2, <2>1, <2>2, <2>3, <2>4, <2>5, <2>6, CreateOwned, UpdateOwned, RotateOwned, DeleteOwned DEF Admin
<1>3. CASE Sweep
  <2>. DEFINE w == Reloading("sweep", None)
  <2>1. w.at = "list" /\ work' = [work EXCEPT ![Sweeper] = w] /\ UNCHANGED ring
    BY <1>3 DEF Sweep, Reloading
  <2>. HIDE DEF w
  <2>. QED  BY <1>1, <2>1, ProcFacts
<1>4. ASSUME NEW p \in Procs, ReadList(p)
      PROVE  SecretInv'
  <2>1. \A q \in Requests : work[q].at \in {"list", "store"} => work[q] \in ReloadWork
    BY WorkOf
  <2>2. \A x \in ReloadWork : \A R, b :
          /\ [x EXCEPT !.at = "store", !.rows = R, !.lone = b].at = "store"
          /\ [x EXCEPT !.lone = FALSE].at = x.at
    BY DEF ReloadWork
  <2>3. \A q \in Requests : work'[q].at = "write key" => work'[q] = work[q]
    BY <1>4, <2>1, <2>2, ProcFacts DEF ReadList, Storing
  <2>. QED  BY <1>4, <2>3, ElsewhereOwned DEF ReadList, ring
<1>5. ASSUME NEW p \in Procs, StoreList(p)
      PROVE  SecretInv'
  <2>1. AfterReload(p).at # "write key"
    BY WorkKinds DEF AfterReload
  <2>. QED  BY <1>1, <1>5, <2>1 DEF StoreList
<1>6. ASSUME NEW p \in Procs, Reload(p)
      PROVE  SecretInv'
  BY <1>1, <1>6, WorkKinds DEF Reload
<1>7. ASSUME NEW u \in Uploads, Upload(u)
      PROVE  SecretInv'
  BY <1>7, ElsewhereOwned DEF Upload, APIKeyAuth, GetAPIKeyByKey, GetAPIKeyByPreviousKey, PostCallUpload
<1>8. CASE Tick \/ UNCHANGED avars \/ \E c \in Connections : Register(c) \/ \E a \in Addresses : IPBlock(c, a)
  BY <1>8, ElsewhereOwned DEF Tick, avars, ring, Register, IPBlock
<1>9. CASE Restart
  <2>1. \A q \in Requests : work'[q].at = "idle"
    BY <1>9, WorkKinds, ProcFacts DEF Restart
  <2>. QED  BY <1>9, <2>1, ElsewhereOwned DEF Restart
<1>. QED  BY <1>2, <1>3, <1>4, <1>5, <1>6, <1>7, <1>8, <1>9 DEF ANext, Reloads

\* A secret finds the one key whose it is.
LEMMA OneKey ==
  ASSUME RingType, SecretInv, NEW s \in Nat \ {0}, NEW k \in ByKey(keys, s) \union ByPrevious(keys, now, s)
  PROVE  k \in KeyIds /\ keys[k] \in Key /\ Find(keys, now, s) = {k}
<1>1. k \in KeyIds /\ keys[k] # None /\ s \in {keys[k].secret, keys[k].previous}
  BY DEF ByKey, ByPrevious
<1>2. keys[k] \in Key
  BY <1>1 DEF RingType
<1>3. \A j \in ByKey(keys, s) \union ByPrevious(keys, now, s) : j = k
  <2>1. Owns(k, s)
    BY <1>1 DEF Owns
  <2>2. \A j \in ByKey(keys, s) \union ByPrevious(keys, now, s) : j \in KeyIds /\ Owns(j, s)
    BY DEF ByKey, ByPrevious, Owns
  <2>. QED  BY <1>1, <2>1, <2>2 DEF SecretInv, Owned
<1>. QED  BY <1>1, <1>2, <1>3 DEF Find

\* Only a rotation touches what was replaced.
LEMMA RetiredTooKept ==
  ASSUME RingType, RetiredToo, [ANext]_avars
  PROVE  RetiredToo'
<1>1. ASSUME UNCHANGED <<replaced, retired>>
      PROVE  RetiredToo'
  BY <1>1 DEF RetiredToo
<1>2. ASSUME NEW r \in Requests, RotateAPIKey(r)
      PROVE  RetiredToo'
  <2>1. PICK k, t : /\ replaced' = replaced \/ replaced' = [replaced EXCEPT ![k] = t]
                    /\ retired' = [retired EXCEPT ![k] = @ \union {replaced'[k]}]
    BY <1>2 DEF RotateAPIKey
  <2>2. replaced \in [KeyIds -> [secret : Nat, until : Nat]]
    BY DEF RingType
  <2>. QED  BY <2>1, <2>2 DEF RetiredToo
<1>3. ASSUME NEW r \in Requests, Admin(r)
      PROVE  RetiredToo'
  <2>1. CASE RotateAPIKey(r)
    BY <1>2, <2>1
  <2>2. CASE ~RotateAPIKey(r)
    BY <1>1, <1>3, <2>2 DEF Admin, IPBlocksCreate, IPBlocksDelete, DeleteIPBlock, CloseFor, APIKeysCreate,
       APIKeysUpdate, APIKeysRotate, APIKeysDelete, UpdateAPIKey, ring
  <2>. QED  BY <2>1, <2>2
<1>4. ASSUME NEW u \in Uploads, Upload(u)
      PROVE  RetiredToo'
  BY <1>1, <1>4 DEF Upload, APIKeyAuth, GetAPIKeyByKey, GetAPIKeyByPreviousKey, PostCallUpload
<1>5. ASSUME NEW p \in Procs, Reloads(p)
      PROVE  RetiredToo'
  BY <1>1, <1>5 DEF Reloads, ReadList, StoreList, Reload, ring
<1>6. CASE Sweep \/ Tick \/ Restart \/ UNCHANGED avars
  BY <1>1, <1>6 DEF Sweep, Tick, Restart, avars, ring
<1>7. ASSUME NEW c \in Connections, Register(c) \/ \E a \in Addresses : IPBlock(c, a)
      PROVE  RetiredToo'
  BY <1>1, <1>7 DEF Register, IPBlock, ring
<1>. QED  BY <1>3, <1>4, <1>5, <1>6, <1>7 DEF ANext

\* What is kept of the secrets is more than SecretsKeepTheirWord.
LEMMA SecretInvHolds ==
  ASSUME RingType, SecretInv, RetiredToo
  PROVE  SecretsKeepTheirWord
<1>. SUFFICES ASSUME NEW k \in KeyIds, keys[k] # None, k \notin raced, NEW s \in 1..(nextSecret - 1)
              PROVE  (k \in Find(keys, now, s)) <=> (s = shown[k] \/ (s = replaced[k].secret /\ now < replaced[k].until))
  BY DEF SecretsKeepTheirWord, RetiredToo, RingType
<1>1. keys[k].secret = shown[k] /\ keys[k].previous = replaced[k].secret /\ keys[k].until = replaced[k].until
  BY DEF SecretInv, Told, AsShown
<1>2. s \in Nat \ {0}
  BY DEF RingType
<1>3. CASE k \in ByKey(keys, s) \union ByPrevious(keys, now, s)
  <2>1. k \in Find(keys, now, s)
    BY <1>2, <1>3, OneKey
  <2>. QED  BY <1>1, <1>3, <2>1 DEF ByKey, ByPrevious
<1>4. CASE k \notin ByKey(keys, s) \union ByPrevious(keys, now, s)
  BY <1>1, <1>4 DEF Find, ByKey, ByPrevious
<1>. QED  BY <1>3, <1>4

-----------------------------------------------------------------------------
(* Uploads.                                                                *)

\* No secret comes before itself.
LEMMA NextIsNew == RingType => ~(nextSecret < nextSecret)
<1>. SUFFICES ASSUME RingType PROVE ~(nextSecret < nextSecret)
  OBVIOUS
<1>1. nextSecret \in Nat
  BY DEF RingType
<1>. QED  BY <1>1

\* An upload that waits keeps what it remembers as rows come, are written and
\* go.
LEMMA WatchRemembers ==
  ASSUME RingType, RingType', UploadType, SecretInv, SecretInv', Remembered,
         uploads' = Watch(keys', now'),
         now' # now => keys' = keys /\ \A u \in Uploads : uploads[u].at # "by previous",
         \A k \in KeyIds : keys'[k] # None =>
           \/ keys'[k].secret = nextSecret
           \/ /\ keys[k] # None /\ keys'[k].previous = keys[k].previous /\ keys'[k].until = keys[k].until
              /\ \A s : s = keys'[k].secret => Owns(k, s)
  PROVE  Remembered'
<1>0. \A k \in KeyIds : \A s \in Nat : Owns(k, s) => s # nextSecret
  <2>1. \A k \in KeyIds : \A s \in Nat : Owns(k, s) => s < nextSecret
    BY DEF SecretInv, Owned
  <2>. QED  BY <2>1, NextIsNew
<1>1. /\ \A u \in Uploads : uploads[u].at \notin Waiting => uploads'[u] = uploads[u]
      /\ \A u \in Uploads : uploads[u].at \in Waiting =>
              /\ uploads[u] \in Uploading /\ uploads'[u].at = uploads[u].at
              /\ uploads'[u].secret = uploads[u].secret /\ uploads'[u].system = uploads[u].system
              /\ uploads'[u].scope = uploads[u].scope
              /\ (uploads'[u].ever <=> uploads[u].ever \/ Good(keys', now', uploads[u]))
              /\ (uploads'[u].always <=> uploads[u].always /\ Good(keys', now', uploads[u]))
  BY Watching
<1>2. UploadsAreAnsweredRight'
  BY <1>1 DEF Remembered, UploadsAreAnsweredRight, Waiting
<1>3. ASSUME NEW u \in Uploads
      PROVE  Remembers(uploads[u])'
  <2>1. CASE uploads[u].at \notin Waiting
    <3>1. uploads'[u].at \notin Waiting
      BY <1>1, <2>1
    <3>. QED  BY <3>1 DEF Remembers, Waiting
  <2>2. CASE uploads[u].at \in Waiting
    <3>. DEFINE good == Good(keys', now', uploads[u])
    <3>0. /\ uploads[u] \in Uploading /\ uploads'[u].at = uploads[u].at
          /\ uploads'[u].secret = uploads[u].secret /\ uploads'[u].system = uploads[u].system
          /\ uploads'[u].scope = uploads[u].scope
          /\ (uploads'[u].ever <=> uploads[u].ever \/ good)
          /\ (uploads'[u].always <=> uploads[u].always /\ good)
      BY <1>1, <2>2
    <3>1. good <=> Good(keys, now, uploads[u])'
      BY <3>0 DEF Good
    <3>. HIDE DEF good
    <3>2. /\ uploads'[u].always => Good(keys, now, uploads[u])'
          /\ Good(keys, now, uploads[u])' => uploads'[u].ever
      BY <3>0, <3>1
    <3>3. uploads'[u].at = "by previous" /\ uploads'[u].always => ByPrevious(keys, now, uploads[u].secret)' # {}
      <4>. SUFFICES ASSUME uploads'[u].at = "by previous", uploads'[u].always
                    PROVE  ByPrevious(keys, now, uploads[u].secret)' # {}
        OBVIOUS
      <4>. PICK s \in Nat \ {0} : s = uploads[u].secret
        BY <3>0 DEF Uploading
      <4>1. uploads[u].at = "by previous" /\ now' = now
        BY <3>0
      <4>2. uploads[u].always
        BY <3>0
      <4>3. PICK k \in KeyIds : keys[k] # None /\ keys[k].previous = s /\ now < keys[k].until
        BY <4>1, <4>2 DEF Remembered, Remembers, ByPrevious
      <4>4. Find(keys', now', s) # {}
        BY <3>2, <3>0 DEF Good
      <4>5. CASE ByPrevious(keys', now', s) # {}
        BY <3>0, <4>5
      <4>6. CASE ByPrevious(keys', now', s) = {}
        <5>1. PICK j \in KeyIds : keys'[j] # None /\ keys'[j].secret = s
          BY <4>4, <4>6 DEF Find, ByKey
        <5>2. Owns(k, s)
          BY <4>3 DEF Owns
        <5>3. /\ keys[j] # None /\ keys'[j].previous = keys[j].previous /\ keys'[j].until = keys[j].until
              /\ Owns(j, s)
          BY <1>0, <5>1, <5>2
        <5>4. j = k
          BY <5>2, <5>3 DEF SecretInv, Owned
        <5>5. k \in ByPrevious(keys', now', s)
          BY <4>1, <4>3, <5>1, <5>3, <5>4 DEF ByPrevious
        <5>. QED  BY <4>6, <5>5
      <4>. QED  BY <4>5, <4>6
    <3>4. uploads'[u].at = "known" =>
            /\ apiKeyMayUpload(uploads'[u].scope, uploads'[u].system) => uploads'[u].ever
            /\ uploads'[u].always => apiKeyMayUpload(uploads'[u].scope, uploads'[u].system)
      BY <3>0 DEF Remembered, Remembers
    <3>. QED  BY <3>2, <3>3, <3>4 DEF Remembers
  <2>. QED  BY <2>1, <2>2
<1>. QED  BY <1>2, <1>3 DEF Remembered

\* An upload comes, finds its key or not, and is answered.
LEMMA UploadRemembers ==
  ASSUME GateType, RingType, UploadType, SecretInv, Remembered, NEW u \in Uploads, Upload(u)
  PROVE  Remembered' /\ UploadType'
<1>1. UNCHANGED <<now, keys>>
  BY DEF Upload, APIKeyAuth, GetAPIKeyByKey, GetAPIKeyByPreviousKey, PostCallUpload
<1>2. ASSUME NEW x \in Uploading, uploads' = [uploads EXCEPT ![u] = x], Remembers(x),
             x.at = "accepted" => x.ever, x.at = "refused" => ~x.always
      PROVE  Remembered' /\ UploadType'
  <2>1. uploads'[u] = x /\ \A v \in Uploads : v # u => uploads'[v] = uploads[v]
    BY <1>2 DEF UploadType
  <2>2. UploadsAreAnsweredRight'
    BY <1>2, <2>1 DEF Remembered, UploadsAreAnsweredRight
  <2>3. \A z : Remembers(z)' <=> Remembers(z)
    BY <1>1 DEF Remembers, Good, Find, ByKey, ByPrevious
  <2>4. ASSUME NEW v \in Uploads
        PROVE  Remembers(uploads[v])'
    <3>1. PICK z : z = uploads'[v]
      OBVIOUS
    <3>2. Remembers(z)
      BY <1>2, <2>1, <3>1 DEF Remembered
    <3>. QED  BY <2>3, <3>1, <3>2
  <2>5. UploadType'
    BY <1>2 DEF UploadType
  <2>. QED  BY <2>2, <2>4, <2>5 DEF Remembered
<1>3. ASSUME uploads[u].at \in Waiting
      PROVE  uploads[u] \in Uploading /\ Remembers(uploads[u])
  <2>1. [at |-> "away"].at = "away"
    OBVIOUS
  <2>. QED  BY <1>3, <2>1 DEF UploadType, Waiting, Remembered
<1>4. ASSUME NEW a \in Addresses, NEW s \in 1..(nextSecret - 1), NEW y \in Systems \union {Unknown}, APIKeyAuth(u, a, s, y)
      PROVE  Remembered' /\ UploadType'
  <2>. DEFINE new == [at |-> "by key", secret |-> s, system |-> y, scope |-> {}, ever |-> FALSE, always |-> TRUE]
  <2>1. PICK g \in BOOLEAN : g = Good(keys, now, new)
    BY DEF Good
  <2>2. PICK x : x = [new EXCEPT !.ever = g, !.always = g]
    OBVIOUS
  <2>3. uploads' = [uploads EXCEPT ![u] = x]
    BY <1>4, <2>1, <2>2 DEF APIKeyAuth
  <2>4. s \in Nat \ {0}
    BY DEF RingType
  <2>5. x \in Uploading /\ x.at = "by key" /\ x.ever = g /\ x.always = g
    BY <2>2, <2>4 DEF Uploading, Waiting
  <2>6. Good(keys, now, x) <=> g
    <3>1. x.secret = new.secret /\ x.system = new.system
      BY <2>2
    <3>. QED  BY <2>1, <3>1 DEF Good
  <2>7. Remembers(x)
    BY <2>5, <2>6 DEF Remembers
  <2>. QED  BY <1>2, <2>3, <2>5, <2>7
\* The key it finds is the one that makes it good.
<1>5. ASSUME uploads[u].at \in {"by key", "by previous"}, NEW k \in ByKey(keys, uploads[u].secret) \union ByPrevious(keys, now, uploads[u].secret),
             uploads' = [uploads EXCEPT ![u] = Known(u, k)]
      PROVE  Remembered' /\ UploadType'
  <2>0. PICK z \in Uploading : z = uploads[u]
    BY <1>3, <1>5 DEF Waiting
  <2>1. z.secret \in Nat \ {0} /\ z.ever \in BOOLEAN /\ z.always \in BOOLEAN /\ z.at \in Waiting
    BY <1>5, <2>0 DEF Uploading, Waiting
  <2>2. k \in KeyIds /\ keys[k] \in Key /\ Find(keys, now, z.secret) = {k}
    BY <1>5, <2>0, <2>1, OneKey
  <2>3. PICK d \in BOOLEAN : d = keys[k].disabled
    BY <2>2 DEF Key
  <2>4. PICK y \in SUBSET Systems : y = keys[k].scope
    BY <2>2 DEF Key
  <2>5. Good(keys, now, z) <=> ~d /\ apiKeyMayUpload(y, z.system)
    BY <2>2, <2>3, <2>4 DEF Good
  <2>6. (z.always => Good(keys, now, z)) /\ (Good(keys, now, z) => z.ever)
    BY <1>3, <2>0, <2>1 DEF Remembers
  <2>7. CASE d
    <3>1. PICK x : x = [z EXCEPT !.at = "refused"]
      OBVIOUS
    <3>2. x \in Uploading /\ x.at = "refused" /\ x.always = z.always
      BY <3>1 DEF Uploading, Waiting
    <3>3. uploads' = [uploads EXCEPT ![u] = x]
      BY <1>5, <2>0, <2>3, <2>7, <3>1 DEF Known
    <3>4. Remembers(x)
      BY <3>2 DEF Remembers, Waiting
    <3>. QED  BY <1>2, <2>5, <2>6, <2>7, <3>2, <3>3, <3>4
  <2>8. CASE ~d
    <3>1. PICK x : x = [z EXCEPT !.at = "known", !.scope = y]
      OBVIOUS
    <3>2. x \in Uploading /\ x.at = "known" /\ x.always = z.always /\ x.ever = z.ever /\ x.scope = y
          /\ x.system = z.system /\ x.secret = z.secret
      BY <3>1 DEF Uploading, Waiting
    <3>3. uploads' = [uploads EXCEPT ![u] = x]
      BY <1>5, <2>0, <2>3, <2>4, <2>8, <3>1 DEF Known
    <3>4. Good(keys, now, x) <=> Good(keys, now, z)
      BY <3>2 DEF Good
    <3>5. Remembers(x)
      BY <2>5, <2>6, <2>8, <3>2, <3>4 DEF Remembers
    <3>. QED  BY <1>2, <3>2, <3>3, <3>5
  <2>. QED  BY <2>7, <2>8
<1>7. ASSUME GetAPIKeyByKey(u)
      PROVE  Remembered' /\ UploadType'
  <2>. DEFINE found == ByKey(keys, uploads[u].secret)
  <2>1. CASE found # {}
    <3>1. PICK k \in found : k = CHOOSE j \in found : TRUE
      BY <2>1
    <3>. QED  BY <1>5, <1>7, <2>1, <3>1 DEF GetAPIKeyByKey
  <2>2. CASE found = {}
    <3>1. PICK x : x = [uploads[u] EXCEPT !.at = "by previous"]
      OBVIOUS
    <3>2. uploads' = [uploads EXCEPT ![u] = x] /\ uploads[u].at = "by key"
      BY <1>7, <2>2, <3>1 DEF GetAPIKeyByKey
    <3>3. /\ x \in Uploading /\ x.secret = uploads[u].secret /\ x.system = uploads[u].system
          /\ x.ever = uploads[u].ever /\ x.always = uploads[u].always /\ x.at = "by previous"
      BY <1>3, <3>1, <3>2 DEF Uploading, Waiting
    <3>4. Good(keys, now, x) <=> Good(keys, now, uploads[u])
      BY <3>3 DEF Good
    <3>5. (uploads[u].always => Good(keys, now, uploads[u])) /\ (Good(keys, now, uploads[u]) => uploads[u].ever)
      BY <1>3, <3>2 DEF Remembers, Waiting
    <3>6. Good(keys, now, x) => ByPrevious(keys, now, x.secret) # {}
      BY <2>2, <3>3 DEF Good, Find
    <3>7. Remembers(x)
      BY <3>3, <3>4, <3>5, <3>6 DEF Remembers
    <3>. QED  BY <1>2, <3>2, <3>3, <3>7
  <2>. QED  BY <2>1, <2>2
<1>8. ASSUME GetAPIKeyByPreviousKey(u)
      PROVE  Remembered' /\ UploadType'
  <2>. DEFINE found == ByPrevious(keys, now, uploads[u].secret)
  <2>1. CASE found # {}
    <3>1. PICK k \in found : k = CHOOSE j \in found : TRUE
      BY <2>1
    <3>. QED  BY <1>5, <1>8, <2>1, <3>1 DEF GetAPIKeyByPreviousKey
  <2>2. CASE found = {}
    <3>1. PICK x : x = [uploads[u] EXCEPT !.at = "refused"]
      OBVIOUS
    <3>2. uploads' = [uploads EXCEPT ![u] = x] /\ uploads[u].at = "by previous"
      BY <1>8, <2>2, <3>1 DEF GetAPIKeyByPreviousKey
    <3>3. x \in Uploading /\ x.always = uploads[u].always /\ x.at = "refused"
      BY <1>3, <3>1, <3>2 DEF Uploading, Waiting
    <3>4. ~uploads[u].always
      BY <1>3, <2>2, <3>2 DEF Remembers, Waiting
    <3>5. Remembers(x)
      BY <3>3 DEF Remembers, Waiting
    <3>. QED  BY <1>2, <3>2, <3>3, <3>4, <3>5
  <2>. QED  BY <2>1, <2>2
<1>9. ASSUME PostCallUpload(u)
      PROVE  Remembered' /\ UploadType'
  <2>. DEFINE may == apiKeyMayUpload(uploads[u].scope, uploads[u].system)
  <2>1. uploads[u].at = "known" /\ uploads' = [uploads EXCEPT ![u].at = IF may THEN "accepted" ELSE "refused"]
    BY <1>9 DEF PostCallUpload
  <2>2. PICK g \in {"accepted", "refused"} : g = IF may THEN "accepted" ELSE "refused"
    OBVIOUS
  <2>3. PICK x : x = [uploads[u] EXCEPT !.at = g]
    OBVIOUS
  <2>4. x \in Uploading /\ x.always = uploads[u].always /\ x.ever = uploads[u].ever /\ x.at = g
    BY <1>3, <2>1, <2>2, <2>3 DEF Uploading, Waiting
  <2>5. uploads' = [uploads EXCEPT ![u] = x]
    BY <2>1, <2>2, <2>3
  <2>6. (may => uploads[u].ever) /\ (uploads[u].always => may)
    BY <1>3, <2>1 DEF Remembers, Waiting
  <2>7. Remembers(x)
    BY <2>2, <2>4 DEF Remembers, Waiting
  <2>. QED  BY <1>2, <2>2, <2>4, <2>5, <2>6, <2>7
<1>. QED  BY <1>4, <1>7, <1>8, <1>9 DEF Upload

\* Every step keeps what uploads remember.
LEMMA RememberedKept ==
  ASSUME GateType, RingType, RingType', WorkType, UploadType, SecretInv, SecretInv', Remembered, [ANext]_avars
  PROVE  Remembered' /\ UploadType'
<1>1. ASSUME UNCHANGED <<now, keys, uploads>>
      PROVE  Remembered' /\ UploadType'
  <2>1. \A z : Remembers(z) => Remembers(z)'
    BY <1>1 DEF Remembers, Good, Find, ByKey, ByPrevious
  <2>2. \A u \in Uploads : Remembers(uploads[u])'
    <3>. SUFFICES ASSUME NEW u \in Uploads PROVE Remembers(uploads[u])'
      OBVIOUS
    <3>1. PICK z : z = uploads[u]
      OBVIOUS
    <3>2. Remembers(z)
      BY <3>1 DEF Remembered
    <3>3. uploads'[u] = z
      BY <1>1, <3>1
    <3>. QED  BY <2>1, <3>2, <3>3
  <2>. QED  BY <1>1, <2>2 DEF Remembered, UploadType, UploadsAreAnsweredRight
<1>2. ASSUME uploads' = Watch(keys', now')
      PROVE  UploadType'
  BY <1>2, Watching
<1>3. ASSUME NEW r \in Requests, UpdateAPIKey(r)
      PROVE  Remembered' /\ UploadType'
  <2>1. uploads' = Watch(keys', now') /\ now' = now
    BY <1>3 DEF UpdateAPIKey
  <2>2. PICK w \in UpdateWork, k \in KeyIds :
           /\ w = work[r] /\ k = w.key
           /\ \A j \in KeyIds : j # k => keys'[j] = keys[j]
           /\ keys[k] = None => keys'[k] = None
           /\ keys[k] # None =>
                /\ keys'[k] \in Key /\ keys'[k].secret = IF w.typed = 0 THEN w.read ELSE w.typed
                /\ keys'[k].previous = keys[k].previous /\ keys'[k].until = keys[k].until
    BY <1>3, Updated DEF SecretInv
  <2>3. Owns(k, w.read) /\ Owns(k, w.typed)
    BY <1>3, <2>2 DEF Owns, UpdateAPIKey
  <2>4. \A j \in KeyIds : keys'[j] # None =>
           /\ keys[j] # None /\ keys'[j].previous = keys[j].previous /\ keys'[j].until = keys[j].until
           /\ \A s : s = keys'[j].secret => Owns(j, s)
    <3>. SUFFICES ASSUME NEW j \in KeyIds, keys'[j] # None
                  PROVE  /\ keys[j] # None /\ keys'[j].previous = keys[j].previous /\ keys'[j].until = keys[j].until
                         /\ \A s : s = keys'[j].secret => Owns(j, s)
      OBVIOUS
    <3>1. CASE j = k
      BY <2>2, <2>3, <3>1
    <3>2. CASE j # k
      BY <2>2, <3>2 DEF Owns
    <3>. QED  BY <3>1, <3>2
  <2>. QED  BY <1>2, <2>1, <2>4, WatchRemembers
<1>4. ASSUME NEW r \in Requests, RotateAPIKey(r)
      PROVE  Remembered' /\ UploadType'
  <2>1. uploads' = Watch(keys', now') /\ now' = now
    BY <1>4 DEF RotateAPIKey
  <2>2. PICK k \in KeyIds : /\ \A j \in KeyIds : j # k => keys'[j] = keys[j]
                            /\ keys[k] = None => keys'[k] = None
                            /\ keys[k] # None => keys'[k].secret = nextSecret
    BY <1>4, Rotated DEF SecretInv
  <2>3. \A j \in KeyIds : keys'[j] # None =>
           \/ keys'[j].secret = nextSecret
           \/ /\ keys[j] # None /\ keys'[j].previous = keys[j].previous /\ keys'[j].until = keys[j].until
              /\ \A s : s = keys'[j].secret => Owns(j, s)
    BY <2>2 DEF Owns
  <2>. QED  BY <1>2, <2>1, <2>3, WatchRemembers
<1>5. ASSUME NEW r \in Requests, NEW scope \in Scopes, APIKeysCreate(r, scope)
      PROVE  Remembered' /\ UploadType'
  <2>1. uploads' = Watch(keys', now') /\ now' = now
    BY <1>5 DEF APIKeysCreate
  <2>2. \A j \in KeyIds : keys'[j] = keys[j] \/ keys'[j].secret = nextSecret
    BY <1>5 DEF APIKeysCreate, RingType, NewKey
  <2>3. \A j \in KeyIds : keys'[j] # None =>
           \/ keys'[j].secret = nextSecret
           \/ /\ keys[j] # None /\ keys'[j].previous = keys[j].previous /\ keys'[j].until = keys[j].until
              /\ \A s : s = keys'[j].secret => Owns(j, s)
    BY <2>2 DEF Owns
  <2>. QED  BY <1>2, <2>1, <2>3, WatchRemembers
<1>6. ASSUME UNCHANGED keys \/ \E k \in KeyIds : keys' = [keys EXCEPT ![k] = None], uploads' = Watch(keys', now'),
             now' # now => keys' = keys /\ \A u \in Uploads : uploads[u].at # "by previous"
      PROVE  Remembered' /\ UploadType'
  <2>1. \A j \in KeyIds : keys'[j] # None => keys'[j] = keys[j]
    BY <1>6 DEF RingType
  <2>2. \A j \in KeyIds : keys'[j] # None =>
           \/ keys'[j].secret = nextSecret
           \/ /\ keys[j] # None /\ keys'[j].previous = keys[j].previous /\ keys'[j].until = keys[j].until
              /\ \A s : s = keys'[j].secret => Owns(j, s)
    BY <2>1 DEF Owns
  <2>. QED  BY <1>2, <1>6, <2>2, WatchRemembers
<1>7. ASSUME NEW r \in Requests, NEW k \in KeyIds, APIKeysDelete(r, k)
      PROVE  Remembered' /\ UploadType'
  <2>1. uploads' = Watch(keys', now') /\ now' = now /\ keys' = [keys EXCEPT ![k] = None]
    BY <1>7 DEF APIKeysDelete
  <2>. QED  BY <1>6, <2>1
<1>8. CASE Tick
  <2>1. /\ uploads' = Watch(keys', now') /\ UNCHANGED keys
        /\ \A u \in Uploads : uploads[u].at # "by previous"
    BY <1>8 DEF Tick
  <2>. QED  BY <1>6, <2>1
<1>9. CASE Restart
  <2>1. uploads' = [u \in Uploads |-> [at |-> "away"]]
    BY <1>9 DEF Restart
  <2>2. \A u \in Uploads : uploads'[u].at = "away"
    BY <2>1
  <2>3. UploadType'
    BY <2>1 DEF UploadType
  <2>. QED  BY <2>2, <2>3 DEF Remembered, UploadsAreAnsweredRight, Remembers, Waiting
<1>10. ASSUME NEW r \in Requests, Admin(r)
       PROVE  Remembered' /\ UploadType'
  BY <1>1, <1>3, <1>4, <1>5, <1>7, <1>10
  DEF Admin, ring, IPBlocksCreate, IPBlocksDelete, DeleteIPBlock, CloseFor, APIKeysRotate, APIKeysUpdate
<1>11. CASE UNCHANGED avars \/ Sweep \/ (\E p \in Procs : Reloads(p)) \/ \E c \in Connections : Register(c) \/ \E a \in Addresses : IPBlock(c, a)
  BY <1>1, <1>11 DEF avars, ring, Sweep, Reloads, ReadList, StoreList, Reload, Register, IPBlock
<1>. QED  BY <1>8, <1>9, <1>10, <1>11, UploadRemembers DEF ANext

-----------------------------------------------------------------------------
(* All of it.                                                              *)

AdmissionIInv ==
  GateType /\ WorkType /\ RingType /\ UploadType /\ BlockInv /\ SecretInv /\ RetiredToo /\ Remembered

\* A server with one key, no block and nobody connected.
LEMMA AdmissionStarts == AInit => AdmissionIInv
<1>. SUFFICES ASSUME AInit PROVE AdmissionIInv
  OBVIOUS
<1>. USE AdmissionAssumption DEF AdmissionAssumption, AInit
<1>1. GateType
  BY DEF GateType
<1>2. WorkType
  BY ProcFacts DEF WorkType
<1>3. /\ keys \in [KeyIds -> {None} \union Key]
      /\ \A k \in KeyIds : keys[k] # None => k = 1 /\ keys[k].secret = 1 /\ keys[k].previous = 0 /\ keys[k].until = 0
  <2>1. NewKey(1, {}) \in Key
    BY DEF NewKey, Key
  <2>2. LET x == NewKey(1, {}) IN x.secret = 1 /\ x.previous = 0 /\ x.until = 0
    BY DEF NewKey
  <2>. HIDE DEF Key
  <2>. QED  BY <2>1, <2>2
<1>4. RingType
  <2>1. 2 \in 2..(MaxRows + 1)
    OBVIOUS
  <2>2. shown \in [KeyIds -> Nat] /\ replaced \in [KeyIds -> [secret : Nat, until : Nat]]
    OBVIOUS
  <2>. QED  BY <1>3, <2>1, <2>2 DEF RingType
<1>5. UploadType
  BY DEF UploadType
<1>6. /\ \A p \in Procs : work[p].at = "idle"
      /\ \A c \in Connections : conns[c].at = "away"
      /\ \A u \in Uploads : uploads[u].at = "away"
  BY WorkKinds
<1>7. BlockInv
  BY <1>6 DEF BlockInv, OneRowEach, Overlaps, Stores, Listed, ConnsHeld, TrustHeld, InForce
<1>8. SecretInv
  <2>1. \A k \in KeyIds : \A s \in Nat : Owns(k, s) => k = 1 /\ s \in {0, 1}
    BY <1>3, <1>6, ProcFacts DEF Owns
  <2>2. Owned
    <3>1. nextSecret = 2 /\ nextKey = 2
      OBVIOUS
    <3>2. \A k \in KeyIds : \A s \in Nat : Owns(k, s) => s < nextSecret /\ k < nextKey
      BY <2>1, <3>1
    <3>3. \A k, j \in KeyIds : \A s \in Nat \ {0} : Owns(k, s) /\ Owns(j, s) => k = j
      BY <2>1
    <3>4. \A k \in KeyIds : keys[k] # None => keys[k].secret # 0
      BY <1>3
    <3>5. \A r \in Requests : work[r].at # "write key"
      BY <1>6, ProcFacts
    <3>. QED  BY <3>2, <3>3, <3>4, <3>5 DEF Owned
  <2>3. ReadStands
    BY <1>6, ProcFacts DEF ReadStands
  <2>4. AsShown
    BY <1>3 DEF AsShown
  <2>5. NoneReplaced
    BY DEF NoneReplaced
  <2>. QED  BY <2>2, <2>3, <2>4, <2>5 DEF SecretInv, Told
<1>9. Remembered
  BY <1>6 DEF Remembered, UploadsAreAnsweredRight, Remembers, Waiting
<1>10. RetiredToo
  BY DEF RetiredToo
<1>. QED  BY <1>1, <1>2, <1>4, <1>5, <1>7, <1>8, <1>9, <1>10 DEF AdmissionIInv

\* The steps together.
LEMMA AdmissionKept == AdmissionIInv /\ [ANext]_avars => AdmissionIInv'
<1>. SUFFICES ASSUME AdmissionIInv, [ANext]_avars PROVE AdmissionIInv'
  OBVIOUS
<1>1. GateType /\ WorkType /\ RingType /\ UploadType /\ BlockInv /\ SecretInv /\ RetiredToo /\ Remembered
  BY DEF AdmissionIInv
<1>2. GateType' /\ WorkType'
  BY <1>1, BlockSteps
<1>3. RingType'
  BY <1>1, RingSteps DEF SecretInv
<1>4. BlockInv'
  BY <1>1, BlockInvKept
<1>5. SecretInv'
  BY <1>1, <1>3, SecretInvKept
<1>6. Remembered' /\ UploadType'
  BY <1>1, <1>3, <1>5, RememberedKept
<1>7. RetiredToo'
  BY <1>1, RetiredTooKept
<1>. QED  BY <1>2, <1>3, <1>4, <1>5, <1>6, <1>7 DEF AdmissionIInv

\* The types kept are more than the invariant's.
LEMMA AdmissionTypes == AdmissionIInv => ATypeOK
<1>. SUFFICES ASSUME AdmissionIInv PROVE ATypeOK
  OBVIOUS
<1>1. GateType /\ WorkType /\ RingType /\ UploadType /\ BlockInv /\ SecretInv
  BY DEF AdmissionIInv
<1>2. /\ now \in 0..MaxTime /\ trusted \in TrustLists /\ nextBlock \in 1..(MaxRows + 1)
      /\ blocks \subseteq Block /\ list \subseteq Block /\ doubt \subseteq Block
      /\ \A x, z \in blocks : (x.id = z.id \/ x.range = z.range) => x = z
  BY <1>1 DEF GateType, BlockInv, OneRowEach
<1>3. \A c \in Connections : conns[c].at \in Places /\ (conns[c].at # "away" => conns[c].ip \in Addresses)
  <2>1. [at |-> "away"].at = "away"
    OBVIOUS
  <2>. QED  BY <1>1, <2>1 DEF GateType, Arrived, Places
<1>4. ASSUME NEW k \in KeyIds, keys[k] # None
      PROVE  keys[k].secret \in 1..(nextSecret - 1) /\ keys[k].scope \subseteq Systems
  <2>1. keys[k] \in Key
    BY <1>1, <1>4 DEF RingType
  <2>2. keys[k].secret \in Nat /\ keys[k].scope \subseteq Systems
    BY <2>1 DEF Key
  <2>3. Owns(k, keys[k].secret)
    BY <1>4 DEF Owns
  <2>4. keys[k].secret < nextSecret /\ keys[k].secret # 0
    BY <1>1, <1>4, <2>2, <2>3 DEF SecretInv, Owned
  <2>5. nextSecret \in Nat
    BY <1>1 DEF RingType
  <2>. QED  BY <2>2, <2>4, <2>5
<1>5. \A u \in Uploads : uploads[u].at \in Waiting \union {"away", "accepted", "refused"}
  <2>1. [at |-> "away"].at = "away"
    OBVIOUS
  <2>. QED  BY <1>1, <2>1 DEF UploadType, Uploading
<1>6. \A p \in Procs : work[p].at \in Steps
  <2>1. \A w \in GateWork \union RingWork \union SweepWork : w.at \in Steps
    BY WorkKinds DEF Steps, GateWork
  <2>2. Idle.at \in Steps
    BY WorkKinds DEF Steps
  <2>. QED  BY <1>1, <2>1, <2>2 DEF WorkType
<1>7. nextKey \in 2..(MaxRows + 1) /\ raced \subseteq KeyIds
  BY <1>1 DEF RingType
<1>. QED  BY <1>2, <1>3, <1>4, <1>5, <1>6, <1>7 DEF ATypeOK

\* Blocks, keys and uploads are always as this module's invariant says.
THEOREM AdmissionIsKept == ASpec => []AdmissionIInv
BY AdmissionStarts, AdmissionKept, PTL DEF ASpec

\* Between an admin's requests the list that refuses clients is the table, but
\* for rows that two reloads at once or a failed one left in doubt; a
\* connection outlives those blocks only that it slipped past, unlisted or not
\* yet registered, and those whose creation failed on its reload while it was
\* there, which drop nobody; trusted addresses are neither refused nor dropped:
\* for any number of requests, reloads and failures (IPBlocksCreate, Reload,
\* Sweep, CloseFor).
THEOREM BlocksAlwaysHold == ASpec => []AdmissionInv
<1>1. AdmissionIInv => AdmissionInv
  BY AdmissionTypes, BlockInvHolds DEF AdmissionIInv, AdmissionInv
<1>. QED  BY <1>1, AdmissionIsKept, PTL

\* The secret shown last opens its key, the one the last rotation replaced does
\* for its grace, and of the others at most those an earlier rotation replaced
\* less than the grace ago (the code drops them), but for keys that two
\* requests wrote at once, for any number of admins and keys (APIKeysUpdate,
\* APIKeysRotate, APIKeyAuth).
THEOREM SecretsAlwaysKeepTheirWord == ASpec => []SecretsKeepTheirWord
<1>1. AdmissionIInv => SecretsKeepTheirWord
  BY SecretInvHolds DEF AdmissionIInv
<1>. QED  BY <1>1, AdmissionIsKept, PTL

\* An upload that is taken had a key that may send to its system at some time
\* since it came, one that is refused had none at some time, whatever comes
\* between its two look-ups (APIKeyAuth, PostCallUpload).
THEOREM UploadsAreAlwaysAnsweredRight == ASpec => []UploadsAreAnsweredRight
<1>1. AdmissionIInv => UploadsAreAnsweredRight
  BY DEF AdmissionIInv, Remembered
<1>. QED  BY <1>1, AdmissionIsKept, PTL

-----------------------------------------------------------------------------
(* The connection history.                                                 *)

USE DEF memory, ghosts

\* What the registry may have told of a connection.
Tellings == {<<>>, <<"opened">>} \union ({"opened"} \X Reasons)

LEMMA TellingFacts ==
  /\ <<>> \in Tellings /\ <<"opened">> \in Tellings
  /\ \A r \in Reasons : <<"opened", r>> \in Tellings
  /\ \A t \in Tellings : t # <<>> /\ t # <<"opened">> => t[2] \in Reasons /\ t = <<"opened", t[2]>>
  /\ <<>> # <<"opened">>
  /\ \A r : <<"opened", r>> # <<>> /\ <<"opened", r>> # <<"opened">> /\ <<"opened", r>>[2] = r
BY DEF Tellings

\* Taking the first event off the queue.
LEMMA TailFacts ==
  ASSUME TypeOK, events # <<>>
  PROVE  /\ Head(events) = events[1] /\ 1 \in 1..Len(events)
         /\ events[1] \in Event /\ Queued(events[1])
         /\ Tail(events) \in Seq(Event)
         /\ Len(Tail(events)) = Len(events) - 1
         /\ \A i \in 1..Len(Tail(events)) : Tail(events)[i] = events[i+1] /\ i + 1 \in 1..Len(events)
         /\ \A i \in 1..Len(events) : i = 1 \/ (i - 1 \in 1..Len(Tail(events)) /\ events[i] = Tail(events)[i-1])
<1>1. events \in Seq(Event)
  BY DEF TypeOK
<1>2. Len(events) \in Nat \ {0}
  BY <1>1, EmptySeq, LenProperties
<1> QED BY <1>1, <1>2, HeadTailProperties, ElementOfSeq DEF Queued

\* What is left of the queue: what was queued behind the first event.
LEMMA RestFacts ==
  ASSUME TypeOK, QueueIsInOrder, events # <<>>, events' = Tail(events)
  PROVE  /\ QueueIsInOrder'
         /\ \A e \in Event : Queued(e)' => Queued(e)
         /\ \A e \in Event : Queued(e) => Queued(e)' \/ e = events[1]
         /\ \A e \in Event : Queued(e)' /\ e.conn = events[1].conn =>
                               events[1].what = "opened" /\ e.what # "opened"
<1>1. /\ 1 \in 1..Len(events) /\ Len(events) \in Nat
      /\ Len(events') = Len(events) - 1
      /\ \A i \in 1..Len(events') : events'[i] = events[i+1] /\ i + 1 \in 1..Len(events)
      /\ \A i \in 1..Len(events) : i = 1 \/ (i - 1 \in 1..Len(events') /\ events[i] = events'[i-1])
  BY TailFacts, LenProperties DEF TypeOK
<1>2. QueueIsInOrder'
  BY <1>1 DEF QueueIsInOrder
<1>3. \A e \in Event : Queued(e)' => \E i \in 1..Len(events) : 1 < i /\ events[i] = e
  BY <1>1 DEF Queued
<1>4. \A e \in Event : Queued(e) => Queued(e)' \/ e = events[1]
  BY <1>1 DEF Queued
<1> QED BY <1>1, <1>2, <1>3, <1>4 DEF Queued, QueueIsInOrder

\* Adding an event at its end.
LEMMA EnqueueFacts ==
  ASSUME TypeOK, NEW c \in Conns, NEW e \in Event, Enqueue(c, e)
  PROVE  /\ events' \in Seq(Event) /\ Len(events') <= QueueSize
         /\ missed \subseteq missed' /\ missed' \subseteq missed \union {c}
         /\ \A f \in Event : Queued(f) => Queued(f)'
         /\ \A f \in Event : Queued(f)' => Queued(f) \/ f = e
         /\ c \in missed' \/ Queued(e)'
<1>1. events \in Seq(Event) /\ Len(events) \in Nat /\ QueueSize \in Nat
  BY HistoryAssumption, LenProperties DEF TypeOK, HistoryAssumption
<1>2. CASE Len(events) < QueueSize
  <2>1. events' = Append(events, e) /\ missed' = missed
    BY <1>2 DEF Enqueue
  <2>2. /\ Len(events') = Len(events) + 1 /\ events' \in Seq(Event)
        /\ \A i \in 1..Len(events) : events'[i] = events[i]
        /\ events'[Len(events) + 1] = e
    BY <1>1, <2>1, AppendProperties
  <2>3. \A i \in 1..Len(events') : i \in 1..Len(events) \/ i = Len(events) + 1
    BY <1>1, <2>2
  <2>4. /\ Len(events) + 1 \in 1..Len(events')
        /\ \A i \in 1..Len(events) : i \in 1..Len(events')
    BY <1>1, <2>2
  <2>5. \A f \in Event : Queued(f) => Queued(f)'
    BY <2>2, <2>4 DEF Queued
  <2>6. \A f \in Event : Queued(f)' => Queued(f) \/ f = e
    BY <2>2, <2>3 DEF Queued
  <2>7. Queued(e)'
    BY <2>2, <2>4 DEF Queued
  <2> QED BY <1>1, <1>2, <2>1, <2>2, <2>5, <2>6, <2>7
<1>3. CASE ~(Len(events) < QueueSize)
  BY <1>1, <1>3 DEF Enqueue, TypeOK, Queued
<1> QED BY <1>2, <1>3

\* It stays in order, if the event comes after all of its connection.
LEMMA EnqueueInOrder ==
  ASSUME TypeOK, QueueIsInOrder, NEW c \in Conns, NEW e \in Event, Enqueue(c, e), e.conn = c,
         \A f \in Event : Queued(f) /\ f.conn = c => f.what = "opened" /\ e.what # "opened"
  PROVE  QueueIsInOrder'
<1>1. events \in Seq(Event) /\ Len(events) \in Nat
  BY LenProperties DEF TypeOK
<1>2. CASE events' = events
  BY <1>2 DEF QueueIsInOrder
<1>3. CASE events' = Append(events, e)
  <2>1. /\ Len(events') = Len(events) + 1
        /\ \A i \in 1..Len(events) : events'[i] = events[i]
        /\ events'[Len(events) + 1] = e
    BY <1>1, <1>3, AppendProperties
  <2>2. \A i \in 1..Len(events) : events[i] \in Event /\ Queued(events[i])
    BY <1>1, ElementOfSeq DEF Queued
  <2>3. ASSUME NEW i \in 1..Len(events'), NEW j \in 1..Len(events'), i < j,
               events'[i].conn = events'[j].conn
        PROVE  events'[i].what = "opened" /\ events'[j].what # "opened"
    <3>1. i \in 1..Len(events) /\ events'[i] = events[i]
      BY <1>1, <2>1, <2>3
    <3>2. CASE j \in 1..Len(events)
      <4>1. events'[j] = events[j]
        BY <2>1, <3>2
      <4> QED BY <2>3, <3>1, <3>2, <4>1 DEF QueueIsInOrder
    <3>3. CASE j = Len(events) + 1
      BY <2>1, <2>2, <2>3, <3>1, <3>3
    <3> QED BY <1>1, <2>1, <3>2, <3>3
  <2> QED BY <2>3 DEF QueueIsInOrder
<1> QED BY <1>2, <1>3 DEF Enqueue

LEMMA InitInv == Init => HistoryInv
<1> SUFFICES ASSUME Init PROVE HistoryInv
  OBVIOUS
<1> USE DEF Init
<1>1. TypeOK
  <2>1. told \in [Conns -> Tellings]
    BY TellingFacts
  <2>2. events \in Seq(Event) /\ Len(events) <= QueueSize
    BY HistoryAssumption DEF HistoryAssumption
  <2> QED BY <2>1, <2>2 DEF TypeOK, Tellings
<1>2. QueueTellsTheTruth /\ QueueIsInOrder
  BY DEF QueueTellsTheTruth, QueueIsInOrder, Queued
<1>3. RowsAreOpen /\ DownIsEmpty /\ UntoldIsUnknown /\ RowsTellTheTruth /\ RowsAreForgotten
  BY HistoryAssumption, TellingFacts
     DEF HistoryAssumption, RowsAreOpen, DownIsEmpty, UntoldIsUnknown, RowsTellTheTruth,
         RowsAreForgotten, Connected
<1> QED BY <1>1, <1>2, <1>3 DEF HistoryInv

-----------------------------------------------------------------------------
LEMMA TypeStep == TypeOK /\ [Next]_vars => TypeOK'
<1> SUFFICES ASSUME TypeOK, [Next]_vars PROVE TypeOK'
  OBVIOUS
<1>1. ASSUME NEW c \in Conns, Opened(c) PROVE TypeOK'
  <2>1. [conn |-> c, what |-> "opened"] \in Event
    BY DEF Event
  <2>2. told' \in [Conns -> Tellings]
    BY <1>1, TellingFacts DEF Opened, Source!Open, TypeOK, Tellings
  <2> QED BY <1>1, <2>1, <2>2, EnqueueFacts DEF Opened, TypeOK, Tellings
<1>2. ASSUME NEW c \in Conns, Closed(c) PROVE TypeOK'
  <2>1. PICK r \in Reasons : /\ told' = [told EXCEPT ![c] = <<"opened", r>>]
                             /\ Enqueue(c, [conn |-> c, what |-> r])
                             /\ UNCHANGED <<process, writer, rows, table, setting, days, fresh, aged, orphans, settled>>
    BY <1>2 DEF Closed
  <2>2. [conn |-> c, what |-> r] \in Event
    BY DEF Event
  <2>3. told' \in [Conns -> Tellings]
    BY <2>1, TellingFacts DEF TypeOK, Tellings
  <2> QED BY <2>1, <2>2, <2>3, EnqueueFacts DEF TypeOK, Tellings
<1>3. CASE WriteOpen
  <2>1. events # <<>> /\ Head(events).conn \in Conns
    BY <1>3, TailFacts DEF WriteOpen, Event
  <2>2. events' \in Seq(Event) /\ Len(events') <= QueueSize
    BY <1>3, <2>1, TailFacts, HistoryAssumption, LenProperties DEF WriteOpen, TypeOK, HistoryAssumption
  <2>3. fresh' \in BOOLEAN /\ days' \in {"on", "off", "default"}
    BY <1>3 DEF WriteOpen, Enabled, TypeOK
  <2> QED BY <1>3, <2>1, <2>2, <2>3 DEF WriteOpen, TypeOK
<1>4. CASE WriteClose
  <2>1. events # <<>> /\ Head(events) \in Event
    BY <1>4, TailFacts DEF WriteClose
  <2>2. events' \in Seq(Event) /\ Len(events') <= QueueSize
    BY <1>4, <2>1, TailFacts, HistoryAssumption, LenProperties DEF WriteClose, TypeOK, HistoryAssumption
  <2>3. table' \in [Conns -> {"none", "open", "stale", "deleted"} \union Reasons]
    BY <1>4, <2>1 DEF WriteClose, TypeOK, Event
  <2> QED BY <1>4, <2>2, <2>3 DEF WriteClose, TypeOK
<1>5. CASE \E c \in Conns : Age(c)
  BY <1>5 DEF Age, TypeOK
<1>6. CASE SeeDone \/ Return \/ MinutePasses \/ Stop \/ \E s \in {"on", "off"} : SetDays(s)
  BY <1>6 DEF SeeDone, Return, MinutePasses, Stop, SetDays, TypeOK
<1>7. CASE Prune
  BY <1>7 DEF Prune, Pruned, TypeOK
<1>8. CASE Boot
  BY <1>8 DEF Boot, Swept, Pruned, TypeOK
<1>9. CASE Down
  <2>1. events' \in Seq(Event) /\ Len(events') <= QueueSize
    BY <1>9, HistoryAssumption DEF Down, HistoryAssumption
  <2> QED BY <1>9, <2>1 DEF Down, TypeOK
<1>10. CASE UNCHANGED vars
  BY <1>10 DEF vars, TypeOK
<1> QED BY <1>1, <1>2, <1>3, <1>4, <1>5, <1>6, <1>7, <1>8, <1>9, <1>10 DEF Next, WriterStep

-----------------------------------------------------------------------------
Parts == /\ QueueTellsTheTruth /\ QueueIsInOrder /\ RowsAreOpen /\ DownIsEmpty
         /\ UntoldIsUnknown /\ RowsTellTheTruth /\ RowsAreForgotten

\* A connection that was told of, and did not go down with the process, is
\* open or has ended for a reason.
LEMMA ToldFacts ==
  ASSUME TypeOK, NEW c \in Conns, told[c] # <<>>, c \notin orphans
  PROVE  Connected(c) \/ (told[c][2] \in Reasons /\ told[c] = <<"opened", told[c][2]>>)
BY TellingFacts DEF TypeOK, Connected, Tellings

LEMMA QueuedIsEvent ==
  ASSUME TypeOK, NEW c \in Conns, NEW w, Queued([conn |-> c, what |-> w])
  PROVE  /\ [conn |-> c, what |-> w] \in Event
         /\ [conn |-> c, what |-> w].conn = c /\ [conn |-> c, what |-> w].what = w
BY ElementOfSeq DEF Queued, TypeOK

LEMMA OpenedInv ==
  ASSUME HistoryInv, NEW c \in Conns, Opened(c)
  PROVE  Parts'
<1> USE DEF HistoryInv
<1> DEFINE e == [conn |-> c, what |-> "opened"]
<1>1. /\ told[c] = <<>> /\ told' = [told EXCEPT ![c] = <<"opened">>]
      /\ Enqueue(c, e)
      /\ UNCHANGED <<process, rows, table, orphans>>
      /\ process # "down"
  BY DEF Opened, Source!Open
<1>2. told'[c] = <<"opened">> /\ \A d \in Conns : d # c => told'[d] = told[d]
  BY <1>1 DEF TypeOK
<1>3. table[c] = "none" /\ c \notin orphans /\ c \notin rows
  BY <1>1 DEF UntoldIsUnknown, RowsAreOpen
<1>4. \A f \in Event : Queued(f) => f.conn # c
  BY <1>1, TellingFacts DEF QueueTellsTheTruth, EventIsTrue
<1>5. e \in Event /\ e.conn = c /\ e.what = "opened"
  BY DEF Event
<1> HIDE DEF e
<1>6. /\ missed \subseteq missed'
      /\ \A f \in Event : Queued(f) => Queued(f)'
      /\ \A f \in Event : Queued(f)' => Queued(f) \/ f = e
  BY <1>1, <1>5, EnqueueFacts
<1>7. \A d \in Conns : d # c /\ Followed(d) => Followed(d)'
  <2> SUFFICES ASSUME NEW d \in Conns, d # c, Followed(d) PROVE Followed(d)'
    OBVIOUS
  <2>1. CASE Connected(d)
    BY <1>1, <1>2, <2>1 DEF Followed, Connected
  <2>2. CASE d \in missed
    BY <1>6, <2>2 DEF Followed
  <2>3. CASE Queued([conn |-> d, what |-> told[d][2]])
    <3>1. Queued([conn |-> d, what |-> told[d][2]])'
      BY <1>2, <1>6, <2>3, QueuedIsEvent
    <3> QED BY <3>1 DEF Followed
  <2> QED BY <2>1, <2>2, <2>3 DEF Followed
<1>8. Followed(c)'
  BY <1>1, <1>2, <1>3 DEF Followed, Connected
<1>9. QueueTellsTheTruth'
  <2> SUFFICES ASSUME NEW f \in Event, Queued(f)' PROVE EventIsTrue(f)'
    BY DEF QueueTellsTheTruth
  <2>1. CASE Queued(f)
    <3>1. EventIsTrue(f) /\ f.conn \in Conns /\ f.conn # c
      BY <1>4, <2>1 DEF QueueTellsTheTruth, Event
    <3> QED BY <1>1, <1>2, <1>7, <3>1 DEF EventIsTrue
  <2>2. CASE f = e
    BY <1>1, <1>2, <1>3, <1>5, <1>8, <2>2, TellingFacts DEF EventIsTrue
  <2> QED BY <1>6, <2>1, <2>2
<1>10. QueueIsInOrder'
  BY <1>1, <1>4, <1>5, EnqueueInOrder
<1>11. RowsAreOpen' /\ RowsAreForgotten'
  BY <1>1, <1>2, <1>3, <1>7 DEF RowsAreOpen, RowsAreForgotten, TypeOK
<1>12. DownIsEmpty' /\ UntoldIsUnknown'
  BY <1>1, <1>2, TellingFacts DEF DownIsEmpty, UntoldIsUnknown
<1>13. RowsTellTheTruth'
  BY <1>1, <1>2, <1>3, HistoryAssumption DEF RowsTellTheTruth, Connected, HistoryAssumption
<1> QED BY <1>9, <1>10, <1>11, <1>12, <1>13 DEF Parts

LEMMA ClosedInv ==
  ASSUME HistoryInv, NEW c \in Conns, Closed(c)
  PROVE  Parts'
<1> USE DEF HistoryInv
<1>1. PICK r \in Reasons :
      /\ told' = [told EXCEPT ![c] = <<"opened", r>>]
      /\ Enqueue(c, [conn |-> c, what |-> r])
      /\ UNCHANGED <<process, rows, table, orphans>>
  BY DEF Closed
<1> DEFINE e == [conn |-> c, what |-> r]
<1>2. told[c] = <<"opened">> /\ c \notin orphans /\ process # "down"
  BY DEF Closed, Connected
<1>3. told'[c] = <<"opened", r>> /\ told'[c][2] = r /\ \A d \in Conns : d # c => told'[d] = told[d]
  BY <1>1, TellingFacts DEF TypeOK
<1>4. e \in Event /\ e.conn = c /\ e.what = r /\ r # "opened" /\ Enqueue(c, e)
  BY <1>1, HistoryAssumption DEF Event, HistoryAssumption
<1>5. \A f \in Event : Queued(f) /\ f.conn = c => f.what = "opened"
  BY <1>2, TellingFacts DEF QueueTellsTheTruth, EventIsTrue
<1>6. /\ missed \subseteq missed'
      /\ \A f \in Event : Queued(f) => Queued(f)'
      /\ \A f \in Event : Queued(f)' => Queued(f) \/ f = e
      /\ c \in missed' \/ Queued(e)'
  BY <1>4, EnqueueFacts
<1>7. Followed(c)'
  BY <1>3, <1>6 DEF Followed
<1> HIDE DEF e
<1>8. \A d \in Conns : Followed(d) => Followed(d)'
  <2> SUFFICES ASSUME NEW d \in Conns, d # c, Followed(d) PROVE Followed(d)'
    BY <1>7
  <2>1. CASE Connected(d)
    BY <1>1, <1>3, <2>1 DEF Followed, Connected
  <2>2. CASE d \in missed
    BY <1>6, <2>2 DEF Followed
  <2>3. CASE Queued([conn |-> d, what |-> told[d][2]])
    <3>1. Queued([conn |-> d, what |-> told[d][2]])'
      BY <1>3, <1>6, <2>3, QueuedIsEvent
    <3> QED BY <3>1 DEF Followed
  <2> QED BY <2>1, <2>2, <2>3 DEF Followed
<1>9. QueueTellsTheTruth'
  <2> SUFFICES ASSUME NEW f \in Event, Queued(f)' PROVE EventIsTrue(f)'
    BY DEF QueueTellsTheTruth
  <2>1. CASE Queued(f)
    <3>1. EventIsTrue(f) /\ f.conn \in Conns /\ (f.conn = c => f.what = "opened")
      BY <1>5, <2>1 DEF QueueTellsTheTruth, Event
    <3>2. CASE f.conn = c
      BY <1>1, <1>3, <1>8, <3>1, <3>2, TellingFacts DEF EventIsTrue
    <3>3. CASE f.conn # c
      BY <1>1, <1>3, <1>8, <3>1, <3>3 DEF EventIsTrue
    <3> QED BY <3>2, <3>3
  <2>2. CASE f = e
    BY <1>1, <1>2, <1>3, <1>4, <2>2 DEF EventIsTrue
  <2> QED BY <1>6, <2>1, <2>2
<1>10. QueueIsInOrder'
  BY <1>4, <1>5, EnqueueInOrder
<1>11. RowsAreOpen' /\ RowsAreForgotten'
  BY <1>1, <1>3, <1>8, TellingFacts DEF RowsAreOpen, RowsAreForgotten, TypeOK
<1>12. DownIsEmpty' /\ UntoldIsUnknown'
  BY <1>1, <1>2, <1>3, TellingFacts DEF DownIsEmpty, UntoldIsUnknown
<1>13. RowsTellTheTruth'
  BY <1>1, <1>2, <1>3, TellingFacts DEF RowsTellTheTruth, Connected
<1> QED BY <1>9, <1>10, <1>11, <1>12, <1>13 DEF Parts

\* What a write makes of the rest of the queue: told and orphans stand, and
\* only the row of the event's connection changes.
LEMMA RestOfQueue ==
  ASSUME HistoryInv, events # <<>>, events' = Tail(events), UNCHANGED <<told, orphans, missed>>,
         NEW c \in Conns, c = events[1].conn,
         \A d \in Conns : d # c => table'[d] = table[d] /\ (d \in rows' <=> d \in rows)
  PROVE  /\ \A d \in Conns : d # c /\ Followed(d) => Followed(d)'
         /\ events[1].what = "opened" => Followed(c)'
         /\ QueueTellsTheTruth'
         /\ QueueIsInOrder'
<1> USE DEF HistoryInv
<1>1. events[1] \in Event /\ Queued(events[1]) /\ c \in Conns
  BY TailFacts DEF Event
<1>2. /\ QueueIsInOrder'
      /\ \A e \in Event : Queued(e)' => Queued(e)
      /\ \A e \in Event : Queued(e) => Queued(e)' \/ e = events[1]
      /\ \A e \in Event : Queued(e)' /\ e.conn = c => events[1].what = "opened" /\ e.what # "opened"
  BY RestFacts
<1>3. \A d \in Conns : d # c /\ Followed(d) => Followed(d)'
  <2> SUFFICES ASSUME NEW d \in Conns, d # c, Followed(d) PROVE Followed(d)'
    OBVIOUS
  <2> DEFINE e == [conn |-> d, what |-> told[d][2]]
  <2>1. CASE Connected(d) \/ d \in missed
    BY <2>1 DEF Followed, Connected
  <2>2. CASE Queued(e)
    <3>1. e \in Event /\ e.conn = d
      BY <2>2, QueuedIsEvent
    <3>2. Queued(e)'
      BY <1>2, <2>2, <3>1
    <3> QED BY <3>2 DEF Followed
  <2> QED BY <2>1, <2>2 DEF Followed
<1>4. ASSUME events[1].what = "opened" PROVE Followed(c)'
  <2> DEFINE e == [conn |-> c, what |-> told[c][2]]
  <2>1. EventIsTrue(events[1])
    BY <1>1 DEF QueueTellsTheTruth
  <2>2. told[c] # <<>> /\ c \notin orphans /\ Followed(c)
    BY <1>4, <2>1 DEF EventIsTrue
  <2>3. CASE Connected(c) \/ c \in missed
    BY <2>3 DEF Followed, Connected
  <2>4. CASE ~Connected(c) /\ Queued(e)
    <3>1. e \in Event /\ e.what \in Reasons /\ e.what # "opened"
      BY <1>1, <2>2, <2>4, ToldFacts, QueuedIsEvent, HistoryAssumption DEF HistoryAssumption
    <3>2. Queued(e)'
      BY <1>2, <1>4, <2>4, <3>1
    <3> QED BY <3>2 DEF Followed
  <2> QED BY <2>2, <2>3, <2>4 DEF Followed
<1>5. QueueTellsTheTruth'
  <2> SUFFICES ASSUME NEW f \in Event, Queued(f)' PROVE EventIsTrue(f)'
    BY DEF QueueTellsTheTruth
  <2>1. EventIsTrue(f) /\ f.conn \in Conns
    BY <1>2 DEF QueueTellsTheTruth, Event
  <2>2. CASE f.conn = c
    BY <1>2, <2>1, <2>2 DEF EventIsTrue
  <2>3. CASE f.conn # c
    BY <1>3, <2>1, <2>3 DEF EventIsTrue
  <2> QED BY <2>2, <2>3
<1> QED BY <1>2, <1>3, <1>4, <1>5

LEMMA WriteOpenInv ==
  ASSUME HistoryInv, WriteOpen
  PROVE  Parts'
<1> USE DEF HistoryInv
<1>0. PICK c : c = events[1].conn
  OBVIOUS
<1>1. /\ events # <<>> /\ Head(events) = events[1] /\ events[1].what = "opened"
      /\ events[1] \in Event /\ Queued(events[1]) /\ events' = Tail(events)
      /\ UNCHANGED <<told, process, orphans, missed>>
  BY <1>0, TailFacts DEF WriteOpen
<1>2. c \in Conns
  BY <1>0, <1>1 DEF Event
<1>3. told[c] # <<>> /\ table[c] = "none" /\ c \notin rows /\ c \notin orphans
  BY <1>0, <1>1 DEF QueueTellsTheTruth, EventIsTrue
<1>4. \/ table' = [table EXCEPT ![c] = "open"] /\ rows' = rows \union {c}
      \/ table' = table /\ rows' = rows
  BY <1>0, <1>1 DEF WriteOpen
<1>5. \A d \in Conns : d # c => table'[d] = table[d] /\ (d \in rows' <=> d \in rows)
  BY <1>2, <1>4 DEF TypeOK
<1>6. /\ \A d \in Conns : d # c /\ Followed(d) => Followed(d)'
      /\ Followed(c)'
      /\ QueueTellsTheTruth' /\ QueueIsInOrder'
  BY <1>0, <1>1, <1>2, <1>5, RestOfQueue
<1>7. RowsAreOpen' /\ RowsAreForgotten'
  BY <1>1, <1>2, <1>3, <1>4, <1>5, <1>6 DEF RowsAreOpen, RowsAreForgotten, TypeOK
<1>8. process # "down"
  BY <1>1 DEF DownIsEmpty
<1>9. DownIsEmpty' /\ UntoldIsUnknown'
  BY <1>1, <1>2, <1>3, <1>4, <1>5, <1>8 DEF DownIsEmpty, UntoldIsUnknown
<1>10. RowsTellTheTruth'
  <2> SUFFICES ASSUME NEW d \in Conns
               PROVE  /\ table'[d] = "open" => told'[d] # <<>>
                      /\ table'[d] \in Reasons => told'[d] = <<"opened", table'[d]>>
                      /\ table'[d] = "stale" => ~Connected(d)'
    BY DEF RowsTellTheTruth
  <2>1. CASE d # c
    BY <1>1, <1>5, <2>1 DEF RowsTellTheTruth, Connected
  <2>2. CASE d = c
    BY <1>1, <1>2, <1>3, <1>4, <2>2, HistoryAssumption DEF TypeOK, HistoryAssumption
  <2> QED BY <2>1, <2>2
<1> QED BY <1>6, <1>7, <1>9, <1>10 DEF Parts

LEMMA WriteCloseInv ==
  ASSUME HistoryInv, WriteClose
  PROVE  Parts'
<1> USE DEF HistoryInv
<1>0. PICK c, r : c = events[1].conn /\ r = events[1].what
  OBVIOUS
<1>1. /\ events # <<>> /\ Head(events) = events[1] /\ r # "opened"
      /\ events[1] \in Event /\ Queued(events[1]) /\ events' = Tail(events) /\ rows' = rows \ {c}
      /\ UNCHANGED <<told, process, orphans, missed>>
  BY <1>0, TailFacts DEF WriteClose
<1>2. c \in Conns /\ r \in Reasons
  BY <1>0, <1>1 DEF Event
<1>3. told[c] = <<"opened", r>>
  BY <1>0, <1>1 DEF QueueTellsTheTruth, EventIsTrue
<1>4. \/ c \in rows /\ table' = [table EXCEPT ![c] = r]
      \/ table' = table
  BY <1>0, <1>1 DEF WriteClose
<1>5. \A d \in Conns : d # c => table'[d] = table[d] /\ (d \in rows' <=> d \in rows)
  BY <1>1, <1>2, <1>4 DEF TypeOK
<1>6. /\ \A d \in Conns : d # c /\ Followed(d) => Followed(d)'
      /\ QueueTellsTheTruth' /\ QueueIsInOrder'
  BY <1>0, <1>1, <1>2, <1>5, RestOfQueue
<1>7. RowsAreOpen' /\ RowsAreForgotten'
  BY <1>1, <1>5, <1>6 DEF RowsAreOpen, RowsAreForgotten, TypeOK
<1>8. process # "down"
  BY <1>1 DEF DownIsEmpty
<1>9. DownIsEmpty' /\ UntoldIsUnknown'
  BY <1>1, <1>2, <1>3, <1>5, <1>8, TellingFacts DEF DownIsEmpty, UntoldIsUnknown
<1>10. RowsTellTheTruth'
  <2> SUFFICES ASSUME NEW d \in Conns
               PROVE  /\ table'[d] = "open" => told'[d] # <<>>
                      /\ table'[d] \in Reasons => told'[d] = <<"opened", table'[d]>>
                      /\ table'[d] = "stale" => ~Connected(d)'
    BY DEF RowsTellTheTruth
  <2>1. CASE table'[d] = table[d]
    BY <1>1, <2>1 DEF RowsTellTheTruth, Connected
  <2>2. CASE d = c /\ table'[d] = r
    BY <1>1, <1>2, <1>3, <2>2, HistoryAssumption, TellingFacts DEF HistoryAssumption
  <2> QED BY <1>2, <1>4, <1>5, <2>1, <2>2 DEF TypeOK
<1> QED BY <1>6, <1>7, <1>9, <1>10 DEF Parts

\* Steps that touch neither queue nor memory: the table may be pruned.
LEMMA QuietInv ==
  ASSUME HistoryInv, UNCHANGED <<told, events, rows, missed, orphans>>,
         table' = table \/ table' = Pruned(table), process' = "down" => process = "down"
  PROVE  Parts'
<1> USE DEF HistoryInv
<1>1. \A d \in Conns : Followed(d) => Followed(d)'
  BY DEF Followed, Connected, Queued
<1>2. \A d \in Conns : table'[d] = table[d] \/ (table[d] # "none" /\ table'[d] = "deleted")
  BY DEF Pruned, TypeOK
<1>3. QueueTellsTheTruth' /\ QueueIsInOrder'
  <2>1. QueueIsInOrder'
    BY DEF QueueIsInOrder
  <2>2. ASSUME NEW f \in Event, Queued(f)' PROVE EventIsTrue(f)'
    <3>1. EventIsTrue(f) /\ f.conn \in Conns
      BY <2>2 DEF QueueTellsTheTruth, Event, Queued
    <3> QED BY <1>1, <1>2, <3>1 DEF EventIsTrue
  <2> QED BY <2>1, <2>2 DEF QueueTellsTheTruth
<1>4. RowsAreOpen' /\ RowsAreForgotten'
  BY <1>1, <1>2 DEF RowsAreOpen, RowsAreForgotten, TypeOK
<1>5. DownIsEmpty' /\ UntoldIsUnknown'
  BY <1>2 DEF DownIsEmpty, UntoldIsUnknown, Connected
<1>6. RowsTellTheTruth'
  BY <1>2, HistoryAssumption DEF RowsTellTheTruth, Connected, HistoryAssumption
<1> QED BY <1>3, <1>4, <1>5, <1>6 DEF Parts

LEMMA BootInv ==
  ASSUME HistoryInv, Boot
  PROVE  Parts'
<1> USE DEF HistoryInv
<1>1. /\ events = <<>> /\ rows = {} /\ \A c \in Conns : ~Connected(c)
      /\ UNCHANGED <<told, events, rows, missed, orphans>> /\ process' = "up"
  BY DEF Boot, DownIsEmpty
<1>2. \A d \in Conns : \/ table'[d] = table[d]
                       \/ table[d] = "open" /\ table'[d] = "stale"
                       \/ table[d] # "none" /\ table'[d] = "deleted"
  BY DEF Boot, Swept, Pruned, TypeOK
<1>3. QueueTellsTheTruth' /\ QueueIsInOrder' /\ RowsAreOpen' /\ RowsAreForgotten' /\ DownIsEmpty'
  BY <1>1 DEF Queued, QueueTellsTheTruth, QueueIsInOrder, RowsAreOpen, RowsAreForgotten, DownIsEmpty
<1>4. UntoldIsUnknown'
  BY <1>1, <1>2 DEF UntoldIsUnknown, RowsTellTheTruth
<1>5. RowsTellTheTruth'
  BY <1>1, <1>2, HistoryAssumption DEF RowsTellTheTruth, Connected, HistoryAssumption
<1> QED BY <1>3, <1>4, <1>5 DEF Parts

LEMMA DownInv ==
  ASSUME HistoryInv, Down
  PROVE  Parts'
<1> USE DEF HistoryInv
<1>1. /\ events' = <<>> /\ rows' = {} /\ UNCHANGED <<told, table>>
      /\ orphans' = orphans \union {c \in Conns : Connected(c)}
  BY DEF Down
<1>2. \A c \in Conns : ~Connected(c)'
  BY <1>1 DEF Connected
<1>3. QueueTellsTheTruth' /\ QueueIsInOrder' /\ RowsAreOpen' /\ RowsAreForgotten' /\ DownIsEmpty'
  BY <1>1, <1>2 DEF Queued, QueueTellsTheTruth, QueueIsInOrder, RowsAreOpen, RowsAreForgotten, DownIsEmpty
<1>4. UntoldIsUnknown' /\ RowsTellTheTruth'
  BY <1>1, <1>2, TellingFacts DEF UntoldIsUnknown, RowsTellTheTruth, Connected
<1> QED BY <1>3, <1>4 DEF Parts

LEMMA PartsStep == HistoryInv /\ [Next]_vars => Parts'
<1> SUFFICES ASSUME HistoryInv, [Next]_vars PROVE Parts'
  OBVIOUS
<1>1. ASSUME NEW c \in Conns, Opened(c) \/ Closed(c) PROVE Parts'
  BY <1>1, OpenedInv, ClosedInv
<1>2. CASE WriteOpen \/ WriteClose
  BY <1>2, WriteOpenInv, WriteCloseInv
<1>3. CASE SeeDone \/ Return \/ MinutePasses \/ Prune
  BY <1>3, QuietInv DEF SeeDone, Return, MinutePasses, Prune
<1>4. CASE (\E c \in Conns : Age(c)) \/ (\E s \in {"on", "off"} : SetDays(s))
  BY <1>4, QuietInv DEF Age, SetDays
<1>5. CASE Boot \/ Down
  BY <1>5, BootInv, DownInv
<1>6. CASE Stop \/ UNCHANGED vars
  BY <1>6, QuietInv DEF Stop, vars
<1> QED BY <1>1, <1>2, <1>3, <1>4, <1>5, <1>6 DEF Next, WriterStep

LEMMA InvStep == HistoryInv /\ [Next]_vars => HistoryInv'
BY TypeStep, PartsStep DEF HistoryInv, Parts

\* A row of the history belongs to a connection that opened, gives the reason
\* it ended for, and is swept up as stale only when its connection is gone;
\* and the writer keeps no row in memory that it will not be told to forget:
\* for any number of connections, restarts and dropped events (history.go).
THEOREM HistorySafety == Spec => []HistoryInv
BY InitInv, InvStep, PTL DEF Spec

\* An ended row of the history is never written again.
THEOREM HistoryEndsAreFinal == Spec => EndsAreFinal
<1> DEFINE Final == \A c \in Conns : table[c] \notin {"none", "open"} => table'[c] \in {table[c], "deleted"}
<1>1. HistoryInv /\ [Next]_vars => [Final]_vars
  <2> SUFFICES ASSUME HistoryInv, [Next]_vars PROVE [Final]_vars
    OBVIOUS
  <2> USE DEF HistoryInv
  <2>1. CASE WriteOpen
    <3>1. /\ table[events[1].conn] = "none"
          /\ table' = table \/ table' = [table EXCEPT ![events[1].conn] = "open"]
      BY <2>1, TailFacts DEF WriteOpen, QueueTellsTheTruth, EventIsTrue
    <3> QED BY <3>1 DEF TypeOK
  <2>2. CASE WriteClose
    <3>1. \/ table' = table
          \/ /\ table[events[1].conn] = "open"
             /\ \E r : table' = [table EXCEPT ![events[1].conn] = r]
      BY <2>2, TailFacts DEF WriteClose, RowsAreOpen
    <3> QED BY <3>1 DEF TypeOK
  <2>3. CASE Prune \/ Boot
    BY <2>3 DEF Prune, Boot, Pruned, Swept, TypeOK
  <2>4. CASE UNCHANGED table
    BY <2>4 DEF TypeOK
  <2>5. ASSUME NEW c \in Conns, Opened(c) \/ Closed(c) \/ Age(c) PROVE UNCHANGED table
    BY <2>5 DEF Opened, Closed, Age
  <2>6. CASE SeeDone \/ Return \/ MinutePasses \/ Stop \/ Down \/ UNCHANGED vars
    BY <2>6 DEF SeeDone, Return, MinutePasses, Stop, Down, vars
  <2>7. ASSUME NEW s, SetDays(s) PROVE UNCHANGED table
    BY <2>7 DEF SetDays
  <2> QED BY <2>1, <2>2, <2>3, <2>4, <2>5, <2>6, <2>7 DEF Next, WriterStep
<1> QED BY InitInv, InvStep, <1>1, PTL DEF Spec, EndsAreFinal

=============================================================================
