---------------------------- MODULE Services_proof ----------------------------
(***************************************************************************)
(* What holds of the services that run what a table lists, and must run it *)
(* as it is saved there: of the Trunk Recorder feed, for every number of   *)
(* requests and clients and every capacity of the channel; and of          *)
(* forwarding, for every number of targets, admins, calls and generations, *)
(* every capacity of the channels and every number of tries.               *)
(***************************************************************************)
EXTENDS TrMqtt, Forwarding, SequenceTheorems, TLAPS

-----------------------------------------------------------------------------
(* The Trunk Recorder feed.                                                *)

Instance == [state : {"none", "there", "gone"}, v : Nat, on : BOOLEAN]
Request  == [op : Ops \union {"none"},
             pc : {"idle", "insert", "write", "list", "remove", "stop", "add", "read", "start", "delete"},
             row : Instance, client : Nat, passed : BOOLEAN, alone : BOOLEAN]
FeedClient == [v : Nat, life : {"live", "closing", "dead"}, lost : BOOLEAN,
               pc : {"idle", "send", "drop", "retry", "warn"}, n : Nat, alone : BOOLEAN, refused : BOOLEAN]
FeedEvent  == [of : Nat, n : Nat]
Endings    == Ops \union {"none", "start", "cut"}

\* The types.
FeedType ==
  /\ instance \in Instance /\ req \in [Requests -> Request]
  /\ clients \in Seq(FeedClient) /\ map \in Nat /\ map <= Len(clients)
  /\ \A r \in Requests : req[r].client <= Len(clients) /\ (req[r].pc = "stop" => req[r].client # NoClient)
  /\ settled \in [op : Endings, good : BOOLEAN]
  /\ channel \in Seq(FeedEvent) /\ Len(channel) <= Cap
  /\ \A i \in 1..Len(channel) : channel[i].of \in Made
  /\ told \in Seq(Nat) /\ Len(told) = Len(clients)
Bounds ==
  /\ changes \in Nat /\ events \in Nat /\ faults \in Nat
  /\ changes <= MaxChanges /\ changes + events <= MaxWork /\ faults <= MaxFaults

\* A client that finds another in the map has been passed by it, and only
\* then takes it out unstopped.
PassedAreTold ==
  \A r \in Requests : req[r].pc \in {"read", "start"} /\ map # NoClient => req[r].passed = TRUE
Forgetting ==
  \A c \in Made : clients[c].life = "live" => map = c \/ clients[c].lost = TRUE

\* What is there while a request is alone.
Connects(o) == o \in {"patch", "reconnect"} \/ instance.on = TRUE
AloneAt(q) ==
  /\ q.op \in Ops
  /\ q.pc = "insert" => q.op = "create"
  /\ q.pc = "write" => q.op \in {"patch", "restore"}
  /\ q.pc = "list" => q.op = "restore"
  /\ q.pc = "delete" => q.op = "delete"
  /\ q.pc \in {"remove", "stop"} => q.op # "create"
  /\ q.pc \in {"stop", "add", "read", "start", "delete"} => map = NoClient
  /\ q.pc \in {"remove", "stop"} =>
       IF q.op = "restore" THEN q.row.state = instance.state /\ q.row.on = instance.on
       ELSE instance.state = "there"
  /\ q.pc \in {"add", "read", "start"} => instance.state = "there" /\ Connects(q.op)
  /\ q.pc = "start" => q.row = instance
OneAlone ==
  \A r \in Requests : req[r].pc # "idle" /\ req[r].alone = TRUE =>
    /\ \A q \in Requests : req[q].pc # "idle" => q = r
    /\ AloneAt(req[r])

\* Nothing comes before the row; the client in the map runs; and requests are
\* at rest only as they began.
BeforeTheRow ==
  instance.state = "none" =>
    /\ map = NoClient
    /\ \A r \in Requests : req[r].pc # "idle" => req[r].pc = "insert"
Mapped  == map # NoClient => clients[map].life = "live"
AtRest  == \A r \in Requests : req[r].pc = "idle" => req[r] = Idle
AsItSays ==
  IF settled.op = "cut" THEN map = NoClient
  ELSE IF map # NoClient
    THEN instance.state = "there" /\ clients[map].v = instance.v /\ Connects(settled.op)
    ELSE instance.state = "there" => ~Connects(settled.op)
LastStands == (\A r \in Requests : req[r].pc = "idle") /\ settled.good = TRUE => AsItSays

\* The channel.
InOrder ==
  \A i, j \in 1..Len(channel) :
    i < j /\ channel[i].of = channel[j].of /\ channel[i].n # 0 /\ channel[j].n # 0 => channel[i].n < channel[j].n
ToldAreSent == \A c \in Made :
  /\ told[c] <= Sent(c) /\ Sent(c) \in Nat
  /\ \A k \in Waiting(c) : told[c] < k /\ k <= Sent(c)
NewestWait == \A c \in Made : \A k \in Waiting(c) : k..Sent(c) \subseteq Waiting(c) \/ clients[c].refused = TRUE
AloneSending == \A c \in Made :
  clients[c].pc # "idle" /\ clients[c].alone = TRUE =>
    /\ \A d \in Made : clients[d].pc # "idle" => d = c
    /\ clients[c].pc = "retry" => Len(channel) < Cap
    /\ clients[c].pc = "warn" => told[c] = clients[c].n \/ clients[c].n \in Waiting(c)

Meeting  == FeedType /\ PassedAreTold /\ Forgetting /\ OneAlone /\ BeforeTheRow /\ Mapped /\ AtRest /\ LastStands
Sending  == InOrder /\ ToldAreSent /\ NewestWait /\ AloneSending
FeedIInv == Meeting /\ Bounds /\ Sending

-----------------------------------------------------------------------------
(* Requests, one at a time.                                                *)

LEMMA FeedNumbers == Cap \in Nat \ {0} /\ MaxWork \in Nat /\ MaxChanges \in Nat /\ MaxFaults \in Nat
BY TrMqttAssumption DEF TrMqttAssumption

LEMMA IdleType ==
  /\ Unread \in Instance /\ Idle \in Request /\ Idle.pc = "idle" /\ Idle.alone = TRUE
  /\ Idle.client = NoClient /\ Idle.passed = FALSE
BY DEF Unread, Idle, Instance, Request, Ops, NoClient

\* A request goes on: to another step, or to its answer.
LEMMA GoesOn ==
  ASSUME req \in [Requests -> Request], NEW r \in Requests, NEW s \in Request, Go(r, s)
  PROVE  /\ req' \in [Requests -> Request] /\ req'[r] = s
         /\ \A q \in Requests : q # r => req'[q] = req[q]
BY DEF Go

LEMMA ReachesStep ==
  ASSUME req \in [Requests -> Request], NEW r \in Requests,
         NEW pc \in {"remove", "stop", "add", "read", "start", "delete", "list"}, On(r, pc)
  PROVE  /\ req' \in [Requests -> Request]
         /\ req'[r].pc = pc /\ req'[r].op = req[r].op /\ req'[r].alone = req[r].alone
         /\ req'[r].passed = req[r].passed /\ req'[r].client = NoClient /\ req'[r].row = Unread
         /\ \A q \in Requests : q # r => req'[q] = req[q]
         /\ settled' = settled
<1> DEFINE s == [req[r] EXCEPT !.pc = pc, !.row = Unread, !.client = NoClient]
<1>1. req[r] \in Request
  OBVIOUS
<1>2. /\ s \in Request /\ s.pc = pc /\ s.op = req[r].op /\ s.alone = req[r].alone
      /\ s.passed = req[r].passed /\ s.client = NoClient /\ s.row = Unread
  BY <1>1, IdleType DEF Request, NoClient
<1>3. Go(r, s) /\ settled' = settled
  BY DEF On, To
<1> HIDE DEF s
<1> QED BY <1>2, <1>3, GoesOn

LEMMA Answers ==
  ASSUME FeedType, NEW r \in Requests, NEW good \in BOOLEAN, End(r, good)
  PROVE  /\ req' \in [Requests -> Request] /\ req'[r] = Idle
         /\ \A q \in Requests : q # r => req'[q] = req[q]
         /\ settled' \in [op : Endings, good : BOOLEAN]
         /\ settled'.op = req[r].op /\ settled'.good = (good /\ req[r].alone)
<1> DEFINE s == [op |-> req[r].op, good |-> good /\ req[r].alone]
<1>1. req[r] \in Request
  BY DEF FeedType
<1>2. s \in [op : Endings, good : BOOLEAN] /\ s.op = req[r].op /\ s.good = (good /\ req[r].alone)
  BY <1>1 DEF Request, Endings
<1>3. settled' = s /\ Go(r, Idle)
  BY DEF End
<1> HIDE DEF s
<1> QED BY <1>2, <1>3, GoesOn, IdleType DEF FeedType

LEMMA CutAnswers ==
  ASSUME FeedType, NEW r \in Requests, Cut(r)
  PROVE  /\ req' \in [Requests -> Request] /\ req'[r] = Idle
         /\ \A q \in Requests : q # r => req'[q] = req[q]
         /\ settled' \in [op : Endings, good : BOOLEAN]
         /\ settled'.op = "cut" /\ settled'.good = req[r].alone
<1> DEFINE s == [op |-> "cut", good |-> req[r].alone]
<1>1. req[r] \in Request
  BY DEF FeedType
<1>2. s \in [op : Endings, good : BOOLEAN] /\ s.op = "cut" /\ s.good = req[r].alone
  BY <1>1 DEF Request, Endings
<1>3. settled' = s /\ Go(r, Idle)
  BY DEF Cut
<1> HIDE DEF s
<1> QED BY <1>2, <1>3, GoesOn, IdleType DEF FeedType

\* What follows from one request going on, whatever it does.
LEMMA OneMoves ==
  ASSUME FeedType, OneAlone, BeforeTheRow, AtRest, NEW r \in Requests, req[r].pc # "idle",
         \A q \in Requests : q # r => /\ req'[q].pc = req[q].pc /\ req'[q].alone = req[q].alone
                                      /\ req[q].pc = "idle" => req'[q] = req[q],
         req'[r] = Idle \/ (req'[r].pc # "idle" /\ req'[r].alone = req[r].alone),
         req'[r].pc # "idle" /\ req[r].alone = TRUE => AloneAt(req[r])',
         instance'.state = "none" => instance.state = "none" /\ map' = NoClient /\ req'[r].pc = "idle",
         req'[r].pc = "idle" /\ settled'.good = TRUE => AsItSays'
  PROVE  OneAlone' /\ BeforeTheRow' /\ AtRest' /\ LastStands'
<1>1. OneAlone'
  <2> SUFFICES ASSUME NEW q \in Requests, req'[q].pc # "idle", req'[q].alone = TRUE
               PROVE  (\A p \in Requests : req'[p].pc # "idle" => p = q) /\ AloneAt(req[q])'
    BY DEF OneAlone
  <2>1. q = r
    BY IdleType DEF OneAlone
  <2>2. req[r].alone = TRUE
    BY <2>1, IdleType
  <2>3. \A p \in Requests : req'[p].pc # "idle" => p = r
    BY <2>2 DEF OneAlone
  <2> QED BY <2>1, <2>2, <2>3
<1>2. BeforeTheRow'
  BY IdleType DEF BeforeTheRow
<1>3. AtRest'
  BY IdleType DEF AtRest
<1>4. LastStands'
  BY DEF LastStands
<1> QED BY <1>1, <1>2, <1>3, <1>4

\* What follows when the clients are left alone.
LEMMA ClientsStay ==
  ASSUME FeedType, PassedAreTold, Forgetting, Mapped, clients' = clients, map' = map,
         \A q \in Requests : req'[q].pc \in {"read", "start"} /\ map # NoClient =>
           req[q].pc \in {"read", "start"} /\ req'[q].passed = req[q].passed
  PROVE  PassedAreTold' /\ Forgetting' /\ Mapped'
<1>1. PassedAreTold'
  BY DEF PassedAreTold
<1>2. Forgetting' /\ Mapped'
  BY DEF Forgetting, Mapped, Made
<1> QED BY <1>1, <1>2

LEMMA AloneNow ==
  ASSUME OneAlone, NEW r \in Requests, req[r].pc # "idle", req[r].alone = TRUE
  PROVE  AloneAt(req[r])
BY DEF OneAlone

\* A request that only reads or writes the row.
LEMMA PlainStep ==
  ASSUME Meeting, NEW r \in Requests, req[r].pc # "idle",
         clients' = clients, map' = map, feed' = feed,
         instance' \in Instance, settled' \in [op : Endings, good : BOOLEAN],
         req' \in [Requests -> Request],
         \A q \in Requests : q # r => req'[q] = req[q],
         req'[r] = Idle \/ (req'[r].pc \notin {"idle", "stop"} /\ req'[r].client \in {NoClient, req[r].client}
                              /\ req'[r].alone = req[r].alone),
         req'[r].pc \in {"read", "start"} /\ map # NoClient =>
           req[r].pc \in {"read", "start"} /\ req'[r].passed = req[r].passed,
         req'[r].pc # "idle" /\ req[r].alone = TRUE => AloneAt(req[r])',
         instance'.state = "none" => instance.state = "none" /\ map' = NoClient /\ req'[r].pc = "idle",
         req'[r].pc = "idle" /\ settled'.good = TRUE => AsItSays'
  PROVE  Meeting'
<1>1. FeedType'
  <2>1. channel' = channel /\ told' = told
    BY DEF feed
  <2>2. \A q \in Requests : req'[q].client <= Len(clients) /\ (req'[q].pc = "stop" => req'[q].client # NoClient)
    BY IdleType DEF Meeting, FeedType, NoClient
  <2> QED BY <2>1, <2>2 DEF Meeting, FeedType, Made
<1>2. PassedAreTold' /\ Forgetting' /\ Mapped'
  BY ClientsStay DEF Meeting
<1>3. OneAlone' /\ BeforeTheRow' /\ AtRest' /\ LastStands'
  BY OneMoves DEF Meeting
<1> QED BY <1>1, <1>2, <1>3 DEF Meeting

LEMMA RowTypes ==
  ASSUME instance \in Instance
  PROVE  /\ \A on \in BOOLEAN : /\ Inserted(on) \in Instance
                                /\ Inserted(on).state = "there" /\ Inserted(on).on = on
         /\ \A v \in Nat : \A on \in BOOLEAN : Written(v, on) \in Instance /\ Written(v, on).state = "there"
         /\ Deleted \in Instance /\ Deleted.state = "gone"
BY DEF Inserted, Written, Deleted, Instance

LEMMA OnStep ==
  ASSUME Meeting, NEW r \in Requests, req[r].pc # "idle",
         clients' = clients, map' = map, feed' = feed, instance' \in Instance, instance'.state # "none",
         NEW pc \in {"remove", "add", "delete", "list"}, On(r, pc),
         req[r].alone = TRUE /\ req'[r].pc = pc /\ req'[r].op = req[r].op => AloneAt(req[r])'
  PROVE  Meeting'
<1>1. /\ req' \in [Requests -> Request]
      /\ req'[r].pc = pc /\ req'[r].op = req[r].op /\ req'[r].alone = req[r].alone
      /\ req'[r].client = NoClient
      /\ \A q \in Requests : q # r => req'[q] = req[q]
      /\ settled' = settled
  BY ReachesStep DEF Meeting, FeedType
<1>2. settled' \in [op : Endings, good : BOOLEAN]
  BY <1>1 DEF Meeting, FeedType
<1>3. req'[r].pc \notin {"idle", "stop", "read", "start"}
  BY <1>1
<1> QED BY <1>1, <1>2, <1>3, PlainStep

LEMMA EndStep ==
  ASSUME Meeting, NEW r \in Requests, req[r].pc # "idle",
         clients' = clients, map' = map, feed' = feed, instance' \in Instance,
         instance'.state = "none" => instance.state = "none",
         NEW good \in BOOLEAN, End(r, good),
         req[r].alone = TRUE /\ good = TRUE /\ settled'.op = req[r].op => AsItSays'
  PROVE  Meeting'
<1>1. /\ req' \in [Requests -> Request] /\ req'[r] = Idle
      /\ \A q \in Requests : q # r => req'[q] = req[q]
      /\ settled' \in [op : Endings, good : BOOLEAN]
      /\ settled'.op = req[r].op
      /\ settled'.good = TRUE => good = TRUE /\ req[r].alone = TRUE
  BY Answers DEF Meeting
<1>2. instance'.state = "none" => map' = NoClient
  BY DEF Meeting, BeforeTheRow
<1> QED BY <1>1, <1>2, IdleType, PlainStep

LEMMA CreateMeets ==
  ASSUME Meeting, NEW r \in Requests, CreateInstance(r)
  PROVE  Meeting'
<1>0. req[r].pc = "insert" /\ clients' = clients /\ map' = map /\ feed' = feed /\ instance \in Instance
  BY DEF CreateInstance, At, Meeting, FeedType
<1>1. CASE instance.state = "none"
  <2>1. PICK on \in BOOLEAN : instance' = Inserted(on) /\ IF on THEN On(r, "add") ELSE End(r, TRUE)
    BY <1>1 DEF CreateInstance
  <2>2. instance' \in Instance /\ instance'.state = "there" /\ instance'.on = on /\ map' = NoClient
    BY <2>1, <1>0, <1>1, RowTypes DEF Meeting, BeforeTheRow
  <2>3. req[r].alone = TRUE => req[r].op = "create"
    BY <1>0, AloneNow DEF Meeting, AloneAt
  <2>4. CASE on
    <3>1. req[r].alone = TRUE /\ req'[r].pc = "add" /\ req'[r].op = req[r].op => AloneAt(req[r])'
      BY <2>2, <2>3, <2>4 DEF AloneAt, Connects, Ops
    <3> QED BY <1>0, <2>1, <2>2, <2>4, <3>1, OnStep
  <2>5. CASE ~on
    <3>1. req[r].alone = TRUE /\ settled'.op = req[r].op => AsItSays'
      BY <2>2, <2>3, <2>5 DEF AsItSays, Connects
    <3> QED BY <1>0, <2>1, <2>2, <2>5, <3>1, EndStep
  <2> QED BY <2>4, <2>5
<1>2. CASE instance.state # "none"
  <2>1. End(r, FALSE) /\ instance' = instance
    BY <1>2 DEF CreateInstance
  <2> QED BY <1>0, <2>1, EndStep
<1> QED BY <1>1, <1>2

LEMMA UpdateMeets ==
  ASSUME Meeting, NEW r \in Requests, UpdateInstance(r)
  PROVE  Meeting'
<1>0. /\ req[r].pc = "write" /\ req[r].op = "patch" /\ clients' = clients /\ map' = map /\ feed' = feed
      /\ instance \in Instance /\ req[r] \in Request
  BY DEF UpdateInstance, At, Meeting, FeedType
<1>1. CASE instance.state = "there"
  <2>1. PICK new \in {Written(instance.v + 1, req[r].row.on), Written(req[r].row.v, ~req[r].row.on)} :
          instance' = new /\ On(r, "remove")
    BY <1>1 DEF UpdateInstance
  <2>2. req[r].row.v \in Nat /\ req[r].row.on \in BOOLEAN /\ instance.v + 1 \in Nat
    BY <1>0 DEF Request, Instance
  <2>3. instance' \in Instance /\ instance'.state = "there"
    BY <1>0, <2>1, <2>2, RowTypes
  <2>4. req'[r].pc = "remove" /\ req'[r].op = req[r].op => AloneAt(req[r])'
    BY <1>0, <2>3 DEF AloneAt, Ops
  <2> QED BY <1>0, <2>1, <2>3, <2>4, OnStep
<1>2. CASE instance.state # "there"
  <2>1. End(r, FALSE) /\ instance' = instance
    BY <1>2 DEF UpdateInstance
  <2> QED BY <1>0, <2>1, EndStep
<1> QED BY <1>1, <1>2

LEMMA RestoreMeets ==
  ASSUME Meeting, NEW r \in Requests, Restore(r)
  PROVE  Meeting'
<1>0. /\ req[r].pc = "write" /\ req[r].op = "restore" /\ clients' = clients /\ map' = map /\ feed' = feed
      /\ instance \in Instance /\ On(r, "list")
  BY DEF Restore, At, Meeting, FeedType
<1>1. req'[r].pc = "list" /\ req'[r].op = req[r].op => AloneAt(req[r])'
  BY <1>0 DEF AloneAt, Ops
<1>2. instance' \in Instance /\ instance'.state # "none"
  <2>1. CASE instance.state = "there"
    <3>1. PICK new \in {Written(instance.v + 1, b) : b \in BOOLEAN} \union {Deleted} : instance' = new
      BY <2>1 DEF Restore
    <3>2. instance.v + 1 \in Nat
      BY <1>0 DEF Instance
    <3> QED BY <1>0, <3>1, <3>2, RowTypes
  <2>2. CASE instance.state # "there"
    <3>1. instance' = instance
      BY <2>2 DEF Restore
    <3>2. instance.state # "none"
      BY <1>0 DEF Meeting, BeforeTheRow
    <3> QED BY <1>0, <3>1, <3>2
  <2> QED BY <2>1, <2>2
<1> QED BY <1>0, <1>1, <1>2, OnStep

LEMMA SyncMeets ==
  ASSUME Meeting, NEW r \in Requests, Sync(r)
  PROVE  Meeting'
<1> DEFINE s == [req[r] EXCEPT !.pc = "remove", !.row = [instance EXCEPT !.v = 0]]
<1>0. /\ req[r].pc = "list" /\ clients' = clients /\ map' = map /\ feed' = feed /\ instance' = instance
      /\ instance \in Instance /\ req[r] \in Request /\ Go(r, s) /\ settled' = settled
      /\ settled \in [op : Endings, good : BOOLEAN]
  BY DEF Sync, At, Meeting, FeedType
<1>1. [instance EXCEPT !.v = 0] \in Instance /\ [instance EXCEPT !.v = 0].state = instance.state
      /\ [instance EXCEPT !.v = 0].on = instance.on
  BY <1>0 DEF Instance
<1>2. /\ s \in Request /\ s.pc = "remove" /\ s.op = req[r].op /\ s.alone = req[r].alone
      /\ s.client = req[r].client /\ s.row.state = instance.state /\ s.row.on = instance.on
  BY <1>0, <1>1 DEF Request
<1>3. instance.state # "none"
  BY <1>0 DEF Meeting, BeforeTheRow
<1> HIDE DEF s
<1>4. /\ req' \in [Requests -> Request] /\ req'[r] = s
      /\ \A q \in Requests : q # r => req'[q] = req[q]
  BY <1>0, <1>2, GoesOn DEF Meeting, FeedType
<1>5. req[r].alone = TRUE => AloneAt(req[r])'
  <2> SUFFICES ASSUME req[r].alone = TRUE PROVE AloneAt(req[r])'
    OBVIOUS
  <2>1. AloneAt(req[r])
    BY <1>0, AloneNow DEF Meeting
  <2> QED BY <1>0, <1>2, <1>4, <2>1 DEF AloneAt, Ops
<1> QED BY <1>0, <1>2, <1>3, <1>4, <1>5, PlainStep

LEMMA DeleteMeets ==
  ASSUME Meeting, NEW r \in Requests, DeleteInstance(r)
  PROVE  Meeting'
<1>0. /\ req[r].pc = "delete" /\ clients' = clients /\ map' = map /\ feed' = feed
      /\ instance' = Deleted /\ instance \in Instance /\ End(r, TRUE)
  BY DEF DeleteInstance, At, Meeting, FeedType
<1>1. instance' \in Instance /\ instance'.state = "gone"
  BY <1>0, RowTypes
<1>2. req[r].alone = TRUE => AsItSays'
  BY <1>0, <1>1, AloneNow DEF AsItSays, AloneAt, Meeting
<1> QED BY <1>0, <1>1, <1>2, EndStep

LEMMA FailMeets ==
  ASSUME Meeting, NEW r \in Requests, Fail(r)
  PROVE  Meeting'
<1>0. /\ req[r].pc # "idle" /\ clients' = clients /\ map' = map /\ feed' = feed
      /\ instance' = instance /\ instance \in Instance /\ End(r, FALSE)
  BY DEF Fail, Meeting, FeedType
<1> QED BY <1>0, EndStep

-----------------------------------------------------------------------------
(* The manager's part of a request.                                        *)

\* After Remove, nobody is in the map while the request is alone.
LEMMA RemovedMeets ==
  ASSUME Meeting, NEW r \in Requests, req[r].pc \in {"remove", "stop"},
         req[r].alone = TRUE => map = NoClient,
         UNCHANGED <<instance, clients, map, feed>>, NEW ok \in BOOLEAN, Removed(r, ok)
  PROVE  Meeting'
<1>0. /\ instance' = instance /\ clients' = clients /\ map' = map /\ feed' = feed
      /\ instance \in Instance /\ req[r] \in Request
  BY DEF Meeting, FeedType
<1>1. instance.state # "none"
  BY DEF Meeting, BeforeTheRow
<1>2. ASSUME req[r].alone = TRUE
      PROVE  /\ req[r].op \in Ops \ {"create"} /\ map' = NoClient
             /\ IF req[r].op = "restore" THEN req[r].row.state = instance.state /\ req[r].row.on = instance.on
                ELSE instance.state = "there"
  <2>1. AloneAt(req[r])
    BY <1>2, AloneNow DEF Meeting
  <2> QED BY <1>0, <1>2, <2>1 DEF AloneAt
<1>3. CASE req[r].op = "delete"
  <2>1. On(r, "delete")
    BY <1>3 DEF Removed, Updating
  <2>2. req[r].alone = TRUE /\ req'[r].pc = "delete" /\ req'[r].op = req[r].op => AloneAt(req[r])'
    BY <1>2, <1>3 DEF AloneAt
  <2> QED BY <1>0, <1>1, <2>1, <2>2, OnStep
<1>4. CASE req[r].op # "delete" /\ Updating(r) /\ ok
  <2>1. On(r, "add")
    BY <1>4 DEF Removed
  <2>2. req[r].alone = TRUE /\ req'[r].pc = "add" /\ req'[r].op = req[r].op => AloneAt(req[r])'
    <3> SUFFICES ASSUME req[r].alone = TRUE, req'[r].pc = "add", req'[r].op = req[r].op PROVE AloneAt(req[r])'
      OBVIOUS
    <3>1. instance'.state = "there" /\ Connects(req[r].op)'
      BY <1>0, <1>2, <1>4 DEF Updating, Connects, Instance, Request
    <3> QED BY <1>2, <3>1 DEF AloneAt, Connects
  <2> QED BY <1>0, <1>1, <2>1, <2>2, OnStep
<1>5. CASE req[r].op # "delete" /\ ~Updating(r) /\ ok
  <2>1. End(r, TRUE)
    BY <1>5 DEF Removed
  <2>2. req[r].alone = TRUE /\ settled'.op = req[r].op => AsItSays'
    <3> SUFFICES ASSUME req[r].alone = TRUE, settled'.op = req[r].op PROVE AsItSays'
      OBVIOUS
    <3>1. req[r].op = "restore" /\ ~(instance.state = "there" /\ instance.on = TRUE)
      BY <1>0, <1>2, <1>5 DEF Updating, Ops, Instance
    <3> QED BY <1>0, <1>2, <3>1 DEF AsItSays, Connects
  <2> QED BY <1>0, <1>1, <2>1, <2>2, EndStep
<1>6. CASE req[r].op # "delete" /\ ~ok
  <2>1. Cut(r)
    BY <1>6 DEF Removed
  <2>2. /\ req' \in [Requests -> Request] /\ req'[r] = Idle
        /\ \A q \in Requests : q # r => req'[q] = req[q]
        /\ settled' \in [op : Endings, good : BOOLEAN]
        /\ settled'.op = "cut" /\ settled'.good = req[r].alone
    BY <2>1, CutAnswers DEF Meeting
  <2>3. settled'.good = TRUE => AsItSays'
    BY <1>2, <2>2 DEF AsItSays
  <2>4. instance'.state # "none" /\ req[r].pc # "idle" /\ instance' \in Instance
    BY <1>0, <1>1
  <2> QED BY <1>0, <2>2, <2>3, <2>4, IdleType, PlainStep
<1> QED BY <1>3, <1>4, <1>5, <1>6

LEMMA StopMeets ==
  ASSUME Meeting, NEW r \in Requests, StopClient(r)
  PROVE  Meeting'
<1>1. req[r].pc = "stop" /\ UNCHANGED <<instance, clients, map, feed>>
  BY DEF StopClient, At
<1>2. req[r].alone = TRUE => map = NoClient
  BY <1>1, AloneNow DEF Meeting, AloneAt
<1>3. Removed(r, TRUE) \/ Removed(r, FALSE)
  BY DEF StopClient
<1> QED BY <1>1, <1>2, <1>3, RemovedMeets

LEMMA AddMeets ==
  ASSUME Meeting, NEW r \in Requests, Add(r)
  PROVE  Meeting'
<1>0. /\ req[r].pc = "add" /\ instance' = instance /\ clients' = clients /\ map' = map /\ feed' = feed
      /\ instance \in Instance /\ req[r] \in Request
      /\ settled \in [op : Endings, good : BOOLEAN]
  BY DEF Add, At, Meeting, FeedType
<1>1. instance.state # "none"
  BY <1>0 DEF Meeting, BeforeTheRow
<1>2. req[r].alone = TRUE => AloneAt(req[r])
  BY <1>0, AloneNow DEF Meeting
<1>3. CASE map # NoClient
  <2>1. End(r, TRUE)
    BY <1>3 DEF Add
  <2>2. req[r].alone # TRUE
    BY <1>0, <1>2, <1>3 DEF AloneAt
  <2> QED BY <1>0, <2>1, <2>2, EndStep
<1>4. CASE map = NoClient
  <2> DEFINE s == [req[r] EXCEPT !.pc = "read"]
  <2>1. Go(r, s) /\ settled' = settled
    BY <1>4 DEF Add
  <2>2. /\ s \in Request /\ s.pc = "read" /\ s.op = req[r].op /\ s.alone = req[r].alone /\ s.client = req[r].client
    BY <1>0 DEF Request
  <2> HIDE DEF s
  <2>3. /\ req' \in [Requests -> Request] /\ req'[r] = s
        /\ \A q \in Requests : q # r => req'[q] = req[q]
    BY <2>1, <2>2, GoesOn DEF Meeting, FeedType
  <2>4. req[r].alone = TRUE => AloneAt(req[r])'
    BY <1>0, <1>2, <2>2, <2>3 DEF AloneAt, Connects
  <2> QED BY <1>0, <1>1, <1>4, <2>1, <2>2, <2>3, <2>4, PlainStep
<1> QED BY <1>3, <1>4

LEMMA ReadMeets ==
  ASSUME Meeting, NEW r \in Requests, ReadRow(r)
  PROVE  Meeting'
<1>0. /\ req[r].pc = "read" /\ instance' = instance /\ clients' = clients /\ map' = map /\ feed' = feed
      /\ instance \in Instance /\ req[r] \in Request
      /\ settled \in [op : Endings, good : BOOLEAN]
  BY DEF ReadRow, At, Meeting, FeedType
<1>2. req[r].alone = TRUE => AloneAt(req[r])
  BY <1>0, AloneNow DEF Meeting
<1>3. CASE instance.state # "there"
  <2>1. End(r, FALSE)
    BY <1>3 DEF ReadRow
  <2> QED BY <1>0, <2>1, EndStep
<1>4. CASE instance.state = "there"
  <2> DEFINE s == [req[r] EXCEPT !.pc = "start", !.row = instance]
  <2>1. Go(r, s) /\ settled' = settled
    BY <1>4 DEF ReadRow
  <2>2. /\ s \in Request /\ s.pc = "start" /\ s.op = req[r].op /\ s.alone = req[r].alone /\ s.client = req[r].client
        /\ s.row = instance /\ s.passed = req[r].passed
    BY <1>0 DEF Request
  <2> HIDE DEF s
  <2>3. /\ req' \in [Requests -> Request] /\ req'[r] = s
        /\ \A q \in Requests : q # r => req'[q] = req[q]
    BY <2>1, <2>2, GoesOn DEF Meeting, FeedType
  <2>4. req[r].alone = TRUE => AloneAt(req[r])'
    BY <1>0, <1>2, <2>2, <2>3 DEF AloneAt, Connects
  <2> QED BY <1>0, <1>4, <2>1, <2>2, <2>3, <2>4, PlainStep
<1> QED BY <1>3, <1>4

\* What a client is to the events it sends.
Sends(s, t) == s.pc = t.pc /\ s.n = t.n /\ s.alone = t.alone /\ s.refused = t.refused
NewSender(s) == s.pc = "idle" /\ s.n = 0 /\ s.alone = TRUE /\ s.refused = FALSE

LEMMA ClientType == \A v \in Nat : Client(v) \in FeedClient /\ Client(v).life = "live" /\ Client(v).v = v /\ NewSender(Client(v))
BY DEF Client, FeedClient, NewSender

LEMMA Put ==
  ASSUME NEW S \in Seq(FeedClient), NEW m \in 1..Len(S), NEW u \in FeedClient
  PROVE  /\ [S EXCEPT ![m] = u] \in Seq(FeedClient) /\ Len([S EXCEPT ![m] = u]) = Len(S)
         /\ \A c \in 1..Len(S) : [S EXCEPT ![m] = u][c] = IF c = m THEN u ELSE S[c]
BY ExceptSeq

LEMMA Appended ==
  ASSUME NEW A, NEW s \in Seq(A), NEW e \in A
  PROVE  /\ Append(s, e) \in Seq(A) /\ Len(Append(s, e)) = Len(s) + 1
         /\ \A c \in 1..Len(s) : Append(s, e)[c] = s[c]
         /\ Append(s, e)[Len(s) + 1] = e
BY AppendProperties

ClosedIn(S, m) == [S EXCEPT ![m].life = "closing", ![m].v = 0]

LEMMA ClosingClient ==
  ASSUME NEW S \in Seq(FeedClient), NEW m \in 1..Len(S), NEW T, T = ClosedIn(S, m)
  PROVE  /\ T \in Seq(FeedClient) /\ Len(T) = Len(S)
         /\ T[m].life = "closing" /\ Sends(T[m], S[m])
         /\ \A c \in 1..Len(S) : c # m => T[c] = S[c]
<1> DEFINE u == [S[m] EXCEPT !.life = "closing", !.v = 0]
<1>1. S[m] \in FeedClient
  OBVIOUS
<1>2. u \in FeedClient /\ u.life = "closing" /\ Sends(u, S[m])
  BY <1>1 DEF FeedClient, Sends
<1>3. T = [S EXCEPT ![m] = u]
  BY DEF ClosedIn
<1> HIDE DEF u
<1>4. /\ T \in Seq(FeedClient) /\ Len(T) = Len(S)
      /\ \A c \in 1..Len(S) : T[c] = IF c = m THEN u ELSE S[c]
  <2>1. /\ [S EXCEPT ![m] = u] \in Seq(FeedClient) /\ Len([S EXCEPT ![m] = u]) = Len(S)
        /\ \A c \in 1..Len(S) : [S EXCEPT ![m] = u][c] = IF c = m THEN u ELSE S[c]
    BY <1>2, Put
  <2> QED BY <1>3, <2>1
<1> QED BY <1>2, <1>4

Lost(S, m, b) == [c \in 1..Len(S) |-> IF c = m THEN [S[c] EXCEPT !.lost = b] ELSE S[c]]

\* T is S with a new client.
OneMore(T, S, m, b, v) ==
  /\ T \in Seq(FeedClient) /\ Len(T) = Len(S) + 1
  /\ T[Len(S) + 1].life = "live" /\ T[Len(S) + 1].v = v /\ NewSender(T[Len(S) + 1])
  /\ \A c \in 1..Len(S) : /\ Sends(T[c], S[c]) /\ T[c].life = S[c].life
                          /\ c # m => T[c].lost = S[c].lost
                          /\ c = m => T[c].lost = b

LEMMA StartedClient ==
  ASSUME NEW S \in Seq(FeedClient), NEW m \in Nat, NEW b \in BOOLEAN, NEW v \in Nat
  PROVE  OneMore(Append(Lost(S, m, b), Client(v)), S, m, b, v)
<1> DEFINE T == Append(Lost(S, m, b), Client(v))
<1> DEFINE F == [c \in 1..Len(S) |-> IF c = m THEN [S[c] EXCEPT !.lost = b] ELSE S[c]]
<1>1. \A s \in FeedClient : LET u == [s EXCEPT !.lost = b] IN
        u \in FeedClient /\ u.lost = b /\ u.life = s.life /\ Sends(u, s)
  BY DEF FeedClient, Sends
<1>2. \A c \in 1..Len(S) : S[c] \in FeedClient
  OBVIOUS
<1>3. \A c \in 1..Len(S) : F[c] = IF c = m THEN [S[c] EXCEPT !.lost = b] ELSE S[c]
  OBVIOUS
<1>4. \A c \in 1..Len(S) : /\ F[c] \in FeedClient /\ Sends(F[c], S[c]) /\ F[c].life = S[c].life
                           /\ c # m => F[c].lost = S[c].lost
                           /\ c = m => F[c].lost = b
  BY <1>1, <1>2, <1>3 DEF Sends
<1>5. Len(S) \in Nat
  OBVIOUS
<1>6. F \in [1..Len(S) -> FeedClient]
  BY <1>4
<1> HIDE DEF F
<1>7. F \in Seq(FeedClient) /\ Len(F) = Len(S)
  BY <1>5, <1>6, LenProperties
<1>8. Client(v) \in FeedClient
  BY ClientType
<1>9. T = Append(F, Client(v))
  BY DEF F, T, Lost
<1>10. /\ T \in Seq(FeedClient) /\ Len(T) = Len(S) + 1 /\ T[Len(S) + 1] = Client(v)
       /\ \A c \in 1..Len(S) : T[c] = F[c]
  <2>1. /\ Append(F, Client(v)) \in Seq(FeedClient) /\ Len(Append(F, Client(v))) = Len(F) + 1
        /\ \A c \in 1..Len(F) : Append(F, Client(v))[c] = F[c]
        /\ Append(F, Client(v))[Len(F) + 1] = Client(v)
    BY <1>7, <1>8, Appended
  <2> QED BY <1>7, <1>9, <2>1
<1> HIDE DEF T
<1>11. OneMore(T, S, m, b, v)
  BY <1>4, <1>10, ClientType DEF OneMore
<1> QED BY <1>11 DEF T

\* A request takes the client out of the map.
LEMMA RemoveMeets ==
  ASSUME Meeting, NEW r \in Requests, RemoveClient(r)
  PROVE  Meeting'
<1>0. /\ req[r].pc = "remove" /\ instance' = instance /\ feed' = feed /\ map' = NoClient
      /\ instance \in Instance /\ req[r] \in Request /\ map \in Nat /\ map <= Len(clients)
      /\ clients \in Seq(FeedClient)
  BY DEF RemoveClient, At, Meeting, FeedType
<1>1. CASE map = NoClient
  <2>1. Removed(r, TRUE) /\ clients' = clients
    BY <1>1 DEF RemoveClient
  <2> QED BY <1>0, <1>1, <2>1, RemovedMeets
<1>2. CASE map # NoClient
  <2> DEFINE s == [req[r] EXCEPT !.pc = "stop", !.client = map]
  <2>1. /\ Go(r, s) /\ settled' = settled
        /\ clients' = ClosedIn(clients, map)
    BY <1>2 DEF RemoveClient, ClosedIn
  <2>2. /\ s \in Request /\ s.pc = "stop" /\ s.op = req[r].op /\ s.alone = req[r].alone
        /\ s.client = map /\ s.row = req[r].row
    BY <1>0 DEF Request
  <2> HIDE DEF s
  <2>3. /\ req' \in [Requests -> Request] /\ req'[r] = s
        /\ \A q \in Requests : q # r => req'[q] = req[q]
    BY <2>1, <2>2, GoesOn DEF Meeting, FeedType
  <2>4. map \in 1..Len(clients)
    BY <1>0, <1>2 DEF NoClient
  <2>5. /\ clients' \in Seq(FeedClient) /\ Len(clients') = Len(clients)
        /\ clients'[map].life = "closing"
        /\ \A c \in 1..Len(clients) : c # map => clients'[c] = clients[c]
    BY <1>0, <2>1, <2>4, ClosingClient
  <2>6. FeedType'
    <3>1. channel' = channel /\ told' = told /\ map' \in Nat /\ map' <= Len(clients')
      BY <1>0, <2>5 DEF feed, NoClient
    <3>2. \A q \in Requests : req'[q].client <= Len(clients') /\ (req'[q].pc = "stop" => req'[q].client # NoClient)
      BY <1>0, <1>2, <2>2, <2>3, <2>5 DEF Meeting, FeedType
    <3> QED BY <1>0, <2>1, <2>3, <2>5, <3>1, <3>2 DEF Meeting, FeedType, Made
  <2>7. PassedAreTold' /\ Mapped'
    BY <1>0 DEF PassedAreTold, Mapped
  <2>8. Forgetting'
    BY <2>5 DEF Forgetting, Meeting, Made
  <2>9. req[r].alone = TRUE => AloneAt(req[r])'
    <3> SUFFICES ASSUME req[r].alone = TRUE PROVE AloneAt(req[r])'
      OBVIOUS
    <3>1. AloneAt(req[r])
      BY <1>0, AloneNow DEF Meeting
    <3> QED BY <1>0, <2>2, <2>3, <3>1 DEF AloneAt
  <2>10. instance.state # "none"
    BY <1>0 DEF Meeting, BeforeTheRow
  <2>11. OneAlone' /\ BeforeTheRow' /\ AtRest' /\ LastStands'
    BY <1>0, <2>2, <2>3, <2>9, <2>10, OneMoves DEF Meeting
  <2> QED BY <2>6, <2>7, <2>8, <2>11 DEF Meeting
<1> QED BY <1>1, <1>2

\* A request puts its client there.
LEMMA StartMeets ==
  ASSUME Meeting, NEW r \in Requests, StartClient(r)
  PROVE  Meeting'
<1>0. /\ req[r].pc = "start" /\ instance' = instance /\ channel' = channel /\ told' = Append(told, 0)
      /\ map' = Len(clients')
      /\ instance \in Instance /\ req[r] \in Request /\ map \in Nat /\ map <= Len(clients)
      /\ clients \in Seq(FeedClient) /\ req \in [Requests -> Request]
      /\ told \in Seq(Nat) /\ Len(told) = Len(clients)
  BY DEF StartClient, At, Meeting, FeedType
<1>1. req[r].row.v \in Nat /\ req[r].passed \in BOOLEAN /\ req[r].op \in Ops \union {"none"} /\ req[r].alone \in BOOLEAN
  BY <1>0 DEF Request, Instance
<1>2. clients' = Append(Lost(clients, map, req[r].passed), Client(req[r].row.v))
  BY DEF StartClient, Made, Lost
<1>3. /\ clients' \in Seq(FeedClient) /\ Len(clients') = Len(clients) + 1
      /\ clients'[Len(clients) + 1].life = "live" /\ clients'[Len(clients) + 1].v = req[r].row.v
      /\ \A c \in 1..Len(clients) : /\ clients'[c].life = clients[c].life
                                    /\ c # map => clients'[c].lost = clients[c].lost
                                    /\ c = map => clients'[c].lost = req[r].passed
  <2>1. OneMore(clients', clients, map, req[r].passed, req[r].row.v)
    BY <1>0, <1>1, <1>2, StartedClient
  <2> QED BY <2>1 DEF OneMore
<1>4. \A q \in Requests : req'[q] = IF q = r THEN Idle
                                    ELSE IF req[q].pc \in {"read", "start"} THEN [req[q] EXCEPT !.passed = TRUE] ELSE req[q]
  BY DEF StartClient, At
<1>6. \A q \in Requests : q # r =>
        /\ req'[q] \in Request /\ req'[q].pc = req[q].pc /\ req'[q].alone = req[q].alone /\ req'[q].client = req[q].client
        /\ req[q].pc \in {"read", "start"} => req'[q].passed = TRUE
        /\ req[q].pc = "idle" => req'[q] = req[q]
  <2> SUFFICES ASSUME NEW q \in Requests, q # r
               PROVE  /\ req'[q] \in Request /\ req'[q].pc = req[q].pc /\ req'[q].alone = req[q].alone
                      /\ req'[q].client = req[q].client
                      /\ req[q].pc \in {"read", "start"} => req'[q].passed = TRUE
                      /\ req[q].pc = "idle" => req'[q] = req[q]
    OBVIOUS
  <2>1. req[q] \in Request
    BY <1>0
  <2>2. CASE req[q].pc \in {"read", "start"}
    <3>1. req'[q] = [req[q] EXCEPT !.passed = TRUE]
      BY <1>4, <2>2
    <3> QED BY <2>1, <2>2, <3>1 DEF Request
  <2>3. CASE req[q].pc \notin {"read", "start"}
    <3>1. req'[q] = req[q]
      BY <1>4, <2>3
    <3> QED BY <2>1, <2>3, <3>1
  <2> QED BY <2>2, <2>3
<1>7. req'[r] = Idle
  BY <1>4
<1>8. req' \in [Requests -> Request]
  <2>1. req' = [q \in Requests |-> req'[q]]
    BY DEF StartClient
  <2> QED BY <2>1, <1>6, <1>7, IdleType
<1>9. settled' \in [op : Endings, good : BOOLEAN] /\ settled'.op = req[r].op /\ settled'.good = req[r].alone
  BY <1>1 DEF StartClient, Endings
<1>10. FeedType'
  <2>1. told' \in Seq(Nat) /\ Len(told') = Len(clients')
    BY <1>0, <1>3, Appended
  <2>2. map' \in Nat /\ map' <= Len(clients')
    BY <1>0, <1>3
  <2>3. \A q \in Requests : req'[q].client <= Len(clients') /\ (req'[q].pc = "stop" => req'[q].client # NoClient)
    <3>1. \A q \in Requests : req[q].client \in Nat /\ req[q].client <= Len(clients)
      BY <1>0 DEF Meeting, FeedType, Request
    <3>2. Len(clients) \in Nat
      BY <1>0
    <3>3. \A q \in Requests : req[q].pc = "stop" => req[q].client # NoClient
      BY DEF Meeting, FeedType
    <3>4. Len(clients') = Len(clients) + 1 /\ 0 <= Len(clients')
      BY <1>3, <3>2
    <3> QED BY <1>6, <1>7, <3>1, <3>2, <3>3, <3>4, IdleType DEF NoClient
  <2>4. \A i \in 1..Len(channel') : channel'[i].of \in 1..Len(clients')
    <3>1. \A i \in 1..Len(channel) : channel[i].of \in 1..Len(clients)
      BY DEF Meeting, FeedType, Made
    <3>2. Len(clients) \in Nat
      BY <1>0
    <3> QED BY <1>0, <1>3, <3>1, <3>2
  <2> QED BY <1>0, <1>3, <1>8, <1>9, <2>1, <2>2, <2>3, <2>4 DEF Meeting, FeedType, Made
<1>11. PassedAreTold'
  BY <1>6, <1>7, IdleType DEF PassedAreTold
<1>12. Mapped'
  BY <1>0, <1>3 DEF Mapped
<1>13. Forgetting'
  <2> SUFFICES ASSUME NEW c \in 1..Len(clients'), clients'[c].life = "live"
               PROVE  map' = c \/ clients'[c].lost = TRUE
    BY DEF Forgetting, Made
  <2>1. CASE c = Len(clients) + 1
    BY <1>0, <1>3, <2>1
  <2>2. CASE c # Len(clients) + 1
    <3>1. c \in 1..Len(clients)
      BY <1>0, <1>3, <2>2
    <3>2. CASE c = map
      <4>1. req[r].passed = TRUE
        BY <1>0, <3>1, <3>2 DEF Meeting, PassedAreTold, NoClient
      <4> QED BY <1>3, <3>1, <3>2, <4>1
    <3>3. CASE c # map
      BY <1>3, <3>1, <3>3 DEF Meeting, Forgetting, Made
    <3> QED BY <3>2, <3>3
  <2> QED BY <2>1, <2>2
<1>14. settled'.good = TRUE => AsItSays'
  <2> SUFFICES ASSUME settled'.good = TRUE PROVE AsItSays'
    OBVIOUS
  <2>1. AloneAt(req[r])
    BY <1>0, <1>9, AloneNow DEF Meeting
  <2>2. map' # NoClient /\ clients'[map'].v = req[r].row.v
    BY <1>0, <1>3 DEF NoClient
  <2>3. settled'.op # "cut"
    BY <1>9, <2>1 DEF AloneAt, Ops
  <2> QED BY <1>0, <1>9, <2>1, <2>2, <2>3 DEF AloneAt, AsItSays, Connects
<1>15. instance.state # "none"
  BY <1>0 DEF Meeting, BeforeTheRow
<1>16. OneAlone' /\ BeforeTheRow' /\ AtRest' /\ LastStands'
  BY <1>0, <1>6, <1>7, <1>14, <1>15, IdleType, OneMoves DEF Meeting
<1> QED BY <1>10, <1>11, <1>12, <1>13, <1>16 DEF Meeting

LEMMA BeginMeets ==
  ASSUME Meeting, NEW r \in Requests, NEW op \in Ops, Begin(r, op)
  PROVE  Meeting'
<1> DEFINE s == req'[r]
<1>0. /\ req[r] = Idle /\ instance' = instance /\ clients' = clients /\ map' = map /\ feed' = feed /\ settled' = settled
      /\ instance \in Instance /\ req \in [Requests -> Request] /\ instance.state # "gone"
      /\ (op = "create") <=> (instance.state = "none")
  BY DEF Begin, Meeting, FeedType
<1>1. \A q \in Requests : q \in Busy <=> req[q].pc # "idle"
  BY IdleType DEF Busy, Meeting, AtRest
<1>2. /\ s \in Request /\ s.op = op /\ s.client = NoClient /\ s.passed = FALSE
      /\ s.pc \in {"insert", "write", "remove"}
      /\ s.pc = "insert" <=> op = "create"
      /\ s.pc = "write" <=> op \in {"patch", "restore"}
      /\ s.alone = TRUE => Busy = {}
  <2>1. PICK w, a, pc : /\ w = IF op = "patch" THEN instance ELSE Unread
                        /\ a = (Busy = {})
                        /\ pc = CASE op = "create" -> "insert" [] op \in {"patch", "restore"} -> "write" [] OTHER -> "remove"
    OBVIOUS
  <2>2. s = [Idle EXCEPT !.op = op, !.row = w, !.alone = a, !.pc = pc]
    BY <2>1 DEF Begin
  <2>3. w \in Instance
    BY <1>0, <2>1, IdleType
  <2>4. a \in BOOLEAN /\ (a = TRUE => Busy = {})
    BY <2>1
  <2>5. /\ pc \in {"insert", "write", "remove"}
        /\ pc = "insert" <=> op = "create"
        /\ pc = "write" <=> op \in {"patch", "restore"}
    BY <2>1
  <2> HIDE <2>1
  <2>6. /\ s \in Request /\ s.op = op /\ s.client = NoClient /\ s.passed = FALSE /\ s.pc = pc /\ s.alone = a
    <3>1. PICK i \in Request : i = Idle /\ i.client = NoClient /\ i.passed = FALSE
      BY IdleType
    <3>2. s = [i EXCEPT !.op = op, !.row = w, !.alone = a, !.pc = pc]
      BY <2>2, <3>1
    <3> HIDE DEF s
    <3> QED BY <2>3, <2>4, <2>5, <3>1, <3>2 DEF Request
  <2> QED BY <2>4, <2>5, <2>6
<1>3. \A q \in Requests : q # r =>
        /\ req'[q] \in Request /\ req'[q].pc = req[q].pc /\ req'[q].passed = req[q].passed
        /\ req'[q].client = req[q].client
        /\ req[q].pc = "idle" => req'[q] = Idle
        /\ req[q].pc # "idle" => req'[q].alone = FALSE
  <2> SUFFICES ASSUME NEW q \in Requests, q # r
               PROVE  /\ req'[q] \in Request /\ req'[q].pc = req[q].pc /\ req'[q].passed = req[q].passed
                      /\ req'[q].client = req[q].client
                      /\ req[q].pc = "idle" => req'[q] = Idle
                      /\ req[q].pc # "idle" => req'[q].alone = FALSE
    OBVIOUS
  <2>1. req[q] \in Request
    BY <1>0
  <2>2. CASE q \in Busy
    <3>1. req'[q] = [req[q] EXCEPT !.alone = FALSE]
      BY <2>2 DEF Begin
    <3> QED BY <1>1, <2>1, <2>2, <3>1 DEF Request
  <2>3. CASE q \notin Busy
    <3>1. req'[q] = Idle /\ req[q] = Idle
      BY <2>3 DEF Begin, Busy
    <3> QED BY <2>1, <3>1, IdleType
  <2> QED BY <2>2, <2>3
<1>4. req' \in [Requests -> Request]
  <2>1. req' = [q \in Requests |-> req'[q]]
    BY DEF Begin
  <2> QED BY <2>1, <1>2, <1>3
<1> HIDE DEF s
<1>5. FeedType'
  <2>1. channel' = channel /\ told' = told
    BY <1>0 DEF feed
  <2>2. \A q \in Requests : req'[q].client <= Len(clients) /\ (req'[q].pc = "stop" => req'[q].client # NoClient)
    BY <1>2, <1>3 DEF s, Meeting, FeedType, NoClient
  <2> QED BY <1>0, <1>4, <2>1, <2>2 DEF Meeting, FeedType, Made
<1>6. PassedAreTold' /\ Forgetting' /\ Mapped'
  <2>1. \A q \in Requests : req'[q].pc \in {"read", "start"} =>
          req[q].pc \in {"read", "start"} /\ req'[q].passed = req[q].passed
    BY <1>2, <1>3 DEF s
  <2> QED BY <1>0, <2>1, ClientsStay DEF Meeting
<1>7. OneAlone'
  <2> SUFFICES ASSUME NEW q \in Requests, req'[q].pc # "idle", req'[q].alone = TRUE
               PROVE  (\A p \in Requests : req'[p].pc # "idle" => p = q) /\ AloneAt(req[q])'
    BY DEF OneAlone
  <2>1. q = r
    BY <1>3, IdleType
  <2>2. \A p \in Requests : req'[p].pc # "idle" => p = r
    BY <1>1, <1>2, <1>3, <2>1 DEF s
  <2>3. instance.state # "none" => instance.state = "there"
    BY <1>0 DEF Instance
  <2>4. AloneAt(req[r])'
    BY <1>0, <1>2, <2>3 DEF s, AloneAt, Ops
  <2> QED BY <2>1, <2>2, <2>4
<1>8. BeforeTheRow'
  BY <1>0, <1>2, <1>3 DEF s, Meeting, BeforeTheRow
<1>9. AtRest'
  BY <1>2, <1>3 DEF s, AtRest
<1>10. LastStands'
  BY <1>2 DEF s, LastStands
<1> QED BY <1>5, <1>6, <1>7, <1>8, <1>9, <1>10 DEF Meeting

-----------------------------------------------------------------------------
(* The process starts, and its clients work.                               *)

Starting ==
  /\ req = [r \in Requests |-> Idle]
  /\ clients = EnabledClients /\ map = Len(clients)
  /\ channel = <<>> /\ told = [c \in Made |-> 0]
  /\ settled = [op |-> "start", good |-> TRUE]

LEMMA StartingMeets == instance \in Instance /\ Starting => Meeting /\ Sending
<1> SUFFICES ASSUME instance \in Instance, Starting PROVE Meeting /\ Sending
  OBVIOUS
<1>1. /\ clients \in Seq(FeedClient) /\ Len(clients) \in {0, 1}
      /\ Len(clients) = 1 <=> instance.state = "there" /\ instance.on = TRUE
      /\ Len(clients) = 1 => clients[1] = Client(instance.v)
  <2>1. instance.v \in Nat
    BY DEF Instance
  <2>2. CASE instance.state = "there" /\ instance.on = TRUE
    <3>1. clients = <<Client(instance.v)>>
      BY <2>2 DEF Starting, EnabledClients
    <3>2. PICK u \in FeedClient : u = Client(instance.v)
      BY <2>1, ClientType
    <3>3. clients = <<u>>
      BY <3>1, <3>2
    <3>4. clients \in Seq(FeedClient) /\ Len(clients) = 1 /\ clients[1] = u
      BY <3>3
    <3> QED BY <2>2, <3>2, <3>4
  <2>3. CASE ~(instance.state = "there" /\ instance.on = TRUE)
    <3>1. clients = <<>>
      BY <2>3 DEF Starting, EnabledClients, Instance
    <3>2. clients \in Seq(FeedClient) /\ Len(clients) = 0
      BY <3>1
    <3> QED BY <2>3, <3>2
  <2> QED BY <2>2, <2>3
<1>2. \A c \in Made : c = 1 /\ clients[c].life = "live" /\ clients[c].v = instance.v /\ NewSender(clients[c]) /\ told[c] = 0
  BY <1>1, ClientType DEF Starting, Made, Instance
<1>3. FeedType
  <2>1. \A r \in Requests : req[r] = Idle
    BY DEF Starting
  <2>2. told \in Seq(Nat) /\ Len(told) = Len(clients)
    <3>1. told \in [1..Len(clients) -> Nat]
      BY DEF Starting, Made
    <3> QED BY <1>1, <3>1, LenProperties
  <2>3. settled \in [op : Endings, good : BOOLEAN]
    BY DEF Starting, Endings
  <2>4. channel \in Seq(FeedEvent) /\ Len(channel) = 0
    BY DEF Starting
  <2>5. \A r \in Requests : req[r].client <= Len(clients) /\ req[r].pc # "stop"
    BY <1>1, <2>1, IdleType DEF NoClient
  <2> QED BY <1>1, <2>2, <2>3, <2>4, <2>5, IdleType, FeedNumbers DEF Starting, FeedType
<1>4. \A r \in Requests : req[r] = Idle
  BY DEF Starting
<1>5. PassedAreTold /\ OneAlone /\ AtRest
  BY <1>4, IdleType DEF PassedAreTold, OneAlone, AtRest
<1>6. Forgetting /\ Mapped
  BY <1>1, <1>2 DEF Starting, Forgetting, Mapped, Made, NoClient
<1>7. BeforeTheRow
  BY <1>1, <1>4, IdleType DEF Starting, BeforeTheRow, NoClient
<1>8. LastStands
  BY <1>1, <1>2 DEF Starting, LastStands, AsItSays, Connects, Made, NoClient
<1>9. Sending
  <2>1. Len(channel) = 0
    BY DEF Starting
  <2>2. \A c \in Made : Waiting(c) = {}
    BY <2>1 DEF Waiting
  <2>3. \A c \in Made : Sent(c) = 0
    BY <1>2 DEF Sent, NewSender
  <2>4. InOrder /\ NewestWait
    BY <2>1, <2>2 DEF InOrder, NewestWait
  <2>5. ToldAreSent /\ AloneSending
    BY <1>2, <2>2, <2>3 DEF ToldAreSent, AloneSending, NewSender
  <2> QED BY <2>4, <2>5 DEF Sending
<1> QED BY <1>3, <1>5, <1>6, <1>7, <1>8, <1>9 DEF Meeting

\* The clients' own steps leave the requests alone; a client that was stopped ends.
LEMMA OthersMeet ==
  ASSUME Meeting, FeedType', instance' = instance, req' = req, map' = map, settled' = settled,
         Len(clients') = Len(clients),
         \A c \in Made : /\ clients'[c].v = clients[c].v /\ clients'[c].lost = clients[c].lost
                         /\ clients'[c].life = clients[c].life \/ (clients[c].life = "closing" /\ clients'[c].life = "dead")
  PROVE  Meeting'
<1>1. PassedAreTold' /\ AtRest' /\ BeforeTheRow'
  BY DEF Meeting, PassedAreTold, AtRest, BeforeTheRow
<1>2. Forgetting'
  BY DEF Meeting, Forgetting, Made
<1>3. map # NoClient => map \in Made
  BY DEF Meeting, FeedType, Made, NoClient
<1>4. Mapped'
  BY <1>3 DEF Meeting, Mapped
<1>5. OneAlone'
  BY DEF Meeting, OneAlone, AloneAt, Connects
<1>6. LastStands'
  BY <1>3 DEF Meeting, LastStands, AsItSays, Connects
<1> QED BY <1>1, <1>2, <1>4, <1>5, <1>6 DEF Meeting

-----------------------------------------------------------------------------
(* What the channel holds.                                                 *)

LEMMA WaitingType == FeedType => \A d : \A j \in Waiting(d) : j \in Nat /\ j # 0
<1> SUFFICES ASSUME FeedType, NEW d, NEW j \in Waiting(d) PROVE j \in Nat /\ j # 0
  OBVIOUS
<1>1. PICK i \in 1..Len(channel) : channel[i].n # 0 /\ j = channel[i].n
  BY DEF Waiting
<1>2. channel[i] \in FeedEvent
  BY DEF FeedType
<1> QED BY <1>1, <1>2 DEF FeedEvent

LEMMA EventType == \A c, k \in Nat : LET e == [of |-> c, n |-> k] IN e \in FeedEvent /\ e.of = c /\ e.n = k
BY DEF FeedEvent

LEMMA HeadIsFirst ==
  ASSUME FeedType, channel # <<>>
  PROVE  Head(channel) = channel[1] /\ channel[1] \in FeedEvent
<1>1. channel \in Seq(FeedEvent) /\ Len(channel) \in Nat \ {0}
  BY EmptySeq DEF FeedType
<1> QED BY <1>1, HeadTailProperties

LEMMA Adds ==
  ASSUME FeedType, NEW e \in FeedEvent, channel' = Append(channel, e)
  PROVE  /\ channel' \in Seq(FeedEvent) /\ Len(channel') = Len(channel) + 1
         /\ \A i \in 1..Len(channel) : channel'[i] = channel[i]
         /\ channel'[Len(channel) + 1] = e
         /\ \A c, k : k \in Waiting(c)' <=> k \in Waiting(c) \/ (c = e.of /\ k = e.n /\ e.n # 0)
<1>1. channel \in Seq(FeedEvent) /\ Len(channel) \in Nat
  BY DEF FeedType
<1>2. /\ channel' \in Seq(FeedEvent) /\ Len(channel') = Len(channel) + 1
      /\ \A i \in 1..Len(channel) : channel'[i] = channel[i]
      /\ channel'[Len(channel) + 1] = e
  BY <1>1, Appended
<1>3. ASSUME NEW c, NEW k
      PROVE  k \in Waiting(c)' <=> k \in Waiting(c) \/ (c = e.of /\ k = e.n /\ e.n # 0)
  <2>1. k \in Waiting(c) <=> \E i \in 1..Len(channel) : channel[i].of = c /\ channel[i].n # 0 /\ k = channel[i].n
    BY DEF Waiting
  <2>2. k \in Waiting(c)' <=> \E i \in 1..Len(channel') : channel'[i].of = c /\ channel'[i].n # 0 /\ k = channel'[i].n
    BY DEF Waiting
  <2>3. \A i : i \in 1..Len(channel') <=> i \in 1..Len(channel) \/ i = Len(channel) + 1
    BY <1>1, <1>2
  <2> QED BY <1>2, <2>1, <2>2, <2>3
<1> QED BY <1>2, <1>3

\* What is left when h, the oldest, has gone.
Shorter(h) ==
  /\ h.of \in Made /\ InOrder'
  /\ \A c : \A k \in Waiting(c)' : k \in Waiting(c)
  /\ \A c : \A k \in Waiting(c) : k \in Waiting(c)' \/ (c = h.of /\ k = h.n)
  /\ h.n # 0 => h.n \in Waiting(h.of) /\ \A k \in Waiting(h.of)' : h.n < k

LEMMA Shortens ==
  ASSUME FeedType, InOrder, channel # <<>>, channel' = Tail(channel)
  PROVE  /\ channel' \in Seq(FeedEvent) /\ Len(channel') = Len(channel) - 1 /\ Len(channel) \in Nat \ {0}
         /\ \A i \in 1..Len(channel') : i + 1 \in 1..Len(channel) /\ channel'[i] = channel[i + 1]
         /\ Shorter(channel[1])
<1>1. channel \in Seq(FeedEvent) /\ Len(channel) \in Nat \ {0}
  BY EmptySeq DEF FeedType
<1>2. /\ channel' \in Seq(FeedEvent) /\ Len(channel') = Len(channel) - 1
      /\ \A i \in 1..Len(channel') : channel'[i] = channel[i + 1]
  BY <1>1, HeadTailProperties
<1>3. PICK h \in FeedEvent : h = channel[1]
  BY HeadIsFirst
<1>4. \A i : i \in 1..Len(channel) <=> i = 1 \/ \E j \in 1..Len(channel') : i = j + 1
  <2>1. ASSUME NEW i \in 1..Len(channel), i # 1 PROVE i - 1 \in 1..Len(channel') /\ i = (i - 1) + 1
    BY <1>1, <1>2, <2>1
  <2>2. ASSUME NEW j \in 1..Len(channel') PROVE j + 1 \in 1..Len(channel)
    BY <1>1, <1>2
  <2>3. 1 \in 1..Len(channel)
    BY <1>1
  <2> QED BY <2>1, <2>2, <2>3
<1>5. \A c, k : k \in Waiting(c) <=> \E i \in 1..Len(channel) : channel[i].of = c /\ channel[i].n # 0 /\ k = channel[i].n
  BY DEF Waiting
<1>6. \A c, k : k \in Waiting(c)' <=> \E i \in 1..Len(channel') : channel'[i].of = c /\ channel'[i].n # 0 /\ k = channel'[i].n
  BY DEF Waiting
<1>7. \A i \in 1..Len(channel') : i \in Int /\ i + 1 \in 1..Len(channel) /\ i + 1 > 1
  BY <1>1, <1>2
<1>8. InOrder'
  <2> SUFFICES ASSUME NEW i \in 1..Len(channel'), NEW j \in 1..Len(channel'), i < j,
                      channel'[i].of = channel'[j].of, channel'[i].n # 0, channel'[j].n # 0
               PROVE  channel'[i].n < channel'[j].n
    BY DEF InOrder
  <2>1. i + 1 < j + 1 /\ channel'[i] = channel[i + 1] /\ channel'[j] = channel[j + 1]
    BY <1>2, <1>7
  <2> QED BY <1>7, <2>1 DEF InOrder
<1>9. ASSUME NEW c, NEW k \in Waiting(c)' PROVE k \in Waiting(c)
  BY <1>2, <1>5, <1>6, <1>7
<1>10. ASSUME NEW c, NEW k, k \in Waiting(c), k \notin Waiting(c)' PROVE c = h.of /\ k = h.n
  <2>1. PICK i \in 1..Len(channel) : channel[i].of = c /\ channel[i].n # 0 /\ k = channel[i].n
    BY <1>5, <1>10
  <2>2. i = 1
    BY <1>2, <1>4, <1>6, <1>10, <2>1
  <2> QED BY <1>3, <2>1, <2>2
<1>11. ASSUME h.n # 0 PROVE h.n \in Waiting(h.of) /\ \A k \in Waiting(h.of)' : h.n < k
  <2>1. 1 \in 1..Len(channel)
    BY <1>1
  <2>2. h.n \in Waiting(h.of)
    BY <1>3, <1>5, <1>11, <2>1
  <2>3. ASSUME NEW k \in Waiting(h.of)' PROVE h.n < k
    <3>1. PICK i \in 1..Len(channel') : channel'[i].of = h.of /\ channel'[i].n # 0 /\ k = channel'[i].n
      BY <1>6
    <3>2. i + 1 \in 1..Len(channel) /\ 1 < i + 1 /\ channel'[i] = channel[i + 1]
      BY <1>2, <1>7
    <3> QED BY <1>3, <1>11, <2>1, <3>1, <3>2 DEF InOrder
  <2> QED BY <2>2, <2>3
<1>12. h.of \in Made
  BY <1>1, <1>3 DEF FeedType
<1>13. Shorter(h)
  BY <1>8, <1>9, <1>10, <1>11, <1>12 DEF Shorter
<1> QED BY <1>1, <1>2, <1>3, <1>7, <1>13

\* An event is put in.
LEMMA Enters ==
  ASSUME FeedType, InOrder, ToldAreSent, NewestWait, NEW c \in Made, NEW k \in Nat,
         channel' = Append(channel, [of |-> c, n |-> k]), told' = told, Len(clients') = Len(clients),
         \A d \in Made : d # c \/ k = 0 => Sent(d)' = Sent(d),
         k # 0 => k = Sent(c) + 1 /\ Sent(c)' = k,
         \A d \in Made : clients[d].refused = TRUE => clients'[d].refused = TRUE
  PROVE  InOrder' /\ ToldAreSent' /\ NewestWait'
<1>0. PICK e \in FeedEvent : e = [of |-> c, n |-> k] /\ e.of = c /\ e.n = k
  BY DEF FeedEvent, Made
<1>1. /\ channel' \in Seq(FeedEvent) /\ Len(channel') = Len(channel) + 1
      /\ \A i \in 1..Len(channel) : channel'[i] = channel[i]
      /\ channel'[Len(channel) + 1] = e
      /\ \A d, j : j \in Waiting(d)' <=> j \in Waiting(d) \/ (d = c /\ j = k /\ k # 0)
  <2>1. channel' = Append(channel, e)
    BY <1>0
  <2> QED BY <1>0, <2>1, Adds
<1>2. channel \in Seq(FeedEvent) /\ Len(channel) \in Nat /\ told \in Seq(Nat) /\ Len(told) = Len(clients) /\ Made' = Made
  BY DEF FeedType, Made
<1>3. \A d \in Made : Sent(d) \in Nat /\ told[d] \in Nat /\ told[d] <= Sent(d) /\ \A j \in Waiting(d) : told[d] < j /\ j <= Sent(d)
  BY <1>2 DEF ToldAreSent, Made
<1>4. \A d, j : j \in Waiting(d) => j \in Nat
  BY WaitingType
<1>5. InOrder'
  <2> SUFFICES ASSUME NEW i \in 1..Len(channel'), NEW j \in 1..Len(channel'), i < j,
                      channel'[i].of = channel'[j].of, channel'[i].n # 0, channel'[j].n # 0
               PROVE  channel'[i].n < channel'[j].n
    BY DEF InOrder
  <2>1. i \in 1..Len(channel) /\ channel'[i] = channel[i]
    BY <1>1, <1>2
  <2>2. CASE j \in 1..Len(channel)
    BY <1>1, <2>1, <2>2 DEF InOrder
  <2>3. CASE j = Len(channel) + 1
    <3>1. channel[i].n \in Waiting(c)
      BY <1>0, <1>1, <2>1, <2>3 DEF Waiting
    <3>2. channel'[j].n = k /\ k # 0
      BY <1>0, <1>1, <2>3
    <3>3. PICK x \in Nat : x = channel[i].n /\ x <= Sent(c)
      BY <1>3, <1>4, <3>1
    <3>4. Sent(c) \in Nat
      BY <1>3
    <3>5. x < k
      BY <3>2, <3>3, <3>4
    <3> QED BY <2>1, <3>2, <3>3, <3>5
  <2>4. j \in 1..Len(channel) \/ j = Len(channel) + 1
    BY <1>1, <1>2
  <2> QED BY <2>2, <2>3, <2>4
<1>6. ToldAreSent'
  BY <1>1, <1>2, <1>3, <1>4 DEF ToldAreSent
<1>7. NewestWait'
  <2> SUFFICES ASSUME NEW d \in Made, NEW j \in Waiting(d)', clients'[d].refused # TRUE
               PROVE  j..Sent(d)' \subseteq Waiting(d)'
    BY <1>2 DEF NewestWait
  <2>1. CASE d = c /\ k # 0
    <3>1. j \in Waiting(c) => j..Sent(c) \subseteq Waiting(c)
      BY <2>1 DEF NewestWait
    <3>2. j \in Nat /\ j <= k
      BY <1>1, <1>3, <1>4, <2>1
    <3>3. \A m \in j..Sent(c)' : m = k \/ (j \in Waiting(c) /\ m \in j..Sent(c))
      BY <1>1, <1>3, <2>1, <3>2
    <3> QED BY <1>1, <2>1, <3>1, <3>3
  <2>2. CASE d # c \/ k = 0
    BY <1>1, <2>2 DEF NewestWait
  <2> QED BY <2>1, <2>2
<1> QED BY <1>5, <1>6, <1>7

\* The oldest goes: to the pages, or nowhere.
LEMMA Leaves ==
  ASSUME FeedType, InOrder, ToldAreSent, NewestWait, channel # <<>>, channel' = Tail(channel),
         Len(clients') = Len(clients),
         told' = told \/ (Head(channel).n # 0 /\ told' = [told EXCEPT ![Head(channel).of] = Head(channel).n]),
         \A d \in Made : Sent(d)' = Sent(d),
         \A d \in Made : clients[d].refused = TRUE => clients'[d].refused = TRUE
  PROVE  InOrder' /\ ToldAreSent' /\ NewestWait'
<1>1. PICK h \in FeedEvent : h = Head(channel) /\ h = channel[1]
  BY HeadIsFirst
<1>2. Shorter(h)
  BY <1>1, Shortens
<1>3. channel \in Seq(FeedEvent) /\ Len(channel) \in Nat /\ told \in Seq(Nat) /\ Len(told) = Len(clients) /\ Made' = Made
  BY DEF FeedType, Made
<1>4. \A d \in Made : Sent(d) \in Nat /\ told[d] \in Nat /\ told[d] <= Sent(d) /\ \A j \in Waiting(d) : told[d] < j /\ j <= Sent(d)
  BY <1>3 DEF ToldAreSent, Made
<1>5. \A d, j : j \in Waiting(d) => j \in Nat /\ j # 0
  BY WaitingType
<1>6. \A d \in Made : told'[d] = told[d] \/ (d = h.of /\ h.n # 0 /\ told'[d] = h.n)
  BY <1>1, <1>2, <1>3 DEF Made, Shorter
<1>7. ToldAreSent'
  <2> SUFFICES ASSUME NEW d \in Made
               PROVE  /\ told'[d] <= Sent(d)' /\ Sent(d)' \in Nat
                      /\ \A k \in Waiting(d)' : told'[d] < k /\ k <= Sent(d)'
    BY <1>3 DEF ToldAreSent
  <2>1. CASE told'[d] = told[d]
    BY <1>2, <1>4, <2>1 DEF Shorter
  <2>2. CASE d = h.of /\ h.n # 0 /\ told'[d] = h.n
    BY <1>2, <1>4, <2>2 DEF Shorter
  <2> QED BY <1>6, <2>1, <2>2
<1>8. NewestWait'
  <2> SUFFICES ASSUME NEW d \in Made, NEW j \in Waiting(d)', clients'[d].refused # TRUE
               PROVE  j..Sent(d)' \subseteq Waiting(d)'
    BY <1>3 DEF NewestWait
  <2>1. j..Sent(d) \subseteq Waiting(d)
    BY <1>2 DEF NewestWait, Shorter
  <2>2. ASSUME NEW m \in j..Sent(d), m \notin Waiting(d)' PROVE FALSE
    <3>1. d = h.of /\ m = h.n
      BY <1>2, <2>1, <2>2 DEF Shorter
    <3>2. m # 0 /\ m \in Nat
      BY <1>5, <2>1
    <3>3. h.n < j
      BY <1>2, <3>1, <3>2 DEF Shorter
    <3>4. j \in Nat /\ j <= m
      BY <1>2, <1>4, <1>5 DEF Shorter
    <3> QED BY <3>1, <3>2, <3>3, <3>4
  <2> QED BY <2>2
<1> QED BY <1>2, <1>7, <1>8 DEF Shorter

\* The channel is left alone.
LEMMA Rests ==
  ASSUME FeedType, InOrder, ToldAreSent, NewestWait, channel' = channel, told' = told,
         Len(clients') = Len(clients),
         \A d \in Made : Sent(d)' = Sent(d) \/ (Sent(d)' = Sent(d) + 1 /\ clients'[d].refused = TRUE),
         \A d \in Made : clients[d].refused = TRUE => clients'[d].refused = TRUE
  PROVE  InOrder' /\ ToldAreSent' /\ NewestWait'
<1>1. \A d : Waiting(d)' = Waiting(d)
  BY DEF Waiting
<1>2. channel \in Seq(FeedEvent) /\ told \in Seq(Nat) /\ Len(told) = Len(clients) /\ Made' = Made
  BY DEF FeedType, Made
<1>3. \A d \in Made : Sent(d) \in Nat /\ told[d] \in Nat /\ told[d] <= Sent(d) /\ \A j \in Waiting(d) : told[d] < j /\ j <= Sent(d)
  BY <1>2 DEF ToldAreSent, Made
<1>4. \A d, j : j \in Waiting(d) => j \in Nat
  BY WaitingType
<1>5. InOrder'
  BY DEF InOrder
<1>6. ToldAreSent'
  BY <1>1, <1>2, <1>3, <1>4 DEF ToldAreSent
<1>7. NewestWait'
  BY <1>1, <1>2 DEF NewestWait
<1> QED BY <1>5, <1>6, <1>7

-----------------------------------------------------------------------------
(* The clients' steps.                                                     *)

\* A client's next state; the others stay.
LEMMA Sets ==
  ASSUME FeedType, NEW c \in Made, NEW s \in FeedClient, Set(c, s)
  PROVE  /\ clients' \in Seq(FeedClient) /\ Len(clients') = Len(clients) /\ clients'[c] = s
         /\ \A d \in Made : d # c => clients'[d] = clients[d] /\ Sent(d)' = Sent(d)
<1>1. clients \in Seq(FeedClient) /\ c \in 1..Len(clients) /\ clients' = [clients EXCEPT ![c] = s]
  BY DEF FeedType, Made, Set
<1>2. /\ clients' \in Seq(FeedClient) /\ Len(clients') = Len(clients)
      /\ \A d \in 1..Len(clients) : clients'[d] = IF d = c THEN s ELSE clients[d]
  BY <1>1, Put
<1>3. \A d \in Made : d # c => clients'[d] = clients[d]
  BY <1>2 DEF Made
<1>4. \A d \in Made : d # c => Sent(d)' = Sent(d)
  BY <1>3 DEF Sent
<1> QED BY <1>1, <1>2, <1>3, <1>4

\* Nobody else is alone with a client at work.
LEMMA OnlyOne ==
  ASSUME AloneSending, NEW c \in Made, clients[c].pc # "idle", Len(clients') = Len(clients),
         \A d \in Made : d # c => clients'[d] = clients[d],
         clients'[c].pc # "idle" /\ clients'[c].alone = TRUE =>
           /\ clients[c].alone = TRUE
           /\ clients'[c].pc = "retry" => Len(channel') < Cap
           /\ clients'[c].pc = "warn" => told'[c] = clients'[c].n \/ clients'[c].n \in Waiting(c)'
  PROVE  AloneSending'
<1> SUFFICES ASSUME NEW d \in Made, clients'[d].pc # "idle", clients'[d].alone = TRUE
             PROVE  /\ \A e \in Made : clients'[e].pc # "idle" => e = d
                    /\ clients'[d].pc = "retry" => Len(channel') < Cap
                    /\ clients'[d].pc = "warn" => told'[d] = clients'[d].n \/ clients'[d].n \in Waiting(d)'
  BY DEF AloneSending, Made
<1>1. d = c
  BY DEF AloneSending
<1>2. \A e \in Made : clients'[e].pc # "idle" => e = c
  BY <1>1 DEF AloneSending
<1> QED BY <1>1, <1>2

LEMMA StartsSending ==
  ASSUME FeedType, Sending, NEW c \in Made, Event(c)
  PROVE  Sending' /\ FeedType'
<1>0. /\ clients[c].pc = "idle" /\ channel' = channel /\ told' = told /\ clients \in Seq(FeedClient)
      /\ instance' = instance /\ req' = req /\ map' = map /\ settled' = settled
  BY DEF Event, FeedType, feed
<1>1. \A d \in Made : clients'[d] =
        IF d = c THEN [clients[c] EXCEPT !.pc = "send", !.n = @ + 1, !.alone = Emitting = {}]
        ELSE IF d \in Emitting THEN [clients[d] EXCEPT !.alone = FALSE] ELSE clients[d]
  BY DEF Event
<1>2. \A d \in Made : clients[d] \in FeedClient
  BY <1>0 DEF Made
<1>3. /\ clients'[c] \in FeedClient /\ clients'[c].pc = "send" /\ clients'[c].n = clients[c].n + 1
      /\ clients'[c].refused = clients[c].refused
      /\ clients'[c].alone = TRUE => Emitting = {}
  <2>1. PICK a \in BOOLEAN : a = (Emitting = {})
    OBVIOUS
  <2>2. clients'[c] = [clients[c] EXCEPT !.pc = "send", !.n = clients[c].n + 1, !.alone = a]
    BY <1>1, <2>1
  <2>3. clients[c] \in FeedClient
    BY <1>2
  <2>4. /\ clients'[c] \in FeedClient /\ clients'[c].pc = "send" /\ clients'[c].n = clients[c].n + 1
        /\ clients'[c].refused = clients[c].refused /\ clients'[c].alone = a
    <3>1. PICK u \in FeedClient : u = clients[c]
      BY <2>3
    <3>2. PICK m \in Nat : m = u.n + 1
      BY DEF FeedClient
    <3>3. clients'[c] = [u EXCEPT !.pc = "send", !.n = m, !.alone = a]
      BY <2>2, <3>1, <3>2
    <3>4. /\ clients'[c] \in FeedClient /\ clients'[c].pc = "send" /\ clients'[c].n = m
          /\ clients'[c].refused = u.refused /\ clients'[c].alone = a
      BY <3>3 DEF FeedClient
    <3> QED BY <3>1, <3>2, <3>4
  <2> QED BY <2>1, <2>4
<1>4. \A d \in Made : d # c => /\ clients'[d] \in FeedClient /\ clients'[d].pc = clients[d].pc /\ clients'[d].n = clients[d].n
                               /\ clients'[d].refused = clients[d].refused
                               /\ clients[d].pc # "idle" => clients'[d].alone = FALSE
  <2> SUFFICES ASSUME NEW d \in Made, d # c
               PROVE  /\ clients'[d] \in FeedClient /\ clients'[d].pc = clients[d].pc /\ clients'[d].n = clients[d].n
                      /\ clients'[d].refused = clients[d].refused
                      /\ clients[d].pc # "idle" => clients'[d].alone = FALSE
    OBVIOUS
  <2>1. clients[d] \in FeedClient
    BY <1>2
  <2>2. CASE clients[d].pc # "idle"
    <3>1. clients'[d] = [clients[d] EXCEPT !.alone = FALSE]
      BY <1>1, <2>2 DEF Emitting
    <3> QED BY <2>1, <2>2, <3>1 DEF FeedClient
  <2>3. CASE clients[d].pc = "idle"
    <3>1. clients'[d] = clients[d]
      BY <1>1, <2>3 DEF Emitting
    <3> QED BY <2>1, <2>3, <3>1
  <2> QED BY <2>2, <2>3
<1>5. clients' \in Seq(FeedClient) /\ Len(clients') = Len(clients)
  <2>1. clients' \in [1..Len(clients) -> FeedClient]
    <3>1. \A d \in Made : clients'[d] \in FeedClient
      BY <1>3, <1>4
    <3>2. clients' = [d \in Made |-> clients'[d]]
      BY DEF Event
    <3> QED BY <3>1, <3>2 DEF Made
  <2>2. Len(clients) \in Nat
    BY <1>0
  <2> QED BY <2>1, <2>2, LenProperties
<1>6. FeedType'
  BY <1>0, <1>5 DEF FeedType, Made
<1>7. \A d \in Made : Sent(d)' = Sent(d)
  <2>1. \A d \in Made : clients[d].n \in Nat
    BY <1>2 DEF FeedClient
  <2> QED BY <1>0, <1>3, <1>4, <2>1 DEF Sent
<1>8. InOrder' /\ ToldAreSent' /\ NewestWait'
  BY <1>0, <1>3, <1>4, <1>5, <1>7, Rests DEF Sending
<1>9. AloneSending'
  <2> SUFFICES ASSUME NEW d \in Made, clients'[d].pc # "idle", clients'[d].alone = TRUE
               PROVE  (\A e \in Made : clients'[e].pc # "idle" => e = d) /\ clients'[d].pc = "send"
    BY <1>5 DEF AloneSending, Made
  <2>1. d = c
    BY <1>4
  <2> QED BY <1>3, <1>4, <2>1 DEF Emitting
<1> QED BY <1>6, <1>8, <1>9 DEF Sending

\* emit is about one client's place in its loop: how that changes, whatever
\* becomes of the channel.
LEMMA Emits ==
  ASSUME NEW s \in FeedClient
  PROVE  /\ [s EXCEPT !.pc = "idle", !.alone = TRUE] \in FeedClient
         /\ [s EXCEPT !.pc = "drop"] \in FeedClient /\ [s EXCEPT !.pc = "retry"] \in FeedClient
         /\ [s EXCEPT !.pc = "warn"] \in FeedClient /\ [s EXCEPT !.pc = "warn", !.refused = TRUE] \in FeedClient
         /\ [s EXCEPT !.life = "dead"] \in FeedClient
BY DEF FeedClient

LEMMA Sender ==
  ASSUME FeedType, NEW c \in Made
  PROVE  clients[c] \in FeedClient /\ c \in Nat /\ clients[c].n \in Nat /\ Len(channel) \in Nat /\ Cap \in Nat \ {0}
<1>1. clients[c] \in FeedClient
  BY DEF FeedType, Made
<1> QED BY <1>1, FeedNumbers DEF FeedType, Made, FeedClient

LEMMA Placed ==
  ASSUME FeedType, NEW c \in Made, NEW k \in Nat, Len(channel) < Cap, channel' = Append(channel, [of |-> c, n |-> k])
  PROVE  /\ channel' \in Seq(FeedEvent) /\ Len(channel') <= Cap /\ \A i \in 1..Len(channel') : channel'[i].of \in Made
         /\ k # 0 => k \in Waiting(c)'
<1>1. Len(channel) \in Nat /\ Cap \in Nat /\ c \in Nat
  BY Sender
<1>2. PICK e \in FeedEvent : e = [of |-> c, n |-> k] /\ e.of = c /\ e.n = k
  BY <1>1, EventType
<1>3. channel' = Append(channel, e)
  BY <1>2
<1>4. /\ channel' \in Seq(FeedEvent) /\ Len(channel') = Len(channel) + 1
      /\ \A i \in 1..Len(channel) : channel'[i] = channel[i]
      /\ channel'[Len(channel) + 1] = e
      /\ \A d, j : j \in Waiting(d)' <=> j \in Waiting(d) \/ (d = e.of /\ j = e.n /\ e.n # 0)
  BY <1>3, Adds
<1>5. ASSUME NEW i \in 1..Len(channel') PROVE channel'[i].of \in Made
  <2>1. i \in 1..Len(channel) \/ i = Len(channel) + 1
    BY <1>1, <1>4
  <2> QED BY <1>2, <1>4, <2>1 DEF FeedType
<1> QED BY <1>1, <1>2, <1>4, <1>5

LEMMA SendKeeps ==
  ASSUME FeedType, Sending, NEW c \in Made, Send(c)
  PROVE  Sending' /\ FeedType'
<1>0. /\ clients[c].pc = "send" /\ told' = told /\ Made' = 1..Len(clients')
      /\ instance' = instance /\ req' = req /\ map' = map /\ settled' = settled
  BY DEF Send, Made
<1>1. clients[c] \in FeedClient /\ c \in Nat /\ clients[c].n \in Nat /\ Len(channel) \in Nat /\ Cap \in Nat \ {0}
  BY Sender
<1>2. Sent(c) = clients[c].n - 1 /\ clients[c].n # 0
  BY <1>0, <1>1 DEF Sent, Sending, ToldAreSent
<1>3. CASE Len(channel) < Cap
  <2> DEFINE s == [clients[c] EXCEPT !.pc = "idle", !.alone = TRUE]
  <2>1. channel' = Append(channel, [of |-> c, n |-> clients[c].n]) /\ Set(c, s)
    BY <1>3 DEF Send
  <2>2. s \in FeedClient /\ s.pc = "idle" /\ s.n = clients[c].n /\ s.refused = clients[c].refused
    BY <1>1 DEF FeedClient
  <2> HIDE DEF s
  <2>3. /\ clients' \in Seq(FeedClient) /\ Len(clients') = Len(clients) /\ clients'[c] = s
        /\ \A d \in Made : d # c => clients'[d] = clients[d] /\ Sent(d)' = Sent(d)
    BY <2>1, <2>2, Sets
  <2>4. Sent(c)' = clients[c].n
    BY <2>2, <2>3 DEF Sent
  <2>5. InOrder' /\ ToldAreSent' /\ NewestWait'
    <3>1. PICK k \in Nat : k = clients[c].n
      BY <1>1
    <3>2. channel' = Append(channel, [of |-> c, n |-> k])
      BY <2>1, <3>1
    <3>3. k = Sent(c) + 1 /\ Sent(c)' = k /\ k # 0
      BY <1>2, <2>4, <3>1
    <3>4. \A d \in Made : clients[d].refused = TRUE => clients'[d].refused = TRUE
      BY <2>2, <2>3
    <3>5. \A d \in Made : d # c \/ k = 0 => Sent(d)' = Sent(d)
      BY <2>3, <3>3
    <3> QED BY <1>0, <2>3, <3>2, <3>3, <3>4, <3>5, Enters DEF Sending
  <2>6. AloneSending'
    BY <1>0, <2>2, <2>3, OnlyOne DEF Sending
  <2>7. channel' \in Seq(FeedEvent) /\ Len(channel') <= Cap /\ \A i \in 1..Len(channel') : channel'[i].of \in Made
    BY <1>1, <1>3, <2>1, Placed
  <2>9. FeedType'
    BY <1>0, <2>3, <2>7 DEF FeedType, Made
  <2> QED BY <2>5, <2>6, <2>9 DEF Sending
<1>4. CASE ~(Len(channel) < Cap)
  <2> DEFINE s == [clients[c] EXCEPT !.pc = "drop"]
  <2>1. channel' = channel /\ Set(c, s)
    BY <1>4 DEF Send
  <2>2. s \in FeedClient /\ s.pc = "drop" /\ s.n = clients[c].n /\ s.refused = clients[c].refused /\ s.alone = clients[c].alone
    BY <1>1 DEF FeedClient
  <2> HIDE DEF s
  <2>3. /\ clients' \in Seq(FeedClient) /\ Len(clients') = Len(clients) /\ clients'[c] = s
        /\ \A d \in Made : d # c => clients'[d] = clients[d] /\ Sent(d)' = Sent(d)
    BY <2>1, <2>2, Sets
  <2>4. Sent(c)' = Sent(c)
    BY <1>0, <2>2, <2>3 DEF Sent
  <2>5. InOrder' /\ ToldAreSent' /\ NewestWait'
    BY <1>0, <2>1, <2>2, <2>3, <2>4, Rests DEF Sending
  <2>6. AloneSending'
    BY <1>0, <2>2, <2>3, OnlyOne DEF Sending
  <2>7. FeedType'
    BY <1>0, <2>1, <2>3 DEF FeedType, Made
  <2> QED BY <2>5, <2>6, <2>7 DEF Sending
<1> QED BY <1>3, <1>4

LEMMA DropKeeps ==
  ASSUME FeedType, Sending, NEW c \in Made, DropOldest(c)
  PROVE  Sending' /\ FeedType'
<1> DEFINE s == [clients[c] EXCEPT !.pc = "retry"]
<1>0. /\ clients[c].pc = "drop" /\ told' = told /\ Made' = 1..Len(clients') /\ Set(c, s)
      /\ instance' = instance /\ req' = req /\ map' = map /\ settled' = settled
      /\ channel' = IF channel = <<>> THEN channel ELSE Tail(channel)
  BY DEF DropOldest, Made
<1>1. clients[c] \in FeedClient /\ Len(channel) \in Nat /\ Cap \in Nat \ {0}
  BY Sender
<1>2. s \in FeedClient /\ s.pc = "retry" /\ s.n = clients[c].n /\ s.refused = clients[c].refused /\ s.alone = clients[c].alone
  BY <1>1 DEF FeedClient
<1> HIDE DEF s
<1>3. /\ clients' \in Seq(FeedClient) /\ Len(clients') = Len(clients) /\ clients'[c] = s
      /\ \A d \in Made : d # c => clients'[d] = clients[d] /\ Sent(d)' = Sent(d)
  BY <1>0, <1>2, Sets
<1>4. Sent(c)' = Sent(c)
  BY <1>0, <1>2, <1>3 DEF Sent
<1>5. /\ channel' \in Seq(FeedEvent) /\ Len(channel') < Cap /\ \A i \in 1..Len(channel') : channel'[i].of \in Made
      /\ InOrder' /\ ToldAreSent' /\ NewestWait'
  <2>1. CASE channel = <<>>
    <3>1. channel' = channel /\ Len(channel) = 0
      BY <1>0, <2>1
    <3>2. InOrder' /\ ToldAreSent' /\ NewestWait'
      BY <1>0, <1>2, <1>3, <1>4, <3>1, Rests DEF Sending
    <3> QED BY <1>1, <3>1, <3>2 DEF FeedType
  <2>2. CASE channel # <<>>
    <3>1. channel' = Tail(channel)
      BY <1>0, <2>2
    <3>2. InOrder' /\ ToldAreSent' /\ NewestWait'
      BY <1>0, <1>2, <1>3, <1>4, <2>2, <3>1, Leaves DEF Sending
    <3>3. /\ channel' \in Seq(FeedEvent) /\ Len(channel') = Len(channel) - 1
          /\ \A i \in 1..Len(channel') : i + 1 \in 1..Len(channel) /\ channel'[i] = channel[i + 1]
      BY <2>2, <3>1, Shortens DEF Sending
    <3>4. Len(channel) <= Cap /\ \A i \in 1..Len(channel) : channel[i].of \in Made
      BY DEF FeedType
    <3> QED BY <1>1, <3>2, <3>3, <3>4
  <2> QED BY <2>1, <2>2
<1>6. AloneSending'
  BY <1>0, <1>2, <1>3, <1>5, OnlyOne DEF Sending
<1>7. FeedType'
  <2>1. Len(channel') <= Cap
    BY <1>1, <1>5
  <2> QED BY <1>0, <1>3, <1>5, <2>1 DEF FeedType, Made
<1> QED BY <1>5, <1>6, <1>7 DEF Sending

LEMMA RetryKeeps ==
  ASSUME FeedType, Sending, NEW c \in Made, Retry(c)
  PROVE  Sending' /\ FeedType'
<1>0. /\ clients[c].pc = "retry" /\ told' = told /\ Made' = 1..Len(clients')
      /\ instance' = instance /\ req' = req /\ map' = map /\ settled' = settled
  BY DEF Retry, Made
<1>1. clients[c] \in FeedClient /\ clients[c].n \in Nat /\ Len(channel) \in Nat /\ Cap \in Nat \ {0}
  BY Sender
<1>2. Sent(c) = clients[c].n - 1 /\ clients[c].n # 0
  BY <1>0, <1>1 DEF Sent, Sending, ToldAreSent
<1>3. CASE Len(channel) < Cap
  <2> DEFINE s == [clients[c] EXCEPT !.pc = "warn"]
  <2>1. channel' = Append(channel, [of |-> c, n |-> clients[c].n]) /\ Set(c, s)
    BY <1>3 DEF Retry
  <2>2. s \in FeedClient /\ s.pc = "warn" /\ s.n = clients[c].n /\ s.refused = clients[c].refused /\ s.alone = clients[c].alone
    BY <1>1 DEF FeedClient
  <2> HIDE DEF s
  <2>3. /\ clients' \in Seq(FeedClient) /\ Len(clients') = Len(clients) /\ clients'[c] = s
        /\ \A d \in Made : d # c => clients'[d] = clients[d] /\ Sent(d)' = Sent(d)
    BY <2>1, <2>2, Sets
  <2>4. Sent(c)' = clients[c].n
    BY <2>2, <2>3 DEF Sent
  <2>5. InOrder' /\ ToldAreSent' /\ NewestWait'
    <3>1. PICK k \in Nat : k = clients[c].n
      BY <1>1
    <3>2. channel' = Append(channel, [of |-> c, n |-> k])
      BY <2>1, <3>1
    <3>3. k = Sent(c) + 1 /\ Sent(c)' = k /\ k # 0
      BY <1>2, <2>4, <3>1
    <3>4. \A d \in Made : clients[d].refused = TRUE => clients'[d].refused = TRUE
      BY <2>2, <2>3
    <3>5. \A d \in Made : d # c \/ k = 0 => Sent(d)' = Sent(d)
      BY <2>3, <3>3
    <3> QED BY <1>0, <2>3, <3>2, <3>3, <3>4, <3>5, Enters DEF Sending
  <2>6. /\ channel' \in Seq(FeedEvent) /\ Len(channel') <= Cap /\ \A i \in 1..Len(channel') : channel'[i].of \in Made
        /\ clients[c].n \in Waiting(c)'
    BY <1>1, <1>2, <1>3, <2>1, Placed
  <2>7. AloneSending'
    BY <1>0, <2>2, <2>3, <2>6, OnlyOne DEF Sending
  <2>8. FeedType'
    BY <1>0, <2>3, <2>6 DEF FeedType, Made
  <2> QED BY <2>5, <2>7, <2>8 DEF Sending
<1>4. CASE ~(Len(channel) < Cap)
  <2> DEFINE s == [clients[c] EXCEPT !.pc = "warn", !.refused = TRUE]
  <2>1. channel' = channel /\ Set(c, s)
    BY <1>4 DEF Retry
  <2>2. s \in FeedClient /\ s.pc = "warn" /\ s.n = clients[c].n /\ s.refused = TRUE /\ s.alone = clients[c].alone
    BY <1>1 DEF FeedClient
  <2> HIDE DEF s
  <2>3. /\ clients' \in Seq(FeedClient) /\ Len(clients') = Len(clients) /\ clients'[c] = s
        /\ \A d \in Made : d # c => clients'[d] = clients[d] /\ Sent(d)' = Sent(d)
    BY <2>1, <2>2, Sets
  <2>4. Sent(c)' = Sent(c) + 1
    BY <1>1, <1>2, <2>2, <2>3 DEF Sent
  <2>5. InOrder' /\ ToldAreSent' /\ NewestWait'
    BY <1>0, <2>1, <2>2, <2>3, <2>4, Rests DEF Sending
  <2>6. clients[c].alone # TRUE
    BY <1>0, <1>4 DEF Sending, AloneSending
  <2>7. AloneSending'
    BY <1>0, <2>2, <2>3, <2>6, OnlyOne DEF Sending
  <2>8. FeedType'
    BY <1>0, <2>1, <2>3 DEF FeedType, Made
  <2> QED BY <2>5, <2>7, <2>8 DEF Sending
<1> QED BY <1>3, <1>4

LEMMA WarnKeeps ==
  ASSUME FeedType, Sending, NEW c \in Made, Warn(c)
  PROVE  Sending' /\ FeedType'
<1> DEFINE s == [clients[c] EXCEPT !.pc = "idle", !.alone = TRUE]
<1>0. /\ clients[c].pc = "warn" /\ told' = told /\ Made' = 1..Len(clients') /\ Set(c, s)
      /\ instance' = instance /\ req' = req /\ map' = map /\ settled' = settled
      /\ channel' = IF Len(channel) < Cap THEN Append(channel, [of |-> c, n |-> 0]) ELSE channel
  BY DEF Warn, Made
<1>1. clients[c] \in FeedClient /\ Len(channel) \in Nat /\ Cap \in Nat \ {0}
  BY Sender
<1>2. s \in FeedClient /\ s.pc = "idle" /\ s.n = clients[c].n /\ s.refused = clients[c].refused
  BY <1>1 DEF FeedClient
<1> HIDE DEF s
<1>3. /\ clients' \in Seq(FeedClient) /\ Len(clients') = Len(clients) /\ clients'[c] = s
      /\ \A d \in Made : d # c => clients'[d] = clients[d] /\ Sent(d)' = Sent(d)
  BY <1>0, <1>2, Sets
<1>4. \A d \in Made : Sent(d)' = Sent(d)
  <2>1. Sent(c)' = Sent(c)
    BY <1>0, <1>2, <1>3 DEF Sent
  <2> QED BY <1>3, <2>1
<1>5. \A d \in Made : clients[d].refused = TRUE => clients'[d].refused = TRUE
  BY <1>2, <1>3
<1>6. /\ channel' \in Seq(FeedEvent) /\ Len(channel') <= Cap /\ \A i \in 1..Len(channel') : channel'[i].of \in Made
      /\ InOrder' /\ ToldAreSent' /\ NewestWait'
  <2>1. CASE Len(channel) < Cap
    <3>1. channel' = Append(channel, [of |-> c, n |-> 0])
      BY <1>0, <2>1
    <3>2. channel' \in Seq(FeedEvent) /\ Len(channel') <= Cap /\ \A i \in 1..Len(channel') : channel'[i].of \in Made
      BY <2>1, <3>1, Placed
    <3>3. InOrder' /\ ToldAreSent' /\ NewestWait'
      <4>1. PICK k \in Nat : k = 0
        OBVIOUS
      <4>2. channel' = Append(channel, [of |-> c, n |-> k])
        BY <3>1, <4>1
      <4> QED BY <1>0, <1>3, <1>4, <1>5, <4>1, <4>2, Enters DEF Sending
    <3> QED BY <3>2, <3>3
  <2>2. CASE ~(Len(channel) < Cap)
    <3>1. channel' = channel
      BY <1>0, <2>2
    <3>2. InOrder' /\ ToldAreSent' /\ NewestWait'
      BY <1>0, <1>3, <1>4, <1>5, <3>1, Rests DEF Sending
    <3> QED BY <3>1, <3>2 DEF FeedType
  <2> QED BY <2>1, <2>2
<1>7. AloneSending'
  BY <1>0, <1>2, <1>3, OnlyOne DEF Sending
<1>8. FeedType'
  BY <1>0, <1>3, <1>6 DEF FeedType, Made
<1> QED BY <1>6, <1>7, <1>8 DEF Sending

LEMMA DoneKeeps ==
  ASSUME FeedType, Sending, NEW c \in Made, Done(c)
  PROVE  Sending' /\ FeedType'
<1> DEFINE s == [clients[c] EXCEPT !.life = "dead"]
<1>0. /\ clients[c].pc = "idle" /\ told' = told /\ channel' = channel /\ Made' = 1..Len(clients') /\ Set(c, s)
      /\ instance' = instance /\ req' = req /\ map' = map /\ settled' = settled
  BY DEF Done, Made, feed
<1>1. clients[c] \in FeedClient
  BY Sender
<1>2. s \in FeedClient /\ s.pc = "idle" /\ s.n = clients[c].n /\ s.refused = clients[c].refused /\ s.alone = clients[c].alone
  BY <1>0, <1>1 DEF FeedClient
<1> HIDE DEF s
<1>3. /\ clients' \in Seq(FeedClient) /\ Len(clients') = Len(clients) /\ clients'[c] = s
      /\ \A d \in Made : d # c => clients'[d] = clients[d] /\ Sent(d)' = Sent(d)
  BY <1>0, <1>2, Sets
<1>4. \A d \in Made : Sent(d)' = Sent(d)
  <2>1. Sent(c)' = Sent(c)
    BY <1>0, <1>2, <1>3 DEF Sent
  <2> QED BY <1>3, <2>1
<1>5. InOrder' /\ ToldAreSent' /\ NewestWait'
  BY <1>0, <1>2, <1>3, <1>4, Rests DEF Sending
<1>6. AloneSending'
  <2>1. \A d : Waiting(d)' = Waiting(d)
    BY <1>0 DEF Waiting
  <2>2. \A d \in Made : clients'[d].pc = clients[d].pc /\ clients'[d].alone = clients[d].alone /\ clients'[d].n = clients[d].n
    BY <1>0, <1>2, <1>3
  <2> QED BY <1>0, <1>3, <2>1, <2>2 DEF Sending, AloneSending, Made
<1>7. FeedType'
  BY <1>0, <1>3 DEF FeedType, Made
<1> QED BY <1>5, <1>6, <1>7 DEF Sending

LEMMA TellKeeps ==
  ASSUME FeedType, Sending, Tell
  PROVE  Sending' /\ FeedType'
<1>0. /\ channel # <<>> /\ channel' = Tail(channel) /\ clients' = clients
      /\ told' = IF Head(channel).n = 0 THEN told ELSE [told EXCEPT ![Head(channel).of] = Head(channel).n]
      /\ instance' = instance /\ req' = req /\ map' = map /\ settled' = settled /\ Made' = Made
  BY DEF Tell, Made
<1>1. \A d : Sent(d)' = Sent(d)
  BY <1>0 DEF Sent
<1>2. InOrder' /\ ToldAreSent' /\ NewestWait'
  BY <1>0, <1>1, Leaves DEF Sending
<1>3. PICK h \in FeedEvent : h = Head(channel) /\ h = channel[1]
  BY <1>0, HeadIsFirst
<1>4. /\ channel' \in Seq(FeedEvent) /\ Len(channel') = Len(channel) - 1 /\ Len(channel) \in Nat \ {0}
      /\ \A i \in 1..Len(channel') : i + 1 \in 1..Len(channel) /\ channel'[i] = channel[i + 1]
      /\ Shorter(h)
  BY <1>0, <1>3, Shortens DEF Sending
<1>5. told \in Seq(Nat) /\ Len(told) = Len(clients) /\ h.n \in Nat /\ h.of \in 1..Len(told)
  BY <1>4 DEF FeedType, FeedEvent, Shorter, Made
<1>6. told' \in Seq(Nat) /\ Len(told') = Len(told) /\ \A d \in Made : told'[d] = told[d] \/ (d = h.of /\ told'[d] = h.n /\ h.n # 0)
  <2>1. CASE h.n = 0
    BY <1>0, <1>3, <1>5, <2>1
  <2>2. CASE h.n # 0
    <3>1. told' = [told EXCEPT ![h.of] = h.n]
      BY <1>0, <1>3, <2>2
    <3>2. told' \in Seq(Nat) /\ Len(told') = Len(told) /\ \A d \in 1..Len(told) : told'[d] = IF d = h.of THEN h.n ELSE told[d]
      BY <1>5, <3>1, ExceptSeq
    <3> QED BY <1>5, <2>2, <3>2 DEF Made
  <2> QED BY <2>1, <2>2
<1>7. FeedType'
  <2>1. Len(channel') <= Cap /\ \A i \in 1..Len(channel') : channel'[i].of \in Made
    <3>1. Len(channel) <= Cap /\ \A i \in 1..Len(channel) : channel[i].of \in Made
      BY DEF FeedType
    <3>2. Len(channel') <= Cap
      BY <1>4, <3>1, FeedNumbers
    <3> QED BY <1>4, <3>1, <3>2
  <2> QED BY <1>0, <1>4, <1>5, <1>6, <2>1 DEF FeedType
<1>8. AloneSending'
  <2> SUFFICES ASSUME NEW d \in Made, clients[d].pc # "idle", clients[d].alone = TRUE
               PROVE  /\ \A e \in Made : clients[e].pc # "idle" => e = d
                      /\ clients[d].pc = "retry" => Len(channel') < Cap
                      /\ clients[d].pc = "warn" => told'[d] = clients[d].n \/ clients[d].n \in Waiting(d)'
    BY <1>0 DEF AloneSending
  <2>1. /\ \A e \in Made : clients[e].pc # "idle" => e = d
        /\ clients[d].pc = "retry" => Len(channel) < Cap
        /\ clients[d].pc = "warn" => told[d] = clients[d].n \/ clients[d].n \in Waiting(d)
    BY DEF Sending, AloneSending
  <2>2. clients[d].pc = "retry" => Len(channel') < Cap
    BY <1>4, <2>1, FeedNumbers
  <2>3. ASSUME clients[d].pc = "warn" PROVE told'[d] = clients[d].n \/ clients[d].n \in Waiting(d)'
    <3>1. Sent(d) = clients[d].n
      BY <2>3 DEF Sent
    <3>2. CASE told[d] = clients[d].n
      <4>1. CASE told'[d] = told[d]
        BY <3>2, <4>1
      <4>2. CASE d = h.of /\ told'[d] = h.n /\ h.n # 0
        <5>1. h.n \in Waiting(d)
          BY <1>4, <4>2 DEF Shorter
        <5>2. told[d] < h.n /\ h.n <= Sent(d) /\ Sent(d) \in Nat
          BY <5>1 DEF Sending, ToldAreSent
        <5> QED BY <1>5, <3>1, <3>2, <5>2
      <4> QED BY <1>6, <4>1, <4>2
    <3>3. CASE clients[d].n \in Waiting(d)
      <4>1. clients[d].n \in Waiting(d)' \/ (d = h.of /\ clients[d].n = h.n)
        BY <1>4, <3>3 DEF Shorter
      <4>2. clients[d].n # 0
        BY <3>3, WaitingType
      <4>3. d = h.of /\ h.n # 0 => told'[d] = h.n
        <5>1. h.n # 0 => told' = [told EXCEPT ![h.of] = h.n]
          BY <1>0, <1>3
        <5> QED BY <1>5, <5>1
      <4> QED BY <4>1, <4>2, <4>3
    <3> QED BY <2>1, <2>3, <3>2, <3>3
  <2> QED BY <2>1, <2>2, <2>3
<1> QED BY <1>2, <1>7, <1>8 DEF Sending

\* Requests leave what is sent alone: the clients they make have sent nothing.
SendersStay ==
  /\ channel' = channel /\ Len(clients') \in Nat /\ Len(clients) <= Len(clients')
  /\ \A c \in Made : Sends(clients'[c], clients[c]) /\ told'[c] = told[c]
  /\ \A c \in 1..Len(clients') : c \notin Made => NewSender(clients'[c]) /\ told'[c] = 0

LEMMA RequestsStay ==
  ASSUME FeedType, NEW r \in Requests, NEW op \in Ops, Step(r) \/ Fail(r) \/ Begin(r, op)
  PROVE  SendersStay
<1>0. clients \in Seq(FeedClient) /\ Len(clients) \in Nat /\ Made = 1..Len(clients)
      /\ told \in Seq(Nat) /\ Len(told) = Len(clients)
  BY DEF FeedType, Made
<1>1. CASE StartClient(r)
  <2>1. /\ channel' = channel /\ told' = Append(told, 0)
        /\ clients' = Append(Lost(clients, map, req[r].passed), Client(req[r].row.v))
        /\ map \in Nat /\ req[r].passed \in BOOLEAN /\ req[r].row.v \in Nat
    BY <1>1 DEF StartClient, Lost, Made, FeedType, Request, Instance
  <2>2. OneMore(clients', clients, map, req[r].passed, req[r].row.v)
    BY <1>0, <2>1, StartedClient
  <2>3. \A c \in 1..Len(told) : told'[c] = told[c]
    BY <1>0, <2>1, Appended
  <2>4. told'[Len(told) + 1] = 0
    BY <1>0, <2>1, Appended
  <2>5. \A c \in 1..Len(clients') : c \notin Made => c = Len(clients) + 1
    BY <1>0, <2>2 DEF OneMore
  <2> QED BY <1>0, <2>1, <2>2, <2>3, <2>4, <2>5 DEF SendersStay, OneMore
<1>2. CASE RemoveClient(r) /\ map # NoClient
  <2>1. clients' = ClosedIn(clients, map) /\ channel' = channel /\ told' = told /\ map \in 1..Len(clients)
    <3>1. clients' = ClosedIn(clients, map)
      BY <1>2 DEF RemoveClient, ClosedIn
    <3>2. channel' = channel /\ told' = told
      BY <1>2 DEF RemoveClient, feed
    <3>3. map \in Nat /\ map <= Len(clients) /\ map # NoClient
      BY <1>2 DEF FeedType
    <3> QED BY <1>0, <3>1, <3>2, <3>3 DEF NoClient
  <2>2. /\ Len(clients') = Len(clients) /\ Sends(clients'[map], clients[map])
        /\ \A c \in 1..Len(clients) : c # map => clients'[c] = clients[c]
    BY <1>0, <2>1, ClosingClient
  <2>3. \A c \in Made : Sends(clients'[c], clients[c])
    BY <1>0, <2>2 DEF Sends
  <2> QED BY <1>0, <2>1, <2>2, <2>3 DEF SendersStay
<1>3. CASE ~StartClient(r) /\ ~(RemoveClient(r) /\ map # NoClient)
  <2>1. clients' = clients /\ feed' = feed
    BY <1>3 DEF Step, CreateInstance, UpdateInstance, Restore, Sync, DeleteInstance, RemoveClient, StopClient, Add, ReadRow,
                Fail, Begin, feed
  <2> QED BY <1>0, <2>1 DEF SendersStay, Sends, feed
<1> QED BY <1>1, <1>2, <1>3

LEMMA SendingKept ==
  ASSUME FeedType, Sending, SendersStay
  PROVE  Sending'
<1>1. /\ Made' = 1..Len(clients') /\ \A c \in Made : c \in Made' /\ channel \in Seq(FeedEvent)
      /\ \A i \in 1..Len(channel) : channel[i].of \in Made
  BY DEF FeedType, Made, SendersStay
<1>2. \A c : Waiting(c)' = Waiting(c)
  BY DEF Waiting, SendersStay
<1>3. \A c \in Made' : c \notin Made => Waiting(c) = {}
  BY <1>1 DEF Waiting
<1>4. \A c \in Made : Sent(c)' = Sent(c)
  BY DEF Sent, SendersStay, Sends
<1>5. \A c \in Made' : c \notin Made => Sent(c)' = 0
  BY <1>1 DEF Sent, SendersStay, NewSender
<1>6. InOrder'
  BY DEF Sending, InOrder, SendersStay
<1>7. ToldAreSent'
  BY <1>1, <1>2, <1>3, <1>4, <1>5 DEF Sending, ToldAreSent, SendersStay
<1>8. NewestWait'
  BY <1>1, <1>2, <1>3, <1>4 DEF Sending, NewestWait, SendersStay, Sends
<1>9. AloneSending'
  BY <1>1, <1>2 DEF Sending, AloneSending, SendersStay, Sends, NewSender
<1> QED BY <1>6, <1>7, <1>8, <1>9 DEF Sending

LEMMA RequestMeets ==
  ASSUME Meeting, NEW r \in Requests, NEW op \in Ops, Step(r) \/ Fail(r) \/ Begin(r, op)
  PROVE  Meeting'
BY CreateMeets, UpdateMeets, RestoreMeets, SyncMeets, DeleteMeets, RemoveMeets, StopMeets, AddMeets, ReadMeets, StartMeets,
   FailMeets, BeginMeets DEF Step

\* What a client's step leaves alone.
LEMMA ClientMeets ==
  ASSUME Meeting, Sending, NEW c \in Made, Done(c) \/ Emit(c) \/ Event(c)
  PROVE  Meeting' /\ Sending'
<1>1. FeedType' /\ Sending'
  BY SendKeeps, DropKeeps, RetryKeeps, WarnKeeps, DoneKeeps, StartsSending DEF Emit, Meeting
<1>2. instance' = instance /\ req' = req /\ map' = map /\ settled' = settled
  BY DEF Done, Emit, Event, Send, DropOldest, Retry, Warn
<1>3. \A d \in Made : clients[d] \in FeedClient
  BY Sender DEF Meeting
<1>4. CASE Event(c)
  <2>1. \A d \in Made : clients'[d] =
          IF d = c THEN [clients[c] EXCEPT !.pc = "send", !.n = @ + 1, !.alone = Emitting = {}]
          ELSE IF d \in Emitting THEN [clients[d] EXCEPT !.alone = FALSE] ELSE clients[d]
    BY <1>4 DEF Event
  <2>2. Len(clients') = Len(clients)
    <3>1. DOMAIN clients' = Made
      BY <1>4 DEF Event
    <3>2. DOMAIN clients' = 1..Len(clients') /\ Len(clients') \in Nat /\ Len(clients) \in Nat
      BY <1>1, LenProperties DEF FeedType, Meeting
    <3> QED BY <3>1, <3>2 DEF Made
  <2>3. \A d \in Made : clients'[d].v = clients[d].v /\ clients'[d].lost = clients[d].lost /\ clients'[d].life = clients[d].life
    <3> SUFFICES ASSUME NEW d \in Made
                 PROVE  clients'[d].v = clients[d].v /\ clients'[d].lost = clients[d].lost /\ clients'[d].life = clients[d].life
      OBVIOUS
    <3>1. PICK u \in FeedClient : u = clients[d]
      BY <1>3
    <3>2. CASE d = c
      <4>1. PICK a \in BOOLEAN : a = (Emitting = {})
        OBVIOUS
      <4>2. PICK m \in Nat : m = u.n + 1
        BY DEF FeedClient
      <4>3. clients'[d] = [u EXCEPT !.pc = "send", !.n = m, !.alone = a]
        BY <2>1, <3>1, <3>2, <4>1, <4>2
      <4>4. clients'[d].v = u.v /\ clients'[d].lost = u.lost /\ clients'[d].life = u.life
        BY <4>3 DEF FeedClient
      <4> QED BY <3>1, <4>4
    <3>3. CASE d # c /\ d \in Emitting
      <4>1. clients'[d] = [u EXCEPT !.alone = FALSE]
        BY <2>1, <3>1, <3>3
      <4>2. clients'[d].v = u.v /\ clients'[d].lost = u.lost /\ clients'[d].life = u.life
        BY <4>1 DEF FeedClient
      <4> QED BY <3>1, <4>2
    <3>4. CASE d # c /\ d \notin Emitting
      BY <2>1, <3>4
    <3> QED BY <3>2, <3>3, <3>4
  <2> QED BY <1>1, <1>2, <2>2, <2>3, OthersMeet
<1>5. CASE ~Event(c)
  <2>1. PICK s \in FeedClient :
          /\ Set(c, s) /\ s.v = clients[c].v /\ s.lost = clients[c].lost
          /\ s.life = clients[c].life \/ (clients[c].life = "closing" /\ s.life = "dead")
    <3>1. PICK u \in FeedClient : u = clients[c]
      BY <1>3
    <3>2. \/ Set(c, [u EXCEPT !.pc = "idle", !.alone = TRUE]) \/ Set(c, [u EXCEPT !.pc = "drop"])
          \/ Set(c, [u EXCEPT !.pc = "retry"]) \/ Set(c, [u EXCEPT !.pc = "warn"])
          \/ Set(c, [u EXCEPT !.pc = "warn", !.refused = TRUE])
          \/ Set(c, [u EXCEPT !.life = "dead"]) /\ u.life = "closing"
      BY <1>5, <3>1 DEF Done, Emit, Send, DropOldest, Retry, Warn
    <3>3. CASE Set(c, [u EXCEPT !.pc = "idle", !.alone = TRUE])
      <4>1. PICK w \in FeedClient : w = [u EXCEPT !.pc = "idle", !.alone = TRUE]
        BY Emits
      <4>2. w.v = u.v /\ w.lost = u.lost /\ w.life = u.life
        BY <4>1 DEF FeedClient
      <4> QED BY <3>1, <3>3, <4>1, <4>2
    <3>4. CASE Set(c, [u EXCEPT !.pc = "drop"])
      <4>1. PICK w \in FeedClient : w = [u EXCEPT !.pc = "drop"]
        BY Emits
      <4>2. w.v = u.v /\ w.lost = u.lost /\ w.life = u.life
        BY <4>1 DEF FeedClient
      <4> QED BY <3>1, <3>4, <4>1, <4>2
    <3>5. CASE Set(c, [u EXCEPT !.pc = "retry"])
      <4>1. PICK w \in FeedClient : w = [u EXCEPT !.pc = "retry"]
        BY Emits
      <4>2. w.v = u.v /\ w.lost = u.lost /\ w.life = u.life
        BY <4>1 DEF FeedClient
      <4> QED BY <3>1, <3>5, <4>1, <4>2
    <3>6. CASE Set(c, [u EXCEPT !.pc = "warn"])
      <4>1. PICK w \in FeedClient : w = [u EXCEPT !.pc = "warn"]
        BY Emits
      <4>2. w.v = u.v /\ w.lost = u.lost /\ w.life = u.life
        BY <4>1 DEF FeedClient
      <4> QED BY <3>1, <3>6, <4>1, <4>2
    <3>7. CASE Set(c, [u EXCEPT !.pc = "warn", !.refused = TRUE])
      <4>1. PICK w \in FeedClient : w = [u EXCEPT !.pc = "warn", !.refused = TRUE]
        BY Emits
      <4>2. w.v = u.v /\ w.lost = u.lost /\ w.life = u.life
        BY <4>1 DEF FeedClient
      <4> QED BY <3>1, <3>7, <4>1, <4>2
    <3>8. CASE Set(c, [u EXCEPT !.life = "dead"]) /\ u.life = "closing"
      <4>1. PICK w \in FeedClient : w = [u EXCEPT !.life = "dead"]
        BY Emits
      <4>2. w.v = u.v /\ w.lost = u.lost /\ w.life = "dead"
        BY <4>1 DEF FeedClient
      <4> QED BY <3>1, <3>8, <4>1, <4>2
    <3> QED BY <3>2, <3>3, <3>4, <3>5, <3>6, <3>7, <3>8
  <2>2. /\ Len(clients') = Len(clients) /\ clients'[c] = s
        /\ \A d \in Made : d # c => clients'[d] = clients[d]
    BY <2>1, Sets DEF Meeting
  <2> QED BY <1>1, <1>2, <2>1, <2>2, OthersMeet
<1> QED BY <1>1, <1>4, <1>5

LEMMA FeedStarts == MInit => FeedIInv
<1> SUFFICES ASSUME MInit PROVE FeedIInv
  OBVIOUS
<1>1. instance \in Instance
  BY IdleType DEF MInit, Instance
<1>2. Starting
  BY DEF MInit, Starting
<1>3. Bounds
  BY FeedNumbers DEF MInit, Bounds
<1> QED BY <1>1, <1>2, <1>3, StartingMeets DEF FeedIInv

LEMMA BoundsKept == Bounds /\ [MNext]_mvars => Bounds'
<1> SUFFICES ASSUME Bounds, [MNext]_mvars PROVE Bounds'
  OBVIOUS
<1>0. /\ changes \in Nat /\ events \in Nat /\ faults \in Nat /\ MaxWork \in Nat /\ MaxChanges \in Nat /\ MaxFaults \in Nat
      /\ changes <= MaxChanges /\ changes + events <= MaxWork /\ faults <= MaxFaults
  BY FeedNumbers DEF Bounds
<1>1. CASE changes' = changes /\ events' = events /\ faults' = faults
  BY <1>0, <1>1 DEF Bounds
<1>2. ASSUME NEW r \in Requests, NEW op \in Ops, Begin(r, op) PROVE Bounds'
  <2>1. changes < MaxChanges /\ changes + events < MaxWork /\ changes' = changes + 1 /\ events' = events /\ faults' = faults
    BY <1>2 DEF Begin
  <2> QED BY <1>0, <2>1 DEF Bounds
<1>3. ASSUME NEW r \in Requests, Step(r) PROVE changes' = changes /\ events' = events /\ faults' = faults
  BY <1>3 DEF Step, CreateInstance, UpdateInstance, Restore, Sync, DeleteInstance, RemoveClient, StopClient, Add, ReadRow,
     StartClient
<1>4. ASSUME NEW c \in Made, Done(c) \/ Emit(c) PROVE changes' = changes /\ events' = events /\ faults' = faults
  BY <1>4 DEF Done, Emit, Send, DropOldest, Retry, Warn
<1>5. ASSUME NEW c \in Made, Event(c) PROVE Bounds'
  <2>1. changes + events < MaxWork /\ changes' = changes /\ events' = events + 1 /\ faults' = faults
    BY <1>5 DEF Event
  <2> QED BY <1>0, <2>1 DEF Bounds
<1>6. CASE Tell \/ UNCHANGED mvars
  BY <1>1, <1>6 DEF Tell, mvars
<1>7. ASSUME (\E r \in Requests : Fail(r)) \/ ManagerRestarts PROVE Bounds'
  <2>1. faults < MaxFaults /\ changes' = changes /\ events' = events /\ faults' = faults + 1
    BY <1>7 DEF Fail, ManagerRestarts
  <2> QED BY <1>0, <2>1 DEF Bounds
<1> QED BY <1>1, <1>2, <1>3, <1>4, <1>5, <1>6, <1>7 DEF MNext

LEMMA FeedKept == FeedIInv /\ [MNext]_mvars => FeedIInv'
<1> SUFFICES ASSUME FeedIInv, [MNext]_mvars PROVE Meeting' /\ Sending'
  BY BoundsKept DEF FeedIInv
<1>0. Meeting /\ Sending /\ FeedType
  BY DEF FeedIInv, Meeting
<1>1. ASSUME NEW r \in Requests, NEW op \in Ops, Step(r) \/ Fail(r) \/ Begin(r, op)
      PROVE  Meeting' /\ Sending'
  BY <1>0, <1>1, RequestMeets, RequestsStay, SendingKept
<1>2. ASSUME NEW c \in Made, Done(c) \/ Emit(c) \/ Event(c) PROVE Meeting' /\ Sending'
  BY <1>0, <1>2, ClientMeets
<1>3. CASE Tell
  <2>1. FeedType' /\ Sending'
    BY <1>0, <1>3, TellKeeps
  <2>2. instance' = instance /\ req' = req /\ map' = map /\ settled' = settled /\ clients' = clients
    BY <1>3 DEF Tell
  <2> QED BY <1>0, <2>1, <2>2, OthersMeet
<1>4. CASE ManagerRestarts
  <2>1. instance' \in Instance
    BY <1>0, <1>4 DEF FeedType, ManagerRestarts
  <2>2. Starting'
    <3>1. EnabledClients' = EnabledClients
      BY <1>4 DEF ManagerRestarts, EnabledClients
    <3>2. Made' = DOMAIN clients'
      <4>1. clients' \in Seq(FeedClient)
        <5>1. clients' = EnabledClients /\ instance.v \in Nat
          BY <1>0, <1>4 DEF ManagerRestarts, FeedType, Instance
        <5>2. CASE instance.state = "there" /\ instance.on
          <6>1. PICK u \in FeedClient : u = Client(instance.v)
            BY <5>1, ClientType
          <6>2. clients' = <<u>>
            BY <5>1, <5>2, <6>1 DEF EnabledClients
          <6>3. <<u>> \in Seq(FeedClient)
            OBVIOUS
          <6> QED BY <6>2, <6>3
        <5>3. CASE ~(instance.state = "there" /\ instance.on)
          <6>1. clients' = <<>>
            BY <5>1, <5>3 DEF EnabledClients
          <6>2. <<>> \in Seq(FeedClient)
            OBVIOUS
          <6> QED BY <6>1, <6>2
        <5> QED BY <5>2, <5>3
      <4> QED BY <4>1, LenProperties DEF Made
    <3> QED BY <1>4, <3>1, <3>2 DEF ManagerRestarts, Starting
  <2>3. (instance \in Instance /\ Starting => Meeting /\ Sending)'
    BY StartingMeets, PTL
  <2> QED BY <2>1, <2>2, <2>3
<1>5. CASE UNCHANGED mvars
  <2>1. instance' = instance /\ req' = req /\ map' = map /\ settled' = settled /\ clients' = clients
        /\ channel' = channel /\ told' = told
    BY <1>5 DEF mvars, feed
  <2>2. FeedType'
    BY <1>0, <2>1 DEF FeedType, Made
  <2>3. SendersStay
    BY <1>0, <2>1 DEF SendersStay, Sends, FeedType, Made
  <2> QED BY <1>0, <2>1, <2>2, <2>3, OthersMeet, SendingKept
<1>6. "create" \in Ops
  BY DEF Ops
<1> QED BY <1>1, <1>2, <1>3, <1>4, <1>5, <1>6 DEF MNext

THEOREM FeedIsKept == MSpec => []FeedIInv
BY FeedStarts, FeedKept, PTL DEF MSpec

\* However many requests and events there are, and whatever fails: a client
\* that runs is in the map, where the next change finds it and stops it, or was
\* lost by two changes that started one each (Manager.Add's look-up and write).
THEOREM ForgottenAreAlwaysConcurrent == MSpec => []ForgottenAreConcurrent
<1>1. FeedIInv => ForgottenAreConcurrent
  <2> SUFFICES ASSUME FeedIInv PROVE ForgottenAreConcurrent
    OBVIOUS
  <2>1. MTypeOK
    BY DEF FeedIInv, Meeting, FeedType, Bounds, MTypeOK, Instance, Request, Made, NoClient
  <2>2. \A c \in Made : clients[c].life = "live" => map = c \/ clients[c].lost
    BY DEF FeedIInv, Meeting, Forgetting
  <2> QED BY <2>1, <2>2 DEF ForgottenAreConcurrent
<1> QED BY <1>1, FeedIsKept, PTL

\* After a change that ran alone no client has settings that are not the row's,
\* and an enabled one has a client unless a stop timed out, whatever ran at once
\* before it (Add, Update and Remove after the query).
THEOREM FeedIsAlwaysAsSaved == MSpec => []FeedIsAsSaved
<1>1. FeedIInv => FeedIsAsSaved
  <2> SUFFICES ASSUME FeedIInv, Busy = {}, settled.good = TRUE
               PROVE  /\ map # NoClient =>
                           clients[map].life = "live" /\ instance.state = "there" /\ clients[map].v = instance.v
                      /\ instance.state = "there" /\ instance.on => map # NoClient \/ settled.op = "cut"
                      /\ instance.state = "there" /\ ~instance.on /\ map # NoClient =>
                           settled.op \in {"patch", "reconnect"}
    BY DEF FeedIsAsSaved, FeedIInv, Meeting, FeedType
  <2>1. \A r \in Requests : req[r].pc = "idle"
    BY IdleType DEF Busy
  <2>2. AsItSays /\ Mapped /\ instance \in Instance
    BY <2>1 DEF FeedIInv, Meeting, LastStands, FeedType
  <2> QED BY <2>2 DEF AsItSays, Mapped, Connects, Instance
<1> QED BY <1>1, FeedIsKept, PTL

\* With any channel and any number of clients, what is dropped is the oldest,
\* and what is told is in order (emit and the goroutine of main).
THEOREM NewestAreKept == MSpec => []NewestIsKept
<1>1. FeedIInv => NewestIsKept
  BY DEF FeedIInv, Sending, NewestIsKept, InOrder, ToldAreSent, NewestWait, AloneSending
<1> QED BY <1>1, FeedIsKept, PTL

-----------------------------------------------------------------------------
(* Forwarding.                                                             *)

\* What a worker has in hand where it stands: tries it has left, and an
\* outcome once there is one.
WorkersInv ==
  \A g \in Gens, t \in Targets :
    /\ worker[g][t].at = "idle" => worker[g][t].tries = 0
    /\ worker[g][t].at \in {"pushing", "waiting"} => worker[g][t].tries < Attempts
    /\ worker[g][t].at \in {"recording", "saving"} => worker[g][t].got \in Outcomes

\* A test is under way for at most one admin, of a webhook.
TestsInv ==
  /\ \A a \in Admins : admin[a] = "testing" => kind = "webhook" /\ tester # Untested
  /\ \A a, b \in Admins : admin[a] = "testing" /\ admin[b] = "testing" => a = b

\* A call is sent to workers there are.
NotesInv == \A c \in 1..Calls : note[c].at = "sending" => note[c].gen \in Gens

\* Of a downstream: nothing is known of one that was not created yet, and
\* the outcome a worker is about to save is the one it made known, unless the
\* target was deleted meanwhile.
OutcomesInv ==
  kind = "downstream" =>
    \A t \in Targets :
      /\ row[t].state = "absent" => known[t] = Unknown /\ \A g \in Gens : ~Running(g, t)
      /\ \A g \in Gens : worker[g][t].at = "saving" => known[t] \in {Unknown, worker[g][t].got}

IInv ==
  /\ ConfigTakesEffect /\ RowAgrees
  /\ WorkersInv /\ TestsInv /\ NotesInv /\ OutcomesInv

USE DEF service, outcomes, editing, Gens, Outcomes

LEMMA Numbers == /\ Calls \in Nat \ {0} /\ Attempts \in Nat \ {0} /\ QueueCap \in Nat \ {0}
                 /\ MaxGens \in Nat \ {0} /\ MaxEdits \in Nat \ {0}
BY ForwardingAssumption DEF ForwardingAssumption

\* The workers there can be.
LEMMA WorkerTypes ==
  /\ NoWorker \in Worker /\ NoWorker.at = "none"
  /\ Ended \in Worker /\ Ended.at = "gone"
  /\ \A v \in 0..MaxEdits : /\ Fresh(v) \in Worker /\ Fresh(v).at = "idle"
                            /\ Fresh(v).version = v /\ Fresh(v).tries = 0
BY Numbers DEF NoWorker, Ended, Fresh, Resting, Worker, Unknown

LEMMA InitInv == Init => IInv
<1> SUFFICES ASSUME Init PROVE IInv
  OBVIOUS
<1> USE Numbers
<1>1. TypeOK
  <2>1. row \in [Targets -> Row]
    BY DEF Init, Row
  <2>2. Spawned \in [Targets -> Worker] /\ [t \in Targets |-> NoWorker] \in [Targets -> Worker]
    BY <2>1, WorkerTypes DEF Spawned, Row
  <2>3. worker \in [Gens -> [Targets -> Worker]]
    BY <2>2, Zenon DEF Init
  <2>4. queue \in [Gens -> [Targets -> 0..QueueCap]]
    BY DEF Init
  <2>5. note \in [1..Calls -> Note]
    BY DEF Init, Note
  <2>6. tester \in [target : Targets, got : Outcomes] \union {Untested}
    BY DEF Init
  <2>7. gen \in Gens /\ published \in BOOLEAN /\ cancelled \in [Gens -> BOOLEAN]
    BY DEF Init
  <2> QED BY <2>1, <2>3, <2>4, <2>5, <2>6, <2>7 DEF Init, TypeOK
<1>2. OneGeneration
  BY NamesAssumption DEF Init, OneGeneration, Running, NoWorker, Resting
<1>3. ConfigTakesEffect
  BY <1>1, <1>2 DEF Init, ConfigTakesEffect, ForwardingInv, Running, Spawned, Fresh, NoWorker, Resting, Active
<1>4. RowAgrees /\ WorkersInv /\ TestsInv /\ NotesInv /\ OutcomesInv
  BY DEF Init, RowAgrees, WorkersInv, TestsInv, NotesInv, OutcomesInv, Running, Spawned, Fresh, NoWorker, Resting, Active
<1> QED BY <1>3, <1>4 DEF IInv

-----------------------------------------------------------------------------
(* Steps that change one part of the state only.                           *)

\* A running worker that goes on, with the settings it has, keeps the
\* settings in effect.
LEMMA WorkerGoesOn ==
  ASSUME IInv, NEW g \in Gens, NEW t \in Targets, NEW w \in Worker, Running(g, t), Become(g, t, w),
         w.at \notin {"none", "gone"}, w.version = worker[g][t].version,
         \/ queue' = queue
         \/ queue[g][t] > 0 /\ queue' = [queue EXCEPT ![g][t] = @ - 1],
         known' \in [Targets -> Outcomes \union {Unknown}],
         saved' \in [Targets -> Outcomes \union {Unknown}],
         UNCHANGED <<kind, service, note, row, admin, holder, tester, excused>>
  PROVE  ConfigTakesEffect' /\ TestsInv' /\ NotesInv'
<1>1. TypeOK /\ OneGeneration /\ ConfigTakesEffect
  BY DEF IInv, ConfigTakesEffect, ForwardingInv
<1>2. worker \in [Gens -> [Targets -> Worker]] /\ queue \in [Gens -> [Targets -> 0..QueueCap]] /\ gen \in Gens
  BY <1>1 DEF TypeOK
<1>3. /\ worker' \in [Gens -> [Targets -> Worker]]
      /\ \A h \in Gens, u \in Targets : worker'[h][u] = IF h = g /\ u = t THEN w ELSE worker[h][u]
  BY <1>2 DEF Become
<1>4. /\ queue' \in [Gens -> [Targets -> 0..QueueCap]]
      /\ \A h \in Gens, u \in Targets : h # g => queue'[h][u] = queue[h][u]
  <2>1. CASE queue' = queue
    BY <1>2, <2>1
  <2>2. CASE queue[g][t] > 0 /\ queue' = [queue EXCEPT ![g][t] = @ - 1]
    <3>1. queue[g][t] \in 0..QueueCap /\ queue[g][t] - 1 \in 0..QueueCap
      BY <1>2, <2>2, Numbers
    <3> QED BY <1>2, <2>2, <3>1
  <2> QED BY <2>1, <2>2
<1>5. TypeOK'
  BY <1>1, <1>3, <1>4 DEF TypeOK
<1>6. \A h \in Gens, u \in Targets : Running(h, u)' <=> Running(h, u)
  BY <1>3 DEF Running
<1>7. OneGeneration'
  <2>1. g = gen
    BY <1>1 DEF OneGeneration
  <2>2. UNCHANGED <<gen, published, cancelled, admin, holder>>
    OBVIOUS
  <2>3. \A h \in Gens : h > gen => \A u \in Targets : worker'[h][u] = NoWorker /\ queue'[h][u] = 0
    BY <1>1, <1>2, <1>3, <1>4, <2>1 DEF OneGeneration
  <2> QED BY <1>1, <1>6, <2>2, <2>3 DEF OneGeneration
<1>8. ConfigTakesEffect'
  <2>1. \A u \in Targets : worker'[gen][u].version = worker[gen][u].version
    BY <1>2, <1>3
  <2> QED BY <1>1, <1>2, <1>5, <1>6, <1>7, <2>1 DEF ConfigTakesEffect, ForwardingInv, Active
<1>9. TestsInv' /\ NotesInv'
  BY DEF IInv, TestsInv, NotesInv
<1> QED BY <1>8, <1>9

\* A step that leaves the workers and the settings alone keeps the settings
\* in effect.
LEMMA WorkersStay ==
  ASSUME IInv, TypeOK', UNCHANGED <<gen, published, cancelled, worker, row, holder, excused>>,
         \A g \in Gens, t \in Targets : g > gen => queue'[g][t] = queue[g][t],
         \A a \in Admins : \/ admin'[a] = admin[a]
                           \/ {admin[a], admin'[a]} \subseteq {"idle", "testing"}
  PROVE  ConfigTakesEffect'
<1>1. TypeOK /\ OneGeneration /\ ConfigTakesEffect
  BY DEF IInv, ConfigTakesEffect, ForwardingInv
<1>2. \A g \in Gens, t \in Targets : Running(g, t)' <=> Running(g, t)
  BY DEF Running
<1>3. OneGeneration'
  <2>1. \A a \in Admins : (admin[a] = "stopping")' <=> admin[a] = "stopping"
    OBVIOUS
  <2> QED BY <1>1, <1>2, <2>1 DEF OneGeneration, TypeOK
<1>4. (\A a \in Admins : admin'[a] \in {"idle", "testing"}) => \A a \in Admins : admin[a] \in {"idle", "testing"}
  OBVIOUS
<1> QED BY <1>1, <1>2, <1>3, <1>4 DEF ConfigTakesEffect, ForwardingInv, Active, TypeOK

-----------------------------------------------------------------------------
(* A call is accepted.                                                     *)

LEMMA NotifyInv ==
  ASSUME IInv, NEW c \in 1..Calls, Notify(c)
  PROVE  IInv'
<1>1. TypeOK
  BY DEF IInv, ConfigTakesEffect, ForwardingInv
<1>2. /\ note' \in [1..Calls -> Note]
      /\ NotesInv'
  <2>1. gen \in 0..MaxGens /\ note \in [1..Calls -> Note] /\ NotesInv
    BY <1>1, Numbers DEF TypeOK, IInv
  <2>2. CASE note' = [note EXCEPT ![c] = Notified]
    BY <2>1, <2>2, Numbers DEF Notified, NotesInv, Note
  <2>3. CASE note' = [note EXCEPT ![c] = [at |-> "sending", gen |-> gen,
                                          left |-> {t \in Targets : worker[gen][t].at # "none"}]]
    BY <1>1, <2>1, <2>3 DEF NotesInv, Note, TypeOK
  <2> QED BY <2>2, <2>3 DEF Notify
<1>3. UNCHANGED <<kind, service, worker, queue, outcomes, editing, tester>>
  BY DEF Notify
<1>4. TypeOK'
  BY <1>1, <1>2, <1>3 DEF TypeOK
<1>5. ConfigTakesEffect'
  BY <1>3, <1>4, WorkersStay
<1> QED BY <1>2, <1>3, <1>5 DEF IInv, RowAgrees, Saving, Stored, WorkersInv, TestsInv, OutcomesInv, Running

LEMMA EnqueueInv ==
  ASSUME IInv, NEW c \in 1..Calls, NEW t \in Targets, Enqueue(c, t)
  PROVE  IInv'
<1>1. TypeOK /\ OneGeneration /\ note[c].gen \in Gens
  BY DEF IInv, ConfigTakesEffect, ForwardingInv, Enqueue, NotesInv
<1>2. UNCHANGED <<kind, service, worker, outcomes, editing, tester>>
  BY DEF Enqueue
<1>3. /\ note' \in [1..Calls -> Note]
      /\ NotesInv'
  <2>1. note \in [1..Calls -> Note] /\ NotesInv
    BY <1>1 DEF TypeOK, IInv
  <2>2. CASE note' = [note EXCEPT ![c] = Notified]
    BY <2>1, <2>2, Numbers DEF Notified, NotesInv, Note
  <2>3. CASE note' = [note EXCEPT ![c].left = @ \ {t}]
    BY <1>1, <2>1, <2>3 DEF NotesInv, Note
  <2> QED BY <2>2, <2>3 DEF Enqueue
<1>4. /\ queue' \in [Gens -> [Targets -> 0..QueueCap]]
      /\ \A h \in Gens, u \in Targets : h > gen => queue'[h][u] = queue[h][u]
  <2>0. queue \in [Gens -> [Targets -> 0..QueueCap]]
    BY <1>1 DEF TypeOK
  <2>1. CASE queue' = queue
    BY <2>0, <2>1
  <2>2. CASE /\ queue[note[c].gen][t] < QueueCap /\ Running(note[c].gen, t)
             /\ queue' = [queue EXCEPT ![note[c].gen][t] = @ + 1]
    <3>1. queue[note[c].gen][t] + 1 \in 0..QueueCap
      BY <1>1, <2>0, <2>2, Numbers
    <3>2. note[c].gen = gen
      BY <1>1, <2>2 DEF OneGeneration
    <3> QED BY <1>1, <2>0, <2>2, <3>1, <3>2
  <2> QED BY <2>1, <2>2 DEF Enqueue
<1>5. TypeOK'
  BY <1>1, <1>2, <1>3, <1>4 DEF TypeOK
<1>6. ConfigTakesEffect'
  BY <1>2, <1>4, <1>5, WorkersStay
<1> QED BY <1>2, <1>3, <1>6 DEF IInv, RowAgrees, Saving, Stored, WorkersInv, TestsInv, OutcomesInv, Running

-----------------------------------------------------------------------------
(* A worker.                                                               *)

\* A worker that moves on keeps the rest of what it is.
LEMMA Moved ==
  ASSUME NEW w \in Worker, NEW at \in {"idle", "pushing", "waiting", "recording", "saving"}
  PROVE  /\ [w EXCEPT !.at = at] \in Worker
         /\ [w EXCEPT !.at = at].at = at /\ [w EXCEPT !.at = at].version = w.version
         /\ [w EXCEPT !.at = at].tries = w.tries /\ [w EXCEPT !.at = at].got = w.got
BY DEF Worker

LEMMA MovedWith ==
  ASSUME NEW w \in Worker, NEW got \in Outcomes
  PROVE  LET x == [w EXCEPT !.at = "recording", !.got = got] IN
           x \in Worker /\ x.at = "recording" /\ x.version = w.version /\ x.got = got
BY DEF Worker

LEMMA TriedAgain ==
  ASSUME NEW w \in Worker, w.tries < Attempts, w.tries + 1 # Attempts
  PROVE  LET x == [w EXCEPT !.at = "waiting", !.tries = @ + 1] IN
           x \in Worker /\ x.at = "waiting" /\ x.version = w.version /\ x.tries < Attempts
<1>1. w.tries + 1 \in 0..Attempts /\ w.tries + 1 < Attempts
  BY Numbers DEF Worker
<1> QED BY <1>1 DEF Worker

\* What the other workers had in hand they have still.
LEMMA OthersStay ==
  ASSUME IInv, NEW g \in Gens, NEW t \in Targets, NEW w \in Worker, Become(g, t, w)
  PROVE  \A h \in Gens, u \in Targets : worker'[h][u] = IF h = g /\ u = t THEN w ELSE worker[h][u]
BY DEF IInv, ConfigTakesEffect, ForwardingInv, TypeOK, Become

\* A worker that goes on and neither knows nor saves an outcome.
LEMMA WorkerWorks ==
  ASSUME IInv, NEW g \in Gens, NEW t \in Targets, NEW w \in Worker, Running(g, t), Become(g, t, w),
         w.at \in {"idle", "pushing", "waiting", "recording"}, w.version = worker[g][t].version,
         w.at = "idle" => w.tries = 0,
         w.at \in {"pushing", "waiting"} => w.tries < Attempts,
         w.at = "recording" => w.got \in Outcomes,
         worker[g][t].at # "saving",
         \/ queue' = queue
         \/ queue[g][t] > 0 /\ queue' = [queue EXCEPT ![g][t] = @ - 1],
         UNCHANGED <<kind, service, note, outcomes, editing, tester>>
  PROVE  IInv'
<1>1. TypeOK
  BY DEF IInv, ConfigTakesEffect, ForwardingInv
<1>2. ConfigTakesEffect' /\ TestsInv' /\ NotesInv'
  <2>1. known' \in [Targets -> Outcomes \union {Unknown}] /\ saved' \in [Targets -> Outcomes \union {Unknown}]
    BY <1>1 DEF TypeOK
  <2> QED BY <2>1, WorkerGoesOn
<1>3. \A h \in Gens, u \in Targets : worker'[h][u] = IF h = g /\ u = t THEN w ELSE worker[h][u]
  BY OthersStay
<1>4. WorkersInv'
  BY <1>3 DEF IInv, WorkersInv
<1>5. RowAgrees'
  BY <1>3 DEF IInv, RowAgrees, Saving, Stored
<1>6. OutcomesInv'
  BY <1>3 DEF IInv, OutcomesInv, Running
<1> QED BY <1>2, <1>4, <1>5, <1>6 DEF IInv

LEMMA TakeInv ==
  ASSUME IInv, NEW g \in Gens, NEW t \in Targets, Take(g, t)
  PROVE  IInv'
<1>1. worker[g][t] \in Worker /\ worker[g][t].at = "idle" /\ Running(g, t)
  BY DEF IInv, ConfigTakesEffect, ForwardingInv, TypeOK, Take, Running
<1>2. worker[g][t].tries = 0 /\ 0 < Attempts
  BY <1>1, Numbers DEF IInv, WorkersInv
<1>3. queue[g][t] > 0 /\ queue' = [queue EXCEPT ![g][t] = @ - 1]
      /\ UNCHANGED <<kind, service, note, outcomes, editing, tester>>
  BY DEF Take
<1>4. CASE Become(g, t, worker[g][t])
  BY <1>1, <1>2, <1>3, <1>4, WorkerWorks
<1>5. CASE Become(g, t, [worker[g][t] EXCEPT !.at = "pushing"])
  <2> DEFINE w == [worker[g][t] EXCEPT !.at = "pushing"]
  <2>1. w \in Worker /\ w.at = "pushing" /\ w.version = worker[g][t].version /\ w.tries < Attempts
    BY <1>1, <1>2, Moved
  <2> HIDE DEF w
  <2> QED BY <1>1, <1>2, <1>3, <1>5, <2>1, WorkerWorks DEF w
<1> QED BY <1>4, <1>5 DEF Take

LEMMA ExitInv ==
  ASSUME IInv, NEW g \in Gens, NEW t \in Targets, Exit(g, t)
  PROVE  IInv'
<1>1. TypeOK /\ OneGeneration /\ ConfigTakesEffect
  BY DEF IInv, ConfigTakesEffect, ForwardingInv
<1>2. \A h \in Gens, u \in Targets : worker'[h][u] = IF h = g /\ u = t THEN Ended ELSE worker[h][u]
  BY OthersStay, WorkerTypes DEF Exit
<1>3. TypeOK'
  <2>1. worker \in [Gens -> [Targets -> Worker]] /\ queue \in [Gens -> [Targets -> 0..QueueCap]]
    BY <1>1 DEF TypeOK
  <2>2. worker' \in [Gens -> [Targets -> Worker]]
    BY <2>1, WorkerTypes DEF Exit, Become
  <2>3. queue' \in [Gens -> [Targets -> 0..QueueCap]]
    BY <2>1, Numbers DEF Exit
  <2> QED BY <1>1, <2>2, <2>3 DEF Exit, TypeOK
<1>4. \A h \in Gens, u \in Targets : Running(h, u)' => Running(h, u)
  BY <1>2, WorkerTypes DEF Running
<1>5. g = gen /\ cancelled[g]
  BY <1>1 DEF OneGeneration, Running, Exit
<1>6. ConfigTakesEffect'
  <2>1. OneGeneration'
    <3>1. \A h \in Gens, u \in Targets : h # g => queue'[h][u] = queue[h][u]
      BY <1>1 DEF TypeOK, Exit
    <3> QED BY <1>1, <1>2, <1>4, <1>5, <3>1 DEF Exit, OneGeneration
  <2>2. ~((\A a \in Admins : admin[a] \in {"idle", "testing"}) /\ ~excused)
    BY <1>1, <1>5 DEF ConfigTakesEffect, Exit, Running
  <2> QED BY <1>3, <2>1, <2>2 DEF ConfigTakesEffect, ForwardingInv, Exit
<1>7. WorkersInv'
  BY <1>2, WorkerTypes DEF IInv, WorkersInv
<1>8. RowAgrees' /\ OutcomesInv'
  BY <1>2, <1>4, WorkerTypes DEF IInv, RowAgrees, OutcomesInv, Saving, Stored, Exit
<1>9. TestsInv' /\ NotesInv'
  BY DEF IInv, TestsInv, NotesInv, Exit
<1> QED BY <1>6, <1>7, <1>8, <1>9 DEF IInv

\* An answer, or another try.
LEMMA PushInv ==
  ASSUME IInv, NEW g \in Gens, NEW t \in Targets, worker[g][t].at = "pushing",
         \/ Answered(g, t, "ok") \/ Answered(g, t, "bad")
         \/ ~IsLastTry(g, t) /\ WaitAgain(g, t),
         UNCHANGED <<kind, service, queue, note, outcomes, editing, tester>>
  PROVE  IInv'
<1>1. worker[g][t] \in Worker /\ Running(g, t) /\ worker[g][t].tries < Attempts
  BY DEF IInv, ConfigTakesEffect, ForwardingInv, TypeOK, Running, WorkersInv
<1>2. ASSUME NEW got \in Outcomes, Answered(g, t, got)
      PROVE  IInv'
  <2> DEFINE w == [worker[g][t] EXCEPT !.at = "recording", !.got = got]
  <2>1. w \in Worker /\ w.at = "recording" /\ w.version = worker[g][t].version /\ w.got \in Outcomes
    BY <1>1, MovedWith
  <2>2. Become(g, t, w)
    BY <1>2 DEF Answered
  <2> HIDE DEF w
  <2> QED BY <1>1, <2>1, <2>2, WorkerWorks
<1>3. ASSUME ~IsLastTry(g, t), WaitAgain(g, t)
      PROVE  IInv'
  <2> DEFINE w == [worker[g][t] EXCEPT !.at = "waiting", !.tries = @ + 1]
  <2>1. w \in Worker /\ w.at = "waiting" /\ w.version = worker[g][t].version /\ w.tries < Attempts
    BY <1>1, <1>3, TriedAgain DEF IsLastTry
  <2>2. Become(g, t, w)
    BY <1>3 DEF WaitAgain
  <2> HIDE DEF w
  <2> QED BY <1>1, <2>1, <2>2, WorkerWorks
<1> QED BY <1>2, <1>3

LEMMA BackOffInv ==
  ASSUME IInv, NEW g \in Gens, NEW t \in Targets, BackOff(g, t)
  PROVE  IInv'
<1>1. /\ worker[g][t] \in Worker /\ Running(g, t) /\ worker[g][t].tries < Attempts
      /\ worker[g][t].at = "waiting" /\ worker[g][t].version \in 0..MaxEdits
  BY DEF IInv, ConfigTakesEffect, ForwardingInv, TypeOK, Running, WorkersInv, BackOff, Worker
<1>2. UNCHANGED <<kind, service, queue, note, outcomes, editing, tester>>
  BY DEF BackOff
<1>3. CASE Become(g, t, [worker[g][t] EXCEPT !.at = "pushing"])
  <2> DEFINE w == [worker[g][t] EXCEPT !.at = "pushing"]
  <2>1. w \in Worker /\ w.at = "pushing" /\ w.version = worker[g][t].version /\ w.tries < Attempts
    BY <1>1, Moved
  <2> HIDE DEF w
  <2> QED BY <1>1, <1>2, <1>3, <2>1, WorkerWorks DEF w
<1>4. CASE Become(g, t, Fresh(worker[g][t].version))
  BY <1>1, <1>2, <1>4, WorkerTypes, WorkerWorks
<1> QED BY <1>3, <1>4 DEF BackOff

\* One worker serves a target.
LEMMA OneWorker ==
  ASSUME IInv, NEW g \in Gens, NEW h \in Gens, NEW t \in Targets, Running(g, t), Running(h, t)
  PROVE  g = h
BY DEF IInv, ConfigTakesEffect, ForwardingInv, OneGeneration

LEMMA RecordInv ==
  ASSUME IInv, NEW g \in Gens, NEW t \in Targets, Record(g, t)
  PROVE  IInv'
<1>1. /\ worker[g][t] \in Worker /\ Running(g, t) /\ worker[g][t].got \in Outcomes
      /\ worker[g][t].at = "recording" /\ worker[g][t].version \in 0..MaxEdits
      /\ known \in [Targets -> Outcomes \union {Unknown}] /\ saved \in [Targets -> Outcomes \union {Unknown}]
  BY DEF IInv, ConfigTakesEffect, ForwardingInv, TypeOK, Running, WorkersInv, Record, Worker
<1> DEFINE got == worker[g][t].got
<1>2. /\ UNCHANGED <<kind, service, queue, note, saved, editing, tester>>
      /\ known' = [known EXCEPT ![t] = got]
  BY DEF Record
<1>3. \A u \in Targets : known'[u] = IF u = t THEN got ELSE known[u]
  BY <1>1, <1>2
<1>4. PICK w \in Worker : /\ Become(g, t, w) /\ w.version = worker[g][t].version
                          /\ \/ w.at = "saving" /\ w.got = got
                             \/ w.at = "idle" /\ w.tries = 0 /\ known[t] = got
  <2>1. CASE Become(g, t, [worker[g][t] EXCEPT !.at = "saving"])
    <3> DEFINE x == [worker[g][t] EXCEPT !.at = "saving"]
    <3>1. x \in Worker /\ x.at = "saving" /\ x.version = worker[g][t].version /\ x.got = got
      BY <1>1, Moved
    <3> HIDE DEF x
    <3> QED BY <2>1, <3>1 DEF x
  <2>2. CASE ~MustSave(t, got) /\ Become(g, t, Fresh(worker[g][t].version))
    BY <1>1, <2>2, WorkerTypes DEF MustSave
  <2> QED BY <2>1, <2>2 DEF Record
<1>5. ConfigTakesEffect' /\ TestsInv' /\ NotesInv'
  <2>1. known' \in [Targets -> Outcomes \union {Unknown}] /\ saved' \in [Targets -> Outcomes \union {Unknown}]
    BY <1>1, <1>2
  <2>2. w.at \notin {"none", "gone"}
    BY <1>4
  <2> QED BY <1>1, <1>2, <1>4, <2>1, <2>2, WorkerGoesOn
<1>6. \A h \in Gens, u \in Targets : worker'[h][u] = IF h = g /\ u = t THEN w ELSE worker[h][u]
  BY <1>4, OthersStay
<1>7. WorkersInv'
  BY <1>1, <1>4, <1>6 DEF IInv, WorkersInv
<1>8. \A h \in Gens : Running(h, t) => h = g
  BY <1>1, OneWorker
<1>9. RowAgrees'
  <2>1. ~Saving(t)
    BY <1>1, <1>8 DEF Saving, Running
  <2>2. \A u \in Targets \ {t} : Saving(u)' <=> Saving(u)
    BY <1>6 DEF Saving
  <2>3. w.at = "saving" => Saving(t)'
    BY <1>6 DEF Saving
  <2> QED BY <1>2, <1>3, <1>4, <2>1, <2>2, <2>3 DEF IInv, RowAgrees, Stored
<1>10. OutcomesInv'
  <2>1. \A h \in Gens, u \in Targets : Running(h, u)' <=> Running(h, u)
    BY <1>1, <1>4, <1>6 DEF Running
  <2>2. \A h \in Gens : worker'[h][t].at = "saving" => known'[t] = worker'[h][t].got
    BY <1>3, <1>4, <1>6, <1>8 DEF Running
  <2> QED BY <1>1, <1>2, <1>3, <1>6, <2>1, <2>2 DEF IInv, OutcomesInv
<1> QED BY <1>5, <1>7, <1>9, <1>10 DEF IInv

LEMMA SaveInv ==
  ASSUME IInv, NEW g \in Gens, NEW t \in Targets, Save(g, t)
  PROVE  IInv'
<1>1. /\ worker[g][t] \in Worker /\ Running(g, t) /\ worker[g][t].got \in Outcomes
      /\ worker[g][t].at = "saving" /\ worker[g][t].version \in 0..MaxEdits
      /\ known \in [Targets -> Outcomes \union {Unknown}] /\ saved \in [Targets -> Outcomes \union {Unknown}]
  BY DEF IInv, ConfigTakesEffect, ForwardingInv, TypeOK, Running, WorkersInv, Save, Worker
<1> DEFINE w == Fresh(worker[g][t].version)
<1>2. w \in Worker /\ w.at = "idle" /\ w.tries = 0 /\ w.version = worker[g][t].version
  BY <1>1, WorkerTypes
<1> HIDE DEF w
<1>3. /\ UNCHANGED <<kind, service, queue, note, known, editing, tester>>
      /\ saved' = [saved EXCEPT ![t] = IF Stored(t) THEN worker[g][t].got ELSE @]
      /\ Become(g, t, w)
  BY DEF Save, Saves, w
<1>4. \A u \in Targets : saved'[u] = IF u = t /\ Stored(t) THEN worker[g][t].got ELSE saved[u]
  BY <1>1, <1>3
<1>5. ConfigTakesEffect' /\ TestsInv' /\ NotesInv'
  <2>1. known' \in [Targets -> Outcomes \union {Unknown}] /\ saved' \in [Targets -> Outcomes \union {Unknown}]
    BY <1>1, <1>3
  <2> QED BY <1>1, <1>2, <1>3, <2>1, WorkerGoesOn
<1>6. \A h \in Gens, u \in Targets : worker'[h][u] = IF h = g /\ u = t THEN w ELSE worker[h][u]
  BY <1>2, <1>3, OthersStay
<1>7. WorkersInv'
  BY <1>2, <1>6 DEF IInv, WorkersInv
<1>8. RowAgrees'
  <2>1. kind = "downstream" => known[t] \in {Unknown, worker[g][t].got}
    BY <1>1 DEF IInv, OutcomesInv
  <2>2. \A u \in Targets \ {t} : Saving(u)' <=> Saving(u)
    BY <1>6 DEF Saving
  <2> QED BY <1>3, <1>4, <2>1, <2>2 DEF IInv, RowAgrees, Stored
<1>9. OutcomesInv'
  <2>1. \A h \in Gens, u \in Targets : Running(h, u)' <=> Running(h, u)
    BY <1>1, <1>2, <1>6 DEF Running
  <2> QED BY <1>2, <1>3, <1>6, <2>1 DEF IInv, OutcomesInv
<1> QED BY <1>5, <1>7, <1>8, <1>9 DEF IInv

-----------------------------------------------------------------------------
(* An admin sends a test.                                                  *)

LEMMA TestInv ==
  ASSUME IInv, NEW a \in Admins, NEW t \in Targets, Test(a, t)
  PROVE  IInv'
<1>1. TypeOK
  BY DEF IInv, ConfigTakesEffect, ForwardingInv
<1>2. PICK got \in Outcomes : tester' = [target |-> t, got |-> got] /\ known' = [known EXCEPT ![t] = got]
  BY DEF Test
<1>3. /\ UNCHANGED <<kind, service, worker, queue, note, saved, row, holder, excused>>
      /\ kind = "webhook" /\ admin[a] = "idle" /\ tester = Untested
      /\ admin' = [admin EXCEPT ![a] = "testing"]
  BY DEF Test
<1>4. TypeOK'
  <2>1. tester' \in [target : Targets, got : Outcomes]
    BY <1>2
  <2>2. known' \in [Targets -> Outcomes \union {Unknown}]
    BY <1>1, <1>2 DEF TypeOK
  <2>3. admin' \in [Admins -> {"idle", "testing", "written", "reload", "stopping"}]
    BY <1>1, <1>3 DEF TypeOK
  <2> QED BY <1>1, <1>3, <2>1, <2>2, <2>3 DEF TypeOK
<1>5. \A b \in Admins : admin'[b] = IF b = a THEN "testing" ELSE admin[b]
  BY <1>1, <1>3 DEF TypeOK
<1>6. ConfigTakesEffect'
  BY <1>3, <1>4, <1>5, WorkersStay
<1>7. TestsInv'
  <2>1. tester' # Untested
    <3>1. tester'.got # Untested.got
      BY <1>2 DEF Untested, Unknown
    <3> QED BY <3>1
  <2>2. \A b \in Admins : admin[b] # "testing"
    BY <1>3 DEF IInv, TestsInv
  <2> QED BY <1>3, <1>5, <2>1, <2>2 DEF TestsInv
<1> QED BY <1>3, <1>6, <1>7 DEF IInv, RowAgrees, WorkersInv, NotesInv, OutcomesInv

LEMMA TestSavedInv ==
  ASSUME IInv, NEW a \in Admins, TestSaved(a)
  PROVE  IInv'
<1>1. TypeOK
  BY DEF IInv, ConfigTakesEffect, ForwardingInv
<1>2. kind = "webhook" /\ tester \in [target : Targets, got : Outcomes]
  BY <1>1 DEF IInv, TestsInv, TestSaved, TypeOK
<1>3. /\ UNCHANGED <<kind, service, worker, queue, note, known, row, holder, excused>>
      /\ admin' = [admin EXCEPT ![a] = "idle"] /\ admin[a] = "testing" /\ tester' = Untested
      /\ saved' = [saved EXCEPT ![tester.target] = IF Stored(tester.target) THEN tester.got ELSE @]
  BY DEF TestSaved, Saves
<1>4. TypeOK'
  <2>1. saved' \in [Targets -> Outcomes \union {Unknown}]
    BY <1>1, <1>2, <1>3 DEF TypeOK
  <2>2. admin' \in [Admins -> {"idle", "testing", "written", "reload", "stopping"}]
    BY <1>1, <1>3 DEF TypeOK
  <2> QED BY <1>1, <1>3, <2>1, <2>2 DEF TypeOK
<1>5. \A b \in Admins : admin'[b] = IF b = a THEN "idle" ELSE admin[b]
  BY <1>1, <1>3 DEF TypeOK
<1>6. ConfigTakesEffect'
  BY <1>3, <1>4, <1>5, WorkersStay
<1>7. TestsInv'
  BY <1>3, <1>5 DEF IInv, TestsInv
<1> QED BY <1>2, <1>3, <1>6, <1>7 DEF IInv, RowAgrees, WorkersInv, NotesInv, OutcomesInv

-----------------------------------------------------------------------------
(* An admin edits a target, and the service is reloaded.                   *)

\* While a change of the settings is under way, what runs need not be what
\* the table says; that one generation runs and the types are all there is.
LEMMA Changing ==
  ASSUME TypeOK', OneGeneration', excused' \/ \E a \in Admins : admin'[a] \notin {"idle", "testing"}
  PROVE  ConfigTakesEffect'
BY DEF ConfigTakesEffect, ForwardingInv

\* Tests go on while an admin does something else.
LEMMA NoNewTest ==
  ASSUME IInv, UNCHANGED <<kind, tester>>, \A a \in Admins : admin'[a] = "testing" => admin[a] = "testing"
  PROVE  TestsInv'
BY DEF IInv, TestsInv

LEMMA EditInv ==
  ASSUME IInv, NEW a \in Admins, NEW t \in Targets, NEW state \in {"off", "on"},
         Create(a, t, state) \/ Update(a, t, state)
  PROVE  IInv'
<1>1. TypeOK /\ OneGeneration
  BY DEF IInv, ConfigTakesEffect, ForwardingInv
<1>2. /\ UNCHANGED <<kind, service, worker, queue, note, outcomes, holder, excused, tester>>
      /\ row[t].version < MaxEdits /\ admin[a] = "idle"
      /\ row' = [row EXCEPT ![t] = [state |-> state, version |-> row[t].version + 1]]
      /\ admin' = [admin EXCEPT ![a] = "written"]
      /\ row[t].state \in {"absent", "off", "on"}
  BY DEF Create, Update, Edit, Write, Stored
<1>3. row' \in [Targets -> Row] /\ \A u \in Targets : u # t => row'[u] = row[u]
  <2>1. row \in [Targets -> Row] /\ row[t].version + 1 \in 0..MaxEdits
    BY <1>1, <1>2, Numbers DEF TypeOK, Row
  <2>2. [state |-> state, version |-> row[t].version + 1] \in Row
    BY <2>1 DEF Row
  <2> QED BY <1>2, <2>1, <2>2
<1>4. admin' \in [Admins -> {"idle", "testing", "written", "reload", "stopping"}]
      /\ \A b \in Admins : admin'[b] = IF b = a THEN "written" ELSE admin[b]
  BY <1>1, <1>2 DEF TypeOK
<1>5. TypeOK'
  BY <1>1, <1>2, <1>3, <1>4 DEF TypeOK
<1>6. OneGeneration'
  BY <1>1, <1>2, <1>4 DEF OneGeneration, Running
<1>7. ConfigTakesEffect'
  BY <1>4, <1>5, <1>6, Changing
<1>8. TestsInv'
  BY <1>2, <1>4, NoNewTest
<1>9. row'[t].state = state
  BY <1>1, <1>2 DEF TypeOK
<1>10. RowAgrees'
  <2>1. kind = "downstream" /\ row[t].state = "absent" => known[t] = Unknown
    BY DEF IInv, OutcomesInv
  <2> QED BY <1>2, <1>3, <2>1 DEF IInv, RowAgrees, Saving, Stored
<1>11. OutcomesInv'
  BY <1>2, <1>3, <1>9 DEF IInv, OutcomesInv, Running
<1> QED BY <1>2, <1>7, <1>8, <1>10, <1>11 DEF IInv, WorkersInv, NotesInv

LEMMA ReadBackInv ==
  ASSUME IInv, NEW a \in Admins, ReadBack(a)
  PROVE  IInv'
<1>1. TypeOK /\ OneGeneration
  BY DEF IInv, ConfigTakesEffect, ForwardingInv
<1>2. PICK next \in {"idle", "reload"} :
        /\ admin' = [admin EXCEPT ![a] = next]
        /\ next = "idle" => excused'
        /\ excused' \in {excused, TRUE}
  BY DEF ReadBack
<1>3. /\ UNCHANGED <<kind, service, worker, queue, note, outcomes, row, holder, tester>>
      /\ admin[a] = "written"
  BY DEF ReadBack
<1>4. admin' \in [Admins -> {"idle", "testing", "written", "reload", "stopping"}]
      /\ \A b \in Admins : admin'[b] = IF b = a THEN next ELSE admin[b]
  BY <1>1, <1>2 DEF TypeOK
<1>5. TypeOK'
  BY <1>1, <1>2, <1>3, <1>4 DEF TypeOK
<1>6. OneGeneration'
  BY <1>1, <1>2, <1>3, <1>4 DEF OneGeneration, Running
<1>7. ConfigTakesEffect'
  BY <1>2, <1>4, <1>5, <1>6, Changing
<1>8. TestsInv'
  BY <1>3, <1>4, NoNewTest
<1> QED BY <1>3, <1>7, <1>8 DEF IInv, RowAgrees, Saving, Stored, WorkersInv, NotesInv, OutcomesInv, Running

LEMMA DeleteInv ==
  ASSUME IInv, NEW a \in Admins, NEW t \in Targets, Delete(a, t)
  PROVE  IInv'
<1>1. TypeOK /\ OneGeneration
  BY DEF IInv, ConfigTakesEffect, ForwardingInv
<1>2. /\ UNCHANGED <<kind, service, worker, queue, note, holder, excused, tester>>
      /\ row[t].version < MaxEdits /\ admin[a] = "idle"
      /\ row' = [row EXCEPT ![t] = [state |-> "deleted", version |-> row[t].version + 1]]
      /\ saved' = [saved EXCEPT ![t] = Unknown] /\ known' = [known EXCEPT ![t] = Unknown]
      /\ admin' = [admin EXCEPT ![a] = "reload"]
  BY DEF Delete, Write
<1>3. row' \in [Targets -> Row] /\ row'[t].state = "deleted" /\ \A u \in Targets : u # t => row'[u] = row[u]
  <2>1. row \in [Targets -> Row] /\ row[t].version + 1 \in 0..MaxEdits
    BY <1>1, <1>2, Numbers DEF TypeOK, Row
  <2>2. [state |-> "deleted", version |-> row[t].version + 1] \in Row
    BY <2>1 DEF Row
  <2> QED BY <1>2, <2>1, <2>2
<1>4. admin' \in [Admins -> {"idle", "testing", "written", "reload", "stopping"}]
      /\ \A b \in Admins : admin'[b] = IF b = a THEN "reload" ELSE admin[b]
  BY <1>1, <1>2 DEF TypeOK
<1>5. /\ known' \in [Targets -> Outcomes \union {Unknown}] /\ saved' \in [Targets -> Outcomes \union {Unknown}]
      /\ \A u \in Targets : /\ known'[u] = IF u = t THEN Unknown ELSE known[u]
                            /\ u # t => saved'[u] = saved[u]
  BY <1>1, <1>2 DEF TypeOK
<1>6. TypeOK'
  BY <1>1, <1>2, <1>3, <1>4, <1>5 DEF TypeOK
<1>7. OneGeneration'
  BY <1>1, <1>2, <1>4 DEF OneGeneration, Running
<1>8. ConfigTakesEffect'
  BY <1>4, <1>6, <1>7, Changing
<1>9. TestsInv'
  BY <1>2, <1>4, NoNewTest
<1>10. RowAgrees'
  BY <1>2, <1>3, <1>5 DEF IInv, RowAgrees, Saving, Stored
<1>11. OutcomesInv'
  BY <1>2, <1>3, <1>5 DEF IInv, OutcomesInv, Running
<1> QED BY <1>2, <1>8, <1>9, <1>10, <1>11 DEF IInv, WorkersInv, NotesInv

LEMMA StopInv ==
  ASSUME IInv, NEW a \in Admins, Stop(a)
  PROVE  IInv'
<1>1. TypeOK /\ OneGeneration
  BY DEF IInv, ConfigTakesEffect, ForwardingInv
<1>2. /\ UNCHANGED <<kind, gen, worker, queue, note, outcomes, row, excused, tester>>
      /\ holder = Nobody /\ holder' = a /\ published' = FALSE
      /\ admin' = [admin EXCEPT ![a] = "stopping"]
      /\ cancelled' = [cancelled EXCEPT ![gen] = TRUE]
  BY DEF Stop
<1>3. admin' \in [Admins -> {"idle", "testing", "written", "reload", "stopping"}]
      /\ \A b \in Admins : admin'[b] = IF b = a THEN "stopping" ELSE admin[b]
  BY <1>1, <1>2 DEF TypeOK
<1>4. cancelled' \in [Gens -> BOOLEAN] /\ \A g \in Gens : g # gen => cancelled'[g] = cancelled[g]
  BY <1>1, <1>2 DEF TypeOK
<1>5. TypeOK'
  BY <1>1, <1>2, <1>3, <1>4 DEF TypeOK
<1>6. OneGeneration'
  <2>1. \A b \in Admins : admin[b] # "stopping"
    BY <1>1, <1>2, NamesAssumption DEF OneGeneration
  <2>2. \A g \in Gens : g > gen => g # gen
    BY <1>1 DEF TypeOK
  <2> QED BY <1>1, <1>2, <1>3, <1>4, <2>1, <2>2 DEF OneGeneration, Running
<1>7. ConfigTakesEffect'
  BY <1>3, <1>5, <1>6, Changing
<1>8. TestsInv'
  BY <1>2, <1>3, NoNewTest
<1> QED BY <1>2, <1>7, <1>8 DEF IInv, RowAgrees, Saving, Stored, WorkersInv, NotesInv, OutcomesInv, Running

\* The workers of a new generation, one for each enabled target.
LEMMA SpawnedWorkers ==
  ASSUME TypeOK
  PROVE  /\ Spawned \in [Targets -> Worker]
         /\ \A t \in Active : Spawned[t].at = "idle" /\ Spawned[t].tries = 0 /\ Spawned[t].version = row[t].version
         /\ \A t \in Targets : t \notin Active => Spawned[t] = NoWorker
<1>1. \A t \in Targets : row[t].version \in 0..MaxEdits
  BY DEF TypeOK, Row
<1>2. Active \subseteq Targets
  BY DEF Active
<1> QED BY <1>1, <1>2, WorkerTypes DEF Spawned

\* What is known at the start of a generation, from what the tracker holds:
\* that, or what the row of an enabled target says.
LEMMA SeededMemory ==
  ASSUME TypeOK, NEW memory \in [Targets -> Outcomes \union {Unknown}]
  PROVE  /\ Seeded(memory) \in [Targets -> Outcomes \union {Unknown}]
         /\ \A t \in Targets : Seeded(memory)[t] = memory[t] \/ (t \in Active /\ Seeded(memory)[t] = saved[t])
<1>1. saved \in [Targets -> Outcomes \union {Unknown}]
  BY DEF TypeOK
<1>2. Seeded(memory) = [t \in Targets |-> IF t \in Active /\ memory[t] = Unknown THEN saved[t] ELSE memory[t]]
  BY DEF Seeded
<1>3. \A t \in Targets : Seeded(memory)[t] = IF t \in Active /\ memory[t] = Unknown THEN saved[t] ELSE memory[t]
  BY <1>2
<1> QED BY <1>1, <1>2, <1>3

\* A new generation, with none of the old ones' workers left, begins with
\* what the table says.
LEMMA NewGeneration ==
  ASSUME IInv, NEW memory \in [Targets -> Outcomes \union {Unknown}], known' = Seeded(memory),
         kind = "downstream" =>
           \A t \in Targets : /\ memory[t] # Unknown /\ Stored(t) => saved[t] = memory[t]
                              /\ row[t].state = "absent" => memory[t] = Unknown,
         gen < MaxGens, gen' = gen + 1, TypeOK',
         worker'[gen + 1] = Spawned,
         \A g \in Gens : g # gen + 1 => \A t \in Targets : worker'[g][t].at \in {"none", "gone"},
         \A g \in Gens : g > gen + 1 => \A t \in Targets : worker'[g][t] = NoWorker,
         \A g \in Gens : g > gen => ~cancelled'[g] /\ \A t \in Targets : queue'[g][t] = 0,
         \A a \in Admins : admin'[a] = "stopping" <=> holder' = a,
         published', UNCHANGED <<kind, row, saved>>
  PROVE  ConfigTakesEffect' /\ RowAgrees' /\ WorkersInv' /\ OutcomesInv'
<1>1. TypeOK /\ gen + 1 \in Gens
  BY Numbers DEF IInv, ConfigTakesEffect, ForwardingInv, TypeOK
<1>2. \A t \in Targets : /\ t \in Active => /\ worker'[gen + 1][t].at = "idle" /\ worker'[gen + 1][t].tries = 0
                                            /\ worker'[gen + 1][t].version = row[t].version
                         /\ t \notin Active => worker'[gen + 1][t].at = "none"
  BY <1>1, SpawnedWorkers, WorkerTypes
<1>3. \A g \in Gens, t \in Targets : Running(g, t)' <=> g = gen + 1 /\ t \in Active
  BY <1>1, <1>2 DEF Running
<1>4. OneGeneration'
  <2>1. \A g \in Gens : g > gen' => g > gen /\ g > gen + 1
    BY <1>1 DEF TypeOK
  <2>2. gen + 1 > gen
    BY <1>1 DEF TypeOK
  <2> QED BY <1>1, <1>3, <2>1, <2>2 DEF OneGeneration
<1>5. ConfigTakesEffect'
  <2>1. ~cancelled'[gen']
    BY <1>1 DEF TypeOK
  <2> QED BY <1>1, <1>2, <1>3, <1>4, <2>1 DEF ConfigTakesEffect, ForwardingInv, Active
<1>6. \A g \in Gens, t \in Targets : worker'[g][t].at \in {"none", "gone", "idle"}
                                     /\ (worker'[g][t].at = "idle" => worker'[g][t].tries = 0)
  BY <1>1, <1>2
<1>7. WorkersInv'
  BY <1>6 DEF WorkersInv
<1>8. \A t \in Targets : known'[t] = memory[t] \/ (t \in Active /\ known'[t] = saved[t])
  BY <1>1, SeededMemory
<1>9. RowAgrees'
  BY <1>8 DEF RowAgrees, Stored
<1>10. OutcomesInv'
  BY <1>3, <1>6, <1>8 DEF OutcomesInv, Active
<1> QED BY <1>5, <1>7, <1>9, <1>10

LEMMA StartInv ==
  ASSUME IInv, NEW a \in Admins, Start(a)
  PROVE  IInv'
<1>1. TypeOK /\ OneGeneration
  BY DEF IInv, ConfigTakesEffect, ForwardingInv
<1>2. /\ UNCHANGED <<kind, queue, note, saved, row, tester>>
      /\ admin' = [admin EXCEPT ![a] = "idle"] /\ admin[a] = "stopping" /\ holder' = Nobody /\ AllGone
  BY DEF Start
<1>3. admin' \in [Admins -> {"idle", "testing", "written", "reload", "stopping"}]
      /\ \A b \in Admins : admin'[b] = IF b = a THEN "idle" ELSE admin[b]
  BY <1>1, <1>2 DEF TypeOK
<1>4. \A b \in Admins : admin'[b] # "stopping"
  BY <1>1, <1>2, <1>3 DEF OneGeneration
<1>5. TestsInv' /\ NotesInv'
  BY <1>2, <1>3, NoNewTest DEF IInv, NotesInv
<1>6. CASE excused' = TRUE /\ UNCHANGED <<gen, published, cancelled, worker, known>>
  <2>1. TypeOK'
    BY <1>1, <1>2, <1>3, <1>6 DEF TypeOK
  <2>2. OneGeneration'
    BY <1>1, <1>2, <1>4, <1>6, NamesAssumption DEF OneGeneration, Running
  <2>3. ConfigTakesEffect'
    BY <1>6, <2>1, <2>2, Changing
  <2> QED BY <1>2, <1>5, <1>6, <2>3 DEF IInv, RowAgrees, Saving, Stored, WorkersInv, OutcomesInv, Running
<1>7. CASE /\ gen < MaxGens /\ gen' = gen + 1 /\ published' = TRUE
           /\ worker' = [worker EXCEPT ![gen + 1] = Spawned]
           /\ known' = Seeded(known) /\ excused' = FALSE /\ UNCHANGED cancelled
  <2>1. gen \in Gens /\ gen + 1 \in Gens /\ known \in [Targets -> Outcomes \union {Unknown}]
    BY <1>1, <1>7, Numbers DEF TypeOK
  <2>2. worker' \in [Gens -> [Targets -> Worker]] /\ worker'[gen + 1] = Spawned
        /\ \A g \in Gens : g # gen + 1 => worker'[g] = worker[g]
    BY <1>1, <1>7, <2>1, SpawnedWorkers DEF TypeOK
  <2>3. TypeOK'
    BY <1>1, <1>2, <1>3, <1>7, <2>1, <2>2, SeededMemory DEF TypeOK
  <2>4. \A g \in Gens : g # gen + 1 => \A t \in Targets : worker'[g][t].at \in {"none", "gone"}
    BY <1>2, <2>2 DEF AllGone, Running
  <2>5. \A g \in Gens : g > gen + 1 => \A t \in Targets : worker'[g][t] = NoWorker
    BY <1>1, <2>1, <2>2 DEF OneGeneration
  <2>6. \A g \in Gens : g > gen => ~cancelled'[g] /\ \A t \in Targets : queue'[g][t] = 0
    <3>1. cancelled' = cancelled /\ queue' = queue
      BY <1>2, <1>7
    <3> QED BY <1>1, <3>1, Zenon DEF OneGeneration
  <2>7. kind = "downstream" =>
           \A t \in Targets : /\ known[t] # Unknown /\ Stored(t) => saved[t] = known[t]
                              /\ row[t].state = "absent" => known[t] = Unknown
    BY <1>2 DEF IInv, RowAgrees, OutcomesInv, Saving, AllGone, Running
  <2>8. \A b \in Admins : admin'[b] = "stopping" <=> holder' = b
    BY <1>2, <1>4, NamesAssumption
  <2>9. ConfigTakesEffect' /\ RowAgrees' /\ WorkersInv' /\ OutcomesInv'
    BY <1>2, <1>7, <2>1, <2>2, <2>3, <2>4, <2>5, <2>6, <2>7, <2>8, NewGeneration
  <2> QED BY <1>5, <2>9 DEF IInv
<1> QED BY <1>6, <1>7 DEF Start, Started

LEMMA RestartInv ==
  ASSUME IInv, Restart
  PROVE  IInv'
<1>1. TypeOK /\ OneGeneration
  BY DEF IInv, ConfigTakesEffect, ForwardingInv
<1> DEFINE memory == [t \in Targets |-> Unknown]
<1>2. gen \in Gens /\ gen + 1 \in Gens /\ memory \in [Targets -> Outcomes \union {Unknown}]
  BY <1>1, Numbers DEF TypeOK, Restart
<1>3. /\ gen < MaxGens /\ gen' = gen + 1 /\ published' = TRUE
      /\ cancelled' = [g \in Gens |-> g <= gen]
      /\ queue' = [g \in Gens |-> [t \in Targets |-> 0]]
      /\ note' = [c \in 1..Calls |-> IF note[c].at = "new" THEN note[c] ELSE Notified]
      /\ known' = Seeded(memory)
      /\ admin' = [a \in Admins |-> "idle"] /\ holder' = Nobody /\ tester' = Untested /\ excused' = FALSE
      /\ UNCHANGED <<kind, saved, row>>
  BY DEF Restart
<1>4. \A g \in Gens : worker'[g] = IF g <= gen THEN [t \in Targets |-> Ended]
                                   ELSE IF g = gen + 1 THEN Spawned ELSE worker[g]
  BY <1>2 DEF Restart
<1>5. worker' \in [Gens -> [Targets -> Worker]]
  <2>1. worker' = [g \in Gens |-> IF g <= gen THEN [t \in Targets |-> Ended]
                                  ELSE IF g = gen + 1 THEN Spawned ELSE worker[g]]
    BY <1>2 DEF Restart
  <2> QED BY <1>1, <2>1, SpawnedWorkers, WorkerTypes DEF TypeOK
<1>6. TypeOK'
  <2>1. note' \in [1..Calls -> Note]
    BY <1>1, <1>3, Numbers DEF TypeOK, Note, Notified
  <2>2. known' \in [Targets -> Outcomes \union {Unknown}]
    BY <1>1, <1>2, <1>3, SeededMemory
  <2>3. queue' \in [Gens -> [Targets -> 0..QueueCap]]
    BY <1>3, Numbers
  <2>4. cancelled' \in [Gens -> BOOLEAN]
    BY <1>3
  <2>5. admin' \in [Admins -> {"idle", "testing", "written", "reload", "stopping"}]
    BY <1>3
  <2> HIDE DEF memory
  <2> QED BY <1>1, <1>2, <1>3, <1>5, <2>1, <2>2, <2>3, <2>4, <2>5 DEF TypeOK
<1>7. \A g \in Gens : g # gen + 1 => \A t \in Targets : worker'[g][t].at \in {"none", "gone"}
  <2>1. \A g \in Gens : g > gen + 1 => \A t \in Targets : worker'[g][t] = NoWorker
    BY <1>1, <1>2, <1>4 DEF OneGeneration
  <2> QED BY <1>2, <1>4, <2>1, WorkerTypes
<1>8. ConfigTakesEffect' /\ RowAgrees' /\ WorkersInv' /\ OutcomesInv'
  <2>1. worker'[gen + 1] = Spawned /\ published'
    BY <1>2, <1>3, <1>4
  <2>2. \A g \in Gens : g > gen + 1 => \A t \in Targets : worker'[g][t] = NoWorker
    BY <1>1, <1>2, <1>4 DEF OneGeneration
  <2>3. \A g \in Gens : g > gen => ~cancelled'[g] /\ \A t \in Targets : queue'[g][t] = 0
    <3>1. \A g \in Gens : cancelled'[g] = (g <= gen) /\ \A t \in Targets : queue'[g][t] = 0
      BY <1>3
    <3>2. \A g \in Gens : g > gen => ~(g <= gen)
      BY <1>2
    <3> QED BY <3>1, <3>2, Zenon
  <2>4. \A a \in Admins : admin'[a] = "stopping" <=> holder' = a
    BY <1>3, NamesAssumption
  <2>5. \A t \in Targets : memory[t] = Unknown
    OBVIOUS
  <2> HIDE DEF memory
  <2> QED BY <1>2, <1>3, <1>6, <1>7, <2>1, <2>2, <2>3, <2>4, <2>5, NewGeneration
<1>9. TestsInv' /\ NotesInv'
  BY <1>3 DEF TestsInv, NotesInv, Notified
<1> QED BY <1>8, <1>9 DEF IInv

LEMMA StutterInv ==
  ASSUME IInv, UNCHANGED vars
  PROVE  IInv'
<1>1. ConfigTakesEffect' /\ RowAgrees'
  BY DEF vars, IInv, ConfigTakesEffect, ForwardingInv, TypeOK, OneGeneration, Running, Active, RowAgrees, Saving, Stored
<1> QED BY <1>1 DEF vars, IInv, WorkersInv, TestsInv, NotesInv, OutcomesInv, Running

-----------------------------------------------------------------------------
LEMMA StepInv ==
  ASSUME IInv, [Next]_vars
  PROVE  IInv'
<1>1. ASSUME NEW c \in 1..Calls, Notify(c) \/ \E t \in Targets : Enqueue(c, t)
      PROVE  IInv'
  BY <1>1, NotifyInv, EnqueueInv
<1>2. ASSUME NEW g \in Gens, NEW t \in Targets, Work(g, t) \/ Exit(g, t)
      PROVE  IInv'
  <2>1. CASE PushDownstream(g, t) \/ PostWebhook(g, t)
    BY <2>1, PushInv DEF PushDownstream, PostWebhook
  <2> QED BY <1>2, <2>1, TakeInv, BackOffInv, RecordInv, SaveInv, ExitInv DEF Work
<1>3. ASSUME NEW a \in Admins, NEW t \in Targets,
             Test(a, t) \/ Delete(a, t) \/ \E state \in {"off", "on"} : Create(a, t, state) \/ Update(a, t, state)
      PROVE  IInv'
  BY <1>3, TestInv, DeleteInv, EditInv
<1>4. ASSUME NEW a \in Admins, TestSaved(a) \/ ReadBack(a) \/ Stop(a) \/ Start(a)
      PROVE  IInv'
  BY <1>4, TestSavedInv, ReadBackInv, StopInv, StartInv
<1> QED BY <1>1, <1>2, <1>3, <1>4, RestartInv, StutterInv DEF Next

LEMMA Invariance == Spec => []IInv
<1>1. Init => IInv
  BY InitInv
<1>2. IInv /\ [Next]_vars => IInv'
  BY StepInv
<1> QED BY <1>1, <1>2, PTL DEF Spec

\* However many admins change targets at once, however many generations come
\* and go, calls wait and tries fail: no target is ever served by two workers,
\* and when the changes are over what runs is what the table says.
THEOREM SettingsTakeEffect == Spec => []ConfigTakesEffect
<1>1. IInv => ConfigTakesEffect
  BY DEF IInv
<1> QED BY <1>1, Invariance, PTL

\* The outcome in a downstream's row is the one the admin was last shown, for
\* any number of targets and over any number of reloads and restarts.
THEOREM RowIsWhatWasShown == Spec => []RowAgrees
<1>1. IInv => RowAgrees
  BY DEF IInv
<1> QED BY <1>1, Invariance, PTL

=============================================================================
