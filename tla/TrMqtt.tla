-------------------------------- MODULE TrMqtt --------------------------------
(***************************************************************************)
(* The Trunk Recorder feed: the manager that owns one MQTT client for each *)
(* row of tr_instances (internal/trmqtt), the admin's requests that change *)
(* the row and the client together (internal/handler/admin/trmqtt and the  *)
(* restore of a backup, internal/admin/backup_tr.go), and the channel that *)
(* brings the clients' events to the admin pages.                          *)
(*                                                                         *)
(* One instance.  Requests share nothing but the database and the          *)
(* manager's map, which is locked for a lookup or a write at a time: two   *)
(* of them interleave between these and the queries.  What a frame carries *)
(* is not kept; each one is an event, numbered by the client that read it. *)
(* The MQTT library is external: a client stopped ends when it likes.      *)
(***************************************************************************)
EXTENDS Integers, Sequences, FiniteSets

CONSTANTS
  Requests,    \* requests at a time
  Cap,         \* eventChannelCap
  MaxWork,     \* bound: requests and events together
  MaxChanges,  \* bound: requests
  MaxFaults    \* bound: failing steps, and restarts

ASSUME TrMqttAssumption ==
  /\ IsFiniteSet(Requests)
  /\ Cap \in Nat \ {0}
  /\ {MaxWork, MaxChanges, MaxFaults} \subseteq Nat

VARIABLES
  instance,  \* the row: its state, its settings as a number, and Enabled
  req,       \* req[r]: the handler, with what it has read
  clients,   \* every client this process made, in order
  map,       \* Manager.clients: the number of the instance's client, or 0
  channel,   \* Manager.events
  told,      \* told[c]: the last event of client c the pages were told of
  settled,   \* what the last request was, and whether it ran alone and without
             \* a failure; "cut" is one whose stop timed out
  changes, events, faults

feed == <<channel, told>>
mvars == <<instance, req, clients, map, feed, settled, changes, events, faults>>

NoClient == 0
Unread == [state |-> "none", v |-> 0, on |-> FALSE]
Idle == [op |-> "none", pc |-> "idle", row |-> Unread,
         client |-> NoClient, passed |-> FALSE, alone |-> TRUE]

Busy == {r \in Requests : req[r] # Idle}
Made   == 1..Len(clients)

\* A new client; "lost" is how it left the map, if a change put another there.
Client(v) == [v |-> v, life |-> "live", lost |-> FALSE,
              pc |-> "idle", n |-> 0, alone |-> TRUE, refused |-> FALSE]

\* Manager.Start: a client for the row if it is enabled.
EnabledClients == IF instance.state = "there" /\ instance.on THEN <<Client(instance.v)>> ELSE <<>>

MInit ==
  /\ \/ instance = Unread
     \/ \E on \in BOOLEAN : instance = [state |-> "there", v |-> 1, on |-> on]
  /\ req = [r \in Requests |-> Idle]
  /\ clients = EnabledClients /\ map = Len(clients)
  /\ channel = <<>> /\ told = [c \in Made |-> 0]
  /\ settled = [op |-> "start", good |-> TRUE]
  /\ changes = 0 /\ events = 0 /\ faults = 0

-----------------------------------------------------------------------------
(* A request's progress.                                                   *)

At(r, pc) == req[r].pc = pc
Go(r, s)  == req' = [req EXCEPT ![r] = s]
To(r, pc) == Go(r, [req[r] EXCEPT !.pc = pc, !.row = Unread, !.client = NoClient])

\* The answer.
End(r, good) ==
  /\ Go(r, Idle)
  /\ settled' = [op |-> req[r].op, good |-> good /\ req[r].alone]
On(r, pc) == To(r, pc) /\ UNCHANGED settled

\* The answer of one that got no further than a client which would not stop.
Cut(r) ==
  /\ Go(r, Idle)
  /\ settled' = [op |-> "cut", good |-> req[r].alone]

\* A new request sees the row it is for, or is refused; those beside it are
\* not alone any more.
Begin(r, op) ==
  /\ req[r] = Idle /\ changes < MaxChanges /\ changes + events < MaxWork /\ changes' = changes + 1
  /\ (op = "create") <=> (instance.state = "none")
  /\ instance.state # "gone"
  /\ req' = [q \in Requests |->
       IF q = r THEN [Idle EXCEPT !.op = op, !.row = IF op = "patch" THEN instance ELSE Unread, !.alone = Busy = {},
                                  !.pc = CASE op = "create" -> "insert" [] op \in {"patch", "restore"} -> "write"
                                           [] OTHER -> "remove"]
       ELSE IF q \in Busy THEN [req[q] EXCEPT !.alone = FALSE] ELSE Idle]
  /\ UNCHANGED <<instance, clients, map, feed, settled, events, faults>>

\* What the queries make of the row.
Inserted(on)     == [state |-> "there", v |-> 1, on |-> on]
Written(v, on)   == [state |-> "there", v |-> v, on |-> on]
Deleted          == [instance EXCEPT !.state = "gone"]

\* CreateInstance: the row, and a client when it is enabled.
CreateInstance(r) ==
  /\ At(r, "insert")
  /\ IF instance.state = "none"
       THEN \E on \in BOOLEAN :
              /\ instance' = Inserted(on)
              /\ IF on THEN On(r, "add") ELSE End(r, TRUE)
       ELSE End(r, FALSE) /\ UNCHANGED instance
  /\ UNCHANGED <<clients, map, feed, changes, events, faults>>

\* UpdateInstance: the row it read, with a field changed, is written whole.
UpdateInstance(r) ==
  LET old == req[r].row IN
  /\ At(r, "write") /\ req[r].op = "patch"
  /\ IF instance.state = "there"
       THEN \E new \in {Written(instance.v + 1, old.on), Written(old.v, ~old.on)} :
              instance' = new /\ On(r, "remove")
       ELSE End(r, FALSE) /\ UNCHANGED instance
  /\ UNCHANGED <<clients, map, feed, changes, events, faults>>

\* A restore writes the row, or removes it, in a transaction; then it lists
\* the rows to bring the clients in line.
Restore(r) ==
  /\ At(r, "write") /\ req[r].op = "restore"
  /\ IF instance.state = "there"
       THEN \E new \in {Written(instance.v + 1, b) : b \in BOOLEAN} \union {Deleted} :
              instance' = new /\ On(r, "list")
       ELSE On(r, "list") /\ UNCHANGED instance
  /\ UNCHANGED <<clients, map, feed, changes, events, faults>>

\* (Mutant: the disabled ones reconnect too.)
SyncAll(r) ==
  /\ At(r, "list")
  /\ Go(r, [req[r] EXCEPT !.pc = "remove", !.row = [instance EXCEPT !.on = TRUE]]) /\ UNCHANGED settled
  /\ UNCHANGED <<instance, clients, map, feed, changes, events, faults>>

\* syncTRInstances: enabled brokers reconnect, the others disconnect.  What
\* matters of the row is whether it is one.
Sync(r) ==
  /\ At(r, "list")
  /\ Go(r, [req[r] EXCEPT !.pc = "remove", !.row = [instance EXCEPT !.v = 0]]) /\ UNCHANGED settled
  /\ UNCHANGED <<instance, clients, map, feed, changes, events, faults>>

\* DeleteTRInstance, after the client has been removed.
DeleteInstance(r) ==
  /\ At(r, "delete")
  /\ instance' = Deleted
  /\ End(r, TRUE)
  /\ UNCHANGED <<clients, map, feed, changes, events, faults>>

-----------------------------------------------------------------------------
(* The manager: Remove, Add, and Update, which is both.                    *)

\* Whether Add follows Remove.
Updating(r) ==
  \/ req[r].op \in {"patch", "reconnect"}
  \/ req[r].op = "restore" /\ req[r].row.state = "there" /\ req[r].row.on

\* What comes after Remove, when it has succeeded or only failed to stop.
Removed(r, ok) ==
  CASE req[r].op = "delete" -> On(r, "delete")
    [] Updating(r) /\ ok    -> On(r, "add")
    [] OTHER                -> IF ok THEN End(r, TRUE) ELSE Cut(r)

\* Out of the map; then its context is cancelled.
RemoveClient(r) ==
  /\ At(r, "remove")
  /\ map' = NoClient
  /\ IF map = NoClient
       THEN Removed(r, TRUE) /\ UNCHANGED clients
       ELSE /\ Go(r, [req[r] EXCEPT !.pc = "stop", !.client = map]) /\ UNCHANGED settled
            /\ clients' = [clients EXCEPT ![map].life = "closing", ![map].v = 0]
  /\ UNCHANGED <<instance, feed, changes, events, faults>>

\* Client.Stop: done, or five seconds are over, or the request is.
StopClient(r) ==
  /\ At(r, "stop")
  /\ \/ clients[req[r].client].life = "dead" /\ Removed(r, TRUE)
     \/ clients[req[r].client].life # "dead" /\ Removed(r, FALSE)
  /\ UNCHANGED <<instance, clients, map, feed, changes, events, faults>>

\* (Mutant: whether there is a client is not asked.)
AddAlways(r) ==
  /\ At(r, "add")
  /\ Go(r, [req[r] EXCEPT !.pc = "read"]) /\ UNCHANGED settled
  /\ UNCHANGED <<instance, clients, map, feed, changes, events, faults>>

\* Add does nothing when there is a client by now.
Add(r) ==
  /\ At(r, "add")
  /\ IF map # NoClient THEN End(r, TRUE)
     ELSE Go(r, [req[r] EXCEPT !.pc = "read"]) /\ UNCHANGED settled
  /\ UNCHANGED <<instance, clients, map, feed, changes, events, faults>>

\* GetTRInstance: whether the row is enabled makes no difference.
ReadRow(r) ==
  /\ At(r, "read")
  /\ IF instance.state = "there"
       THEN Go(r, [req[r] EXCEPT !.pc = "start", !.row = instance]) /\ UNCHANGED settled
       ELSE End(r, FALSE)
  /\ UNCHANGED <<instance, clients, map, feed, changes, events, faults>>

\* Client.Start, whose supervisor dials from now on, and into the map, whatever
\* is there; the others that found none are passed.  Nobody sees the client
\* between the two.
StartClient(r) ==
  /\ At(r, "start")
  /\ clients' = Append([c \in Made |-> IF c = map THEN [clients[c] EXCEPT !.lost = req[r].passed] ELSE clients[c]],
                       Client(req[r].row.v))
  /\ told' = Append(told, 0)
  /\ map' = Len(clients')
  /\ req' = [q \in Requests |->
       IF q = r THEN Idle
       ELSE IF At(q, "read") \/ At(q, "start") THEN [req[q] EXCEPT !.passed = TRUE] ELSE req[q]]
  /\ settled' = [op |-> req[r].op, good |-> req[r].alone]
  /\ UNCHANGED <<instance, channel, changes, events, faults>>

\* A query fails, a password cannot be decrypted or a URL parsed, or the
\* request is cancelled.
Fail(r) ==
  /\ req[r].pc \in {"insert", "write", "list", "read", "start", "delete"}
  /\ faults < MaxFaults /\ faults' = faults + 1
  /\ End(r, FALSE)
  /\ UNCHANGED <<instance, clients, map, feed, changes, events>>

-----------------------------------------------------------------------------
(* The clients.                                                            *)

Set(c, s) == clients' = [clients EXCEPT ![c] = s]
Emitting == {c \in Made : clients[c].pc # "idle"}

\* The library has ended what Stop cancelled, or cancels with the process.
Done(c) ==
  /\ clients[c].life = "closing" /\ clients[c].pc = "idle"
  /\ Set(c, [clients[c] EXCEPT !.life = "dead"])
  /\ UNCHANGED <<instance, req, map, feed, settled, changes, events, faults>>

\* OnConnectionUp, OnConnectionDown, or a frame of a topic and plugin it
\* expects, which the snapshot has by now: an event is on its way.
Event(c) ==
  /\ clients[c].life # "dead" /\ clients[c].pc = "idle"
  /\ changes + events < MaxWork /\ events' = events + 1
  /\ clients' = [d \in Made |->
       IF d = c THEN [clients[c] EXCEPT !.pc = "send", !.n = @ + 1, !.alone = Emitting = {}]
       ELSE IF d \in Emitting THEN [clients[d] EXCEPT !.alone = FALSE] ELSE clients[d]]
  /\ UNCHANGED <<instance, req, map, feed, settled, changes, faults>>

\* (Mutant: with no room the event is dropped.)
SendOrDrop(c) ==
  /\ clients[c].pc = "send"
  /\ channel' = IF Len(channel) < Cap THEN Append(channel, [of |-> c, n |-> clients[c].n]) ELSE channel
  /\ Set(c, [clients[c] EXCEPT !.pc = "idle", !.alone = TRUE])
  /\ UNCHANGED <<instance, req, map, told, settled, changes, events, faults>>

\* emit: into the channel if there is room.
Send(c) ==
  /\ clients[c].pc = "send"
  /\ IF Len(channel) < Cap
       THEN /\ channel' = Append(channel, [of |-> c, n |-> clients[c].n])
            /\ Set(c, [clients[c] EXCEPT !.pc = "idle", !.alone = TRUE])
       ELSE Set(c, [clients[c] EXCEPT !.pc = "drop"]) /\ UNCHANGED channel
  /\ UNCHANGED <<instance, req, map, told, settled, changes, events, faults>>

\* The oldest goes, if there is one still.
DropOldest(c) ==
  /\ clients[c].pc = "drop"
  /\ channel' = IF channel = <<>> THEN channel ELSE Tail(channel)
  /\ Set(c, [clients[c] EXCEPT !.pc = "retry"])
  /\ UNCHANGED <<instance, req, map, told, settled, changes, events, faults>>

\* Once more, and a warning if there is room even for that; others may have
\* taken the place by now.
Retry(c) ==
  /\ clients[c].pc = "retry"
  /\ IF Len(channel) < Cap
       THEN /\ channel' = Append(channel, [of |-> c, n |-> clients[c].n])
            /\ Set(c, [clients[c] EXCEPT !.pc = "warn"])
       ELSE /\ Set(c, [clients[c] EXCEPT !.pc = "warn", !.refused = TRUE])
            /\ UNCHANGED channel
  /\ UNCHANGED <<instance, req, map, told, settled, changes, events, faults>>

Warn(c) ==
  /\ clients[c].pc = "warn"
  /\ channel' = IF Len(channel) < Cap THEN Append(channel, [of |-> c, n |-> 0]) ELSE channel
  /\ Set(c, [clients[c] EXCEPT !.pc = "idle", !.alone = TRUE])
  /\ UNCHANGED <<instance, req, map, told, settled, changes, events, faults>>

\* The goroutine of main hands it to the hub.
Tell ==
  /\ channel # <<>>
  /\ channel' = Tail(channel)
  /\ told' = IF Head(channel).n = 0 THEN told ELSE [told EXCEPT ![Head(channel).of] = Head(channel).n]
  /\ UNCHANGED <<instance, req, clients, map, settled, changes, events, faults>>

\* The process stops and starts.
ManagerRestarts ==
  /\ faults < MaxFaults /\ faults' = faults + 1
  /\ req' = [r \in Requests |-> Idle]
  /\ clients' = EnabledClients /\ map' = Len(clients')
  /\ told' = [c \in DOMAIN clients' |-> 0]
  /\ channel' = <<>>
  /\ settled' = [op |-> "start", good |-> TRUE]
  /\ UNCHANGED <<instance, changes, events>>

-----------------------------------------------------------------------------

Ops == {"create", "patch", "reconnect", "delete", "restore"}

Step(r) ==
  \/ CreateInstance(r) \/ UpdateInstance(r) \/ Restore(r) \/ Sync(r) \/ DeleteInstance(r)
  \/ RemoveClient(r) \/ StopClient(r) \/ Add(r) \/ ReadRow(r) \/ StartClient(r)

Emit(c) == Send(c) \/ DropOldest(c) \/ Retry(c) \/ Warn(c)

MNext ==
  \/ \E r \in Requests : Step(r) \/ Fail(r) \/ \E op \in Ops : Begin(r, op)
  \/ \E c \in Made : Done(c) \/ Emit(c) \/ Event(c)
  \/ Tell \/ ManagerRestarts

MSpec == MInit /\ [][MNext]_mvars

-----------------------------------------------------------------------------

MTypeOK ==
  /\ instance.state \in {"none", "there", "gone"} /\ instance.on \in BOOLEAN
  /\ map \in {NoClient} \union Made
  /\ \A r \in Requests : req[r].client \in {NoClient} \union Made
  /\ Len(channel) <= Cap /\ Len(told) = Len(clients)
  /\ changes \in 0..MaxChanges /\ changes + events \in 0..MaxWork /\ faults \in 0..MaxFaults

\* A client that runs is the one in the map: a client nobody can stop any
\* more, which would feed the pages until the process ends, is left only by
\* two changes that started one each at once, the second having looked before
\* the first put its own there (Add).
ForgottenAreConcurrent ==
  /\ MTypeOK
  /\ \A c \in Made :
       clients[c].life = "live" =>
         map = c \/ clients[c].lost

\* When the last request ran alone and without a failed query, whatever ran at
\* once before it: a client there is runs with the row's settings, even when
\* the one before it would not stop; an enabled instance has one, unless that
\* stop timed out (manager.go:158: no client is started again, and a PATCH is
\* answered 200 all the same); and a create, a restore and the start leave a
\* disabled instance without.  Of a disabled one that was patched or
\* reconnected nothing is said: the code starts a client for it, and
\* tr-mqtt-guide.md:83,90 and backup_tr.go:138-141 say it does not run.
FeedIsAsSaved ==
  Busy = {} /\ settled.good =>
    /\ map # NoClient =>
         clients[map].life = "live" /\ instance.state = "there" /\ clients[map].v = instance.v
    /\ instance.state = "there" /\ instance.on => map # NoClient \/ settled.op = "cut"
    /\ instance.state = "there" /\ ~instance.on /\ map # NoClient => settled.op \in {"patch", "reconnect"}

\* What a client has sent so far.
Sent(c) == IF clients[c].pc \in {"send", "drop", "retry"} THEN clients[c].n - 1 ELSE clients[c].n
Waiting(c) == {channel[i].n : i \in {k \in 1..Len(channel) : channel[k].of = c /\ channel[k].n # 0}}

\* The pages hear the events of a client in the order it read them, and when
\* the channel is full it is the oldest ones that go: with an event of a client
\* all its later ones wait, unless one was refused its place, which takes
\* another client that was sending at the same time.
NewestIsKept ==
  /\ \A i, j \in 1..Len(channel) :
       i < j /\ channel[i].of = channel[j].of /\ channel[i].n # 0 /\ channel[j].n # 0 => channel[i].n < channel[j].n
  /\ \A c \in Made :
       /\ \A k \in Waiting(c) : told[c] < k
       /\ \A k \in Waiting(c) : k..Sent(c) \subseteq Waiting(c) \/ clients[c].refused
       /\ clients[c].pc = "warn" /\ clients[c].alone =>
            \/ told[c] = clients[c].n \/ clients[c].n \in Waiting(c)

=============================================================================
