-------------------------------- MODULE Hub ---------------------------------
(***************************************************************************)
(* The WebSocket hub (internal/ws/hub.go, client.go) and the registry of   *)
(* live connections (internal/connections/registry.go): how a connection   *)
(* joins, how it ends, and how signing an account out ends its             *)
(* connections.                                                            *)
(*                                                                         *)
(* Goroutines: Run, which alone adds clients and removes them; for each    *)
(* connection its handler, which becomes its read pump, and its write      *)
(* pump; and breakers, requests that end connections of others.  register  *)
(* and unregister are unbuffered: sending and receiving are one step, taken *)
(* when Run is at its select.  h.clients and the registry have a lock      *)
(* each, so Run joins or drops a client in two steps.  The audio streams   *)
(* end through the same registry, and have no step here.                   *)
(***************************************************************************)
EXTENDS Integers, Sequences, FiniteSets

CONSTANTS
  Conns,        \* connections; each opens once (its ID is a fresh UUID)
  Owners,       \* accounts, or the device sessions of one
  OwnerOf,      \* the account each connection signs in to
  Admins,       \* the connections to the admin socket
  NoConn,       \* no connection at hand
  Breakers,     \* requests that may be ending connections at one time
  MaxClients,   \* the maxClients setting
  UserLimit     \* the connection limit of an account

ASSUME HubAssumption ==
  /\ OwnerOf \in [Conns -> Owners]
  /\ Admins \subseteq Conns
  /\ NoConn \notin Conns
  /\ Owners # {}
  /\ {MaxClients, UserLimit} \subseteq Nat \ {0}

VARIABLES
  phase,       \* phase[c]: how far c's handler has come
  wire,        \* wire[c]: the socket, and which side ended it
  sendClosed,  \* connections whose send channel is closed
  clients,     \* h.clients
  registry,    \* registry[c]: its entry, by close reason; "absent" if none
  log,         \* log[c]: what the registry's observer has been told of c
  run,         \* the Run goroutine
  shutdown,    \* its context has been cancelled
  revoked,     \* owners whose tokens have been revoked
  disabled,    \* owners whose account has been disabled
  breaker      \* breaker[b]: the request that is ending connections

hub      == <<clients, run>>
accounts == <<revoked, disabled>>
vars     == <<phase, wire, sendClosed, hub, registry, log, shutdown, accounts, breaker>>

Reasons == {"client", "signout", "admin", "revalidation", "shutdown"}

Phases == {"new", "counted", "known", "trusted", "reading", "unregistering", "gone"}

AtSelect == run = [pc |-> "select", conn |-> NoConn]
Closing  == run = [pc |-> "closing", conn |-> NoConn]
Stopped  == run = [pc |-> "stopped", conn |-> NoConn]
Joining(c) == run = [pc |-> "joining", conn |-> c]
Leaving(c) == run = [pc |-> "leaving", conn |-> c]

RunAt(pc, c) == run' = [pc |-> pc, conn |-> c]

\* close(h.done) has happened.
DoneClosed == Closing \/ Stopped

\* Run holds h.mu for writing: while it drops a client, and in closeAll.
HubLocked == Closing \/ \E c \in Conns : Leaving(c)

Registered(c) == registry[c] # "absent"

\* SetCloseReason: nothing to note on a connection that has no entry.
Marked(S, reason) ==
  [c \in Conns |-> IF c \in S /\ Registered(c) THEN reason ELSE registry[c]]

\* Remove, and the Closed call to the observer.
RemoveEntry(c, reasons) ==
  /\ registry' = [reasons EXCEPT ![c] = "absent"]
  /\ log' = IF Registered(c)
              THEN [log EXCEPT ![c] =
                      Append(@, IF reasons[c] = "open" THEN "client" ELSE reasons[c])]
              ELSE log

IdleBreaker == [pc |-> "idle", owner |-> CHOOSE o \in Owners : TRUE, via |-> "hub",
                targets |-> {}, todo |-> {}, conn |-> NoConn]

Init ==
  /\ phase = [c \in Conns |-> "new"]
  /\ wire = [c \in Conns |-> "up"]
  /\ sendClosed = {}
  /\ clients = {}
  /\ registry = [c \in Conns |-> "absent"]
  /\ log = [c \in Conns |-> <<>>]
  /\ run = [pc |-> "select", conn |-> NoConn]
  /\ shutdown = FALSE
  /\ revoked = {}
  /\ disabled = {}
  /\ breaker = [b \in Breakers |-> IdleBreaker]

-----------------------------------------------------------------------------
(* The handler of a connection: handleListenerWS, then readPump.           *)

GoOn(c, to) == phase' = [phase EXCEPT ![c] = to]

\* The maxClients setting against ClientCount; neither knows of admins.
CheckCapacity(c) ==
  /\ phase[c] = "new"
  /\ c \in Admins \/ ~HubLocked
  /\ GoOn(c, IF c \in Admins \/ Cardinality(clients \ Admins) < MaxClients
               THEN "counted" ELSE "gone")
  /\ UNCHANGED <<wire, sendClosed, hub, registry, log, shutdown, accounts, breaker>>

\* The first message carries the token: Rejects, then the account itself.
\* (An anonymous listener is let in by publicAccess instead: an owner of its
\* own, revoked when an admin turns that off.)
CheckToken(c) ==
  /\ phase[c] = "counted"
  /\ GoOn(c, IF OwnerOf[c] \notin revoked \union disabled THEN "known" ELSE "gone")
  /\ UNCHANGED <<wire, sendClosed, hub, registry, log, shutdown, accounts, breaker>>

\* The account's own limit against countByUser; the admin socket has none.
CheckLimit(c) ==
  /\ phase[c] = "known"
  /\ c \in Admins \/ ~HubLocked
  /\ GoOn(c, IF c \in Admins
                 \/ Cardinality({d \in clients : OwnerOf[d] = OwnerOf[c]}) < UserLimit
               THEN "trusted" ELSE "gone")
  /\ UNCHANGED <<wire, sendClosed, hub, registry, log, shutdown, accounts, breaker>>

\* No token in time, or the welcome cannot be written.
GiveUp(c) ==
  /\ phase[c] \in {"counted", "known", "trusted"}
  /\ GoOn(c, "gone")
  /\ UNCHANGED <<wire, sendClosed, hub, registry, log, shutdown, accounts, breaker>>

\* Register and Run meet: the client is in h.clients, not yet in the registry.
Register(c) ==
  /\ phase[c] = "trusted" /\ AtSelect
  /\ GoOn(c, "reading")
  /\ clients' = clients \union {c}
  /\ RunAt("joining", c)
  /\ UNCHANGED <<wire, sendClosed, registry, log, shutdown, accounts, breaker>>

\* Register after the hub has shut down.
RegisterLate(c) ==
  /\ phase[c] = "trusted" /\ DoneClosed
  /\ GoOn(c, "reading")
  /\ sendClosed' = sendClosed \union {c}
  /\ UNCHANGED <<wire, hub, registry, log, shutdown, accounts, breaker>>

\* The read fails: the client has gone, or the write pump closed the socket.
ReadFails(c) ==
  /\ phase[c] = "reading" /\ wire[c] # "up"
  /\ GoOn(c, "unregistering")
  /\ UNCHANGED <<wire, sendClosed, hub, registry, log, shutdown, accounts, breaker>>

\* Run takes c off the unregister channel, whoever sent it.
Drop(c) ==
  /\ AtSelect
  /\ IF c \in clients
       THEN /\ clients' = clients \ {c}
            /\ sendClosed' = sendClosed \union {c}
            /\ RunAt("leaving", c)
       ELSE UNCHANGED <<hub, sendClosed>>

UnregisterSelf(c) ==
  /\ phase[c] = "unregistering"
  /\ Drop(c)
  /\ GoOn(c, "gone")
  /\ UNCHANGED <<wire, registry, log, shutdown, accounts, breaker>>

UnregisterSelfLate(c) ==
  /\ phase[c] = "unregistering" /\ DoneClosed
  /\ GoOn(c, "gone")
  /\ UNCHANGED <<wire, sendClosed, hub, registry, log, shutdown, accounts, breaker>>

-----------------------------------------------------------------------------
(* The socket: the client's end of it, and writePump.                      *)

ClientLeaves(c) ==
  /\ phase[c] = "reading" /\ wire[c] = "up"
  /\ wire' = [wire EXCEPT ![c] = "left"]
  /\ UNCHANGED <<phase, sendClosed, hub, registry, log, shutdown, accounts, breaker>>

\* writePump finds its channel closed, and closes the socket.
PumpEnds(c) ==
  /\ phase[c] = "reading" /\ wire[c] = "up" /\ c \in sendClosed
  /\ wire' = [wire EXCEPT ![c] = "closed"]
  /\ UNCHANGED <<phase, sendClosed, hub, registry, log, shutdown, accounts, breaker>>

\* Every five minutes writePump looks at the account, not at the token; by
\* then Run has long finished adding c.
Revalidate(c) ==
  /\ phase[c] = "reading" /\ wire[c] = "up" /\ ~Joining(c)
  /\ OwnerOf[c] \in disabled
  /\ registry' = Marked({c}, "revalidation")
  /\ wire' = [wire EXCEPT ![c] = "closed"]
  /\ UNCHANGED <<phase, sendClosed, hub, log, shutdown, accounts, breaker>>

-----------------------------------------------------------------------------
(* Run, between and after its selects, and closeAll.                       *)

\* (Mutant: the observer hears nothing of it.)
JoinedUnreported == \E c \in Conns :
  /\ Joining(c)
  /\ registry' = [registry EXCEPT ![c] = "open"]
  /\ RunAt("select", NoConn)
  /\ UNCHANGED <<phase, wire, sendClosed, clients, log, shutdown, accounts, breaker>>

\* conns.Add, and the Opened call to the observer.
Joined == \E c \in Conns :
  /\ Joining(c)
  /\ registry' = [registry EXCEPT ![c] = "open"]
  /\ log' = [log EXCEPT ![c] = Append(@, "opened")]
  /\ RunAt("select", NoConn)
  /\ UNCHANGED <<phase, wire, sendClosed, clients, shutdown, accounts, breaker>>

\* conns.Remove, still under h.mu.
Left == \E c \in Conns :
  /\ Leaving(c)
  /\ RemoveEntry(c, registry)
  /\ RunAt("select", NoConn)
  /\ UNCHANGED <<phase, wire, sendClosed, clients, shutdown, accounts, breaker>>

Shutdown ==
  /\ ~shutdown
  /\ shutdown' = TRUE
  /\ UNCHANGED <<phase, wire, sendClosed, hub, registry, log, accounts, breaker>>

\* Run returns: closeAll closes done and takes the lock.
StopRunning ==
  /\ AtSelect /\ shutdown
  /\ RunAt("closing", NoConn)
  /\ UNCHANGED <<phase, wire, sendClosed, clients, registry, log, shutdown, accounts, breaker>>

CloseOne == \E c \in clients :
  /\ Closing
  /\ clients' = clients \ {c}
  /\ sendClosed' = sendClosed \union {c}
  /\ RemoveEntry(c, Marked({c}, "shutdown"))
  /\ UNCHANGED <<phase, wire, run, shutdown, accounts, breaker>>

AllClosed ==
  /\ Closing /\ clients = {}
  /\ RunAt("stopped", NoConn)
  /\ UNCHANGED <<phase, wire, sendClosed, clients, registry, log, shutdown, accounts, breaker>>

-----------------------------------------------------------------------------
(* Requests that end connections.  Via "hub": DisconnectByUser, ByJTI and  *)
(* Anonymous select among h.clients and mark each client as they come to   *)
(* it.  Via "registry": CloseFor selects and marks in one go, then calls   *)
(* each entry's close.  Both then do endSession, client by client.         *)

Step(b, changes) == breaker' = [breaker EXCEPT ![b] = changes]

\* Tokens are revoked, and the account disabled if that is what is asked,
\* before any connection is looked at.
SignOut(b, o, via, disable) ==
  /\ breaker[b].pc = "idle"
  /\ Step(b, [IdleBreaker EXCEPT !.pc = "snapshot", !.owner = o, !.via = via])
  /\ revoked' = revoked \union {o}
  /\ disabled' = IF disable THEN disabled \union {o} ELSE disabled
  /\ UNCHANGED <<phase, wire, sendClosed, hub, registry, log, shutdown>>

SnapshotClients(b) ==
  LET targets == {c \in clients : OwnerOf[c] = breaker[b].owner} IN
  /\ breaker[b].pc = "snapshot" /\ breaker[b].via = "hub"
  /\ ~HubLocked
  /\ Step(b, [breaker[b] EXCEPT !.pc = "ending", !.targets = targets, !.todo = targets])
  /\ UNCHANGED <<phase, wire, sendClosed, hub, registry, log, shutdown, accounts>>

SnapshotRegistry(b) ==
  LET targets == {c \in Conns : Registered(c) /\ OwnerOf[c] = breaker[b].owner} IN
  /\ breaker[b].pc = "snapshot" /\ breaker[b].via = "registry"
  /\ Step(b, [breaker[b] EXCEPT !.pc = "ending", !.targets = targets, !.todo = targets])
  /\ registry' = Marked(targets, "signout")
  /\ UNCHANGED <<phase, wire, sendClosed, hub, log, shutdown, accounts>>

\* ConnectionsDisconnect: one connection, and nothing is revoked.
Disconnect(b, c) ==
  /\ breaker[b].pc = "idle" /\ Registered(c)
  /\ Step(b, [IdleBreaker EXCEPT !.pc = "ending", !.via = "registry",
                            !.targets = {c}, !.todo = {c}])
  /\ registry' = Marked({c}, "admin")
  /\ UNCHANGED <<phase, wire, sendClosed, hub, log, shutdown, accounts>>

\* The next client, told that its session is over.
Take(b, c) ==
  /\ breaker[b].pc = "ending" /\ c \in breaker[b].todo
  /\ Step(b, [breaker[b] EXCEPT !.pc = "handing", !.todo = @ \ {c}, !.conn = c])
  /\ registry' = IF breaker[b].via = "hub" THEN Marked({c}, "signout") ELSE registry
  /\ UNCHANGED <<phase, wire, sendClosed, hub, log, shutdown, accounts>>

\* (Mutant: the send does not wait for Run.)
HandOverHasty(b) ==
  /\ breaker[b].pc = "handing"
  /\ IF AtSelect THEN Drop(breaker[b].conn) ELSE UNCHANGED <<hub, sendClosed>>
  /\ Step(b, [breaker[b] EXCEPT !.pc = "ending", !.conn = NoConn])
  /\ UNCHANGED <<phase, wire, registry, log, shutdown, accounts>>

HandOver(b) ==
  /\ breaker[b].pc = "handing"
  /\ Drop(breaker[b].conn)
  /\ Step(b, [breaker[b] EXCEPT !.pc = "ending", !.conn = NoConn])
  /\ UNCHANGED <<phase, wire, registry, log, shutdown, accounts>>

\* (Mutant: the send does not watch done.)
HandOverStuck(b) ==
  /\ breaker[b].pc = "handing" /\ DoneClosed /\ AtSelect
  /\ UNCHANGED vars

HandOverLate(b) ==
  /\ breaker[b].pc = "handing" /\ DoneClosed
  /\ Step(b, [breaker[b] EXCEPT !.pc = "ending", !.conn = NoConn])
  /\ UNCHANGED <<phase, wire, sendClosed, hub, registry, log, shutdown, accounts>>

Ended(b) ==
  /\ breaker[b].pc = "ending" /\ breaker[b].todo = {}
  /\ Step(b, IdleBreaker)
  /\ UNCHANGED <<phase, wire, sendClosed, hub, registry, log, shutdown, accounts>>

-----------------------------------------------------------------------------
HandlerStep(c) ==
  \/ CheckCapacity(c) \/ CheckToken(c) \/ CheckLimit(c) \/ GiveUp(c)
  \/ Register(c) \/ RegisterLate(c)
  \/ ReadFails(c) \/ UnregisterSelf(c) \/ UnregisterSelfLate(c)

PumpStep(c) == PumpEnds(c) \/ Revalidate(c)

RunStep == Joined \/ Left \/ StopRunning \/ CloseOne \/ AllClosed

BreakerStep(b) ==
  \/ SnapshotClients(b) \/ SnapshotRegistry(b)
  \/ \E c \in Conns : Take(b, c)
  \/ HandOver(b) \/ HandOverLate(b) \/ Ended(b)

Next ==
  \/ \E c \in Conns : HandlerStep(c) \/ PumpStep(c) \/ ClientLeaves(c)
  \/ RunStep
  \/ Shutdown
  \/ \E b \in Breakers :
       \/ BreakerStep(b)
       \/ \E o \in Owners, via \in {"hub", "registry"}, disable \in BOOLEAN :
            SignOut(b, o, via, disable)
       \/ \E c \in Conns : Disconnect(b, c)

Spec == Init /\ [][Next]_vars

\* Goroutines run on; tickers tick; a handshake that gets no answer times
\* out; a send that waits at Run's select is received sooner or later (each
\* connection joins and leaves once, so it cannot be passed over for ever).
\* Nothing makes a client leave, or an admin ask.
Fairness ==
  /\ \A c \in Conns : WF_vars(HandlerStep(c)) /\ WF_vars(PumpStep(c))
  /\ WF_vars(RunStep)
  /\ \A b \in Breakers : WF_vars(BreakerStep(b))

FairSpec == Spec /\ Fairness

-----------------------------------------------------------------------------
Breaker ==
  [pc : {"idle", "snapshot", "ending", "handing"}, owner : Owners,
   via : {"hub", "registry"}, targets : SUBSET Conns,
   todo : SUBSET Conns, conn : Conns \union {NoConn}]

TypeOK ==
  /\ phase \in [Conns -> Phases]
  /\ wire \in [Conns -> {"up", "left", "closed"}]
  /\ sendClosed \subseteq Conns
  /\ clients \subseteq Conns
  /\ registry \in [Conns -> Reasons \union {"absent", "open"}]
  /\ log \in [Conns -> Seq(Reasons \union {"opened"})]
  /\ run \in [pc : {"select", "closing", "stopped"}, conn : {NoConn}]
             \union [pc : {"joining", "leaving"}, conn : Conns]
  /\ shutdown \in BOOLEAN
  /\ revoked \subseteq Owners
  /\ disabled \subseteq Owners
  /\ breaker \in [Breakers -> Breaker]

\* hub.go:62-64: the admin's list of connections never disagrees with the
\* hub's clients, except for the one client Run is adding or dropping at the
\* moment.
RegistryAgrees ==
  \A c \in Conns : Registered(c) <=> (c \in clients /\ ~Joining(c)) \/ Leaving(c)

\* Nobody is left holding a dead socket: a connection that the hub does not
\* know (dropped, swept up by the shutdown, or come too late for it) has had
\* its send channel closed, so that its write pump ends it.
OutsideIsClosed ==
  \A c \in Conns : phase[c] \in {"reading", "unregistering"} =>
    c \in clients \/ c \in sendClosed

\* Nothing is left over in the hub: a client belongs to a handler that has
\* yet to unregister it, unless the shutdown is about to sweep it up.
ClientsHaveHandlers ==
  \A c \in clients : Closing \/ phase[c] \in {"reading", "unregistering"}

\* Whoever a sign-out selected is out of the hub once the request has dealt
\* with it, and does not come back while the request goes on with the others.
SelectedAreOut ==
  \A b \in Breakers : \A c \in breaker[b].targets \intersect clients :
    c \in breaker[b].todo \/ c = breaker[b].conn \/ DoneClosed

\* Refinement: the registry keeps its promise to the connection history.
Log == INSTANCE ConnectionLog
LogSpec == Log!Spec

-----------------------------------------------------------------------------
(* What makes the above inductive.                                         *)

Entered(c) == phase[c] \notin {"new", "counted", "known", "trusted"}

Selected(c) == \E b \in Breakers : c \in breaker[b].targets

\* Run's step in hand agrees with h.clients, and nothing is left at the end.
RunAgrees ==
  /\ \A c \in Conns : (Joining(c) => c \in clients) /\ (Leaving(c) => c \notin clients)
  /\ Stopped => clients = {}

\* A connection is known to hub, registry and requests once it has entered.
KnownHasEntered ==
  \A c \in Conns : c \in clients \/ Leaving(c) \/ Selected(c) => Entered(c)

LogAgrees ==
  \A c \in Conns :
    /\ Registered(c) => log[c] = <<"opened">>
    /\ ~Entered(c) \/ Joining(c) => log[c] = <<>>

HandsFree == \A b \in Breakers : breaker[b].pc # "handing" => breaker[b].conn = NoConn

\* What the hub, its registry and the handlers owe each other, between any two
\* steps of clients, requests that end connections, and the shutdown: the list
\* of connections agrees with the hub, nobody sits on a dead socket, nothing is
\* left over, and whoever was selected is out.
HubInv ==
  /\ TypeOK /\ HandsFree /\ RunAgrees /\ KnownHasEntered /\ LogAgrees
  /\ RegistryAgrees /\ OutsideIsClosed /\ ClientsHaveHandlers /\ SelectedAreOut

-----------------------------------------------------------------------------
(* Liveness, under FairSpec.                                               *)

\* Nobody waits on Run for ever: requests that end connections return, also
\* when the hub shuts down under them.
BreakersReturn == \A b \in Breakers : breaker[b].pc # "idle" ~> breaker[b].pc = "idle"

\* Shutting down ends every handler that had got past the door.
HandlersEnd ==
  shutdown ~> (Stopped /\ \A c \in Conns : phase[c] \in {"new", "gone"})

\* Whoever is on the admin's list when a sign-out comes to look is ended by it.
SignedOutEnd ==
  \A c \in Conns :
    (Registered(c) /\ \E b \in Breakers : breaker[b].pc = "snapshot"
                                          /\ breaker[b].owner = OwnerOf[c])
      ~> phase[c] = "gone"

\* A connection of a disabled account ends, also when the request missed it:
\* the five-minute revalidation finds it.
DisabledIsEvicted ==
  \A c \in Conns : (OwnerOf[c] \in disabled /\ c \in clients) ~> phase[c] = "gone"

\* Requests that end connections return, and a connection ends when the hub
\* shuts down, when a sign-out finds it on the list, and when its account is
\* disabled.  A sign-out or revocation that disables nobody says that the live
\* connections end (connections.go:219-220), and that is more than holds: one
\* that has shown its token and is not yet on the list is missed by the
\* request, and the revalidation looks at the account and not at the token, so
\* it stays.  Nothing is claimed of that one.
ConnectionsEnd == BreakersReturn /\ HandlersEnd /\ SignedOutEnd /\ DisabledIsEvicted
=============================================================================
