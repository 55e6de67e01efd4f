----------------------------- MODULE Hub_proof ------------------------------
(***************************************************************************)
(* What holds of the hub for every set of connections, owners and          *)
(* requests: its inductive invariant, and that the registry keeps its      *)
(* promise to the connection history (ConnectionLog).                      *)
(***************************************************************************)
EXTENDS Hub, SequenceTheorems, TLAPS

USE DEF hub, accounts, Phases, Reasons, GoOn, RunAt, Step

\* SetCloseReason neither adds nor removes an entry.
LEMMA MarkedKeeps ==
  ASSUME TypeOK, NEW S, NEW r \in Reasons
  PROVE  /\ Marked(S, r) \in [Conns -> Reasons \union {"absent", "open"}]
         /\ \A c \in Conns : Marked(S, r)[c] = "absent" <=> ~Registered(c)
BY DEF TypeOK, Marked, Registered

\* The Run goroutine's states.
RunStates == [pc : {"select", "closing", "stopped"}, conn : {NoConn}]
               \union [pc : {"joining", "leaving"}, conn : Conns]

LEMMA RunTypes ==
  /\ \A pc \in {"select", "closing", "stopped"} : [pc |-> pc, conn |-> NoConn] \in RunStates
  /\ \A pc \in {"joining", "leaving"}, c \in Conns : [pc |-> pc, conn |-> c] \in RunStates
BY DEF RunStates

LEMMA DropTypes ==
  ASSUME TypeOK, NEW c, Drop(c)
  PROVE  clients' \subseteq Conns /\ sendClosed' \subseteq Conns /\ run' \in RunStates
<1>1. CASE c \in clients
  BY <1>1, RunTypes DEF TypeOK, Drop
<1>2. CASE c \notin clients
  BY <1>2 DEF TypeOK, Drop, RunStates
<1> QED BY <1>1, <1>2

\* Record by record: what a request may become.
LEMMA BreakerTypes ==
  ASSUME TypeOK, NEW b \in Breakers, NEW x \in Breaker, Step(b, x)
  PROVE  breaker' \in [Breakers -> Breaker]
BY DEF TypeOK

LEMMA BreakerUpdates ==
  ASSUME TypeOK, NEW b \in Breakers
  PROVE  /\ \A T \in SUBSET Conns :
              [breaker[b] EXCEPT !.pc = "ending", !.targets = T, !.todo = T] \in Breaker
         /\ \A c \in Conns :
              [breaker[b] EXCEPT !.pc = "handing", !.todo = @ \ {c}, !.conn = c] \in Breaker
         /\ [breaker[b] EXCEPT !.pc = "ending", !.conn = NoConn] \in Breaker
<1>1. breaker[b] \in Breaker
  BY DEF TypeOK
<1>2. \A T \in SUBSET Conns :
        [breaker[b] EXCEPT !.pc = "ending", !.targets = T, !.todo = T] \in Breaker
  BY <1>1 DEF Breaker
<1>3. \A c \in Conns :
        [breaker[b] EXCEPT !.pc = "handing", !.todo = @ \ {c}, !.conn = c] \in Breaker
  BY <1>1 DEF Breaker
<1>4. [breaker[b] EXCEPT !.pc = "ending", !.conn = NoConn] \in Breaker
  BY <1>1 DEF Breaker
<1> QED BY <1>2, <1>3, <1>4

LEMMA IdleBreakerType == IdleBreaker \in Breaker
<1>1. (CHOOSE o \in Owners : TRUE) \in Owners
  BY HubAssumption
<1> QED BY <1>1 DEF IdleBreaker, Breaker

LEMMA InitInv == Init => HubInv
<1> SUFFICES ASSUME Init PROVE HubInv
  OBVIOUS
<1>1. TypeOK
  <2>1. breaker \in [Breakers -> Breaker]
    BY IdleBreakerType DEF Init
  <2>2. log \in [Conns -> Seq(Reasons \union {"opened"})]
    BY DEF Init
  <2>3. /\ registry \in [Conns -> Reasons \union {"absent", "open"}]
        /\ run \in [pc : {"select", "closing", "stopped"}, conn : {NoConn}]
    BY DEF Init
  <2> QED BY <2>1, <2>2, <2>3 DEF Init, TypeOK
<1>2. RunAgrees /\ KnownHasEntered /\ LogAgrees /\ RegistryAgrees
  BY DEF Init, RunAgrees, KnownHasEntered, Entered, Selected, LogAgrees, Registered,
         RegistryAgrees, Joining, Leaving, Stopped, IdleBreaker
<1>3. OutsideIsClosed /\ ClientsHaveHandlers /\ SelectedAreOut /\ HandsFree
  BY DEF Init, HandsFree, OutsideIsClosed, ClientsHaveHandlers, SelectedAreOut, IdleBreaker
<1> QED BY <1>1, <1>2, <1>3 DEF HubInv

-----------------------------------------------------------------------------
LEMMA TypeStep == TypeOK /\ [Next]_vars => TypeOK'
<1> SUFFICES ASSUME TypeOK, [Next]_vars PROVE TypeOK'
  OBVIOUS
<1>a. run' \in RunStates /\ breaker' \in [Breakers -> Breaker] /\ clients' \subseteq Conns
      /\ sendClosed' \subseteq Conns /\ registry' \in [Conns -> Reasons \union {"absent", "open"}]
      /\ log' \in [Conns -> Seq(Reasons \union {"opened"})]
      /\ phase' \in [Conns -> Phases] /\ wire' \in [Conns -> {"up", "left", "closed"}]
      /\ shutdown' \in BOOLEAN /\ revoked' \subseteq Owners /\ disabled' \subseteq Owners
      => TypeOK'
  BY DEF TypeOK, RunStates
<1>b. run \in RunStates
  BY DEF TypeOK, RunStates
<1>1. ASSUME NEW c \in Conns,
             CheckCapacity(c) \/ CheckToken(c) \/ CheckLimit(c) \/ GiveUp(c) \/ ReadFails(c)
             \/ UnregisterSelfLate(c) \/ RegisterLate(c)
      PROVE  TypeOK'
  BY <1>1 DEF TypeOK, CheckCapacity, CheckToken, CheckLimit, GiveUp, ReadFails, UnregisterSelfLate, RegisterLate
<1>2. ASSUME NEW c \in Conns, Register(c)
      PROVE  TypeOK'
  BY <1>2, <1>a, RunTypes DEF TypeOK, Register
<1>3. ASSUME NEW c \in Conns, UnregisterSelf(c)
      PROVE  TypeOK'
  <2>1. clients' \subseteq Conns /\ sendClosed' \subseteq Conns /\ run' \in RunStates
    BY <1>3, DropTypes DEF UnregisterSelf
  <2> QED BY <1>3, <1>a, <2>1 DEF TypeOK, UnregisterSelf
<1>4. ASSUME NEW c \in Conns, ClientLeaves(c) \/ PumpEnds(c)
      PROVE  TypeOK'
  BY <1>4 DEF TypeOK, ClientLeaves, PumpEnds
<1>5. ASSUME NEW c \in Conns, Revalidate(c)
      PROVE  TypeOK'
  BY <1>5, MarkedKeeps DEF TypeOK, Revalidate
<1>6. ASSUME NEW c \in Conns, NEW reasons \in [Conns -> Reasons \union {"absent", "open"}],
             Registered(c) => reasons[c] # "absent", RemoveEntry(c, reasons)
      PROVE  /\ registry' \in [Conns -> Reasons \union {"absent", "open"}]
             /\ log' \in [Conns -> Seq(Reasons \union {"opened"})]
  BY <1>6 DEF TypeOK, RemoveEntry, Registered
<1>7. ASSUME Joined
      PROVE  TypeOK'
  <2>1. run' \in RunStates
    BY <1>7, RunTypes DEF Joined
  <2> QED BY <1>7, <1>a, <2>1 DEF TypeOK, Joined
<1>8. ASSUME Left
      PROVE  TypeOK'
  <2>1. PICK c \in Conns : RemoveEntry(c, registry)
    BY <1>8 DEF Left
  <2>2. /\ registry' \in [Conns -> Reasons \union {"absent", "open"}]
        /\ log' \in [Conns -> Seq(Reasons \union {"opened"})]
    BY <2>1, <1>6 DEF TypeOK, Registered
  <2>3. run' \in RunStates
    BY <1>8, RunTypes DEF Left
  <2> QED BY <1>8, <1>a, <2>2, <2>3 DEF TypeOK, Left
<1>9. ASSUME CloseOne
      PROVE  TypeOK'
  <2>1. PICK c \in Conns : RemoveEntry(c, Marked({c}, "shutdown")) /\ c \in clients
    BY <1>9 DEF CloseOne, TypeOK
  <2>2. /\ registry' \in [Conns -> Reasons \union {"absent", "open"}]
        /\ log' \in [Conns -> Seq(Reasons \union {"opened"})]
    BY <2>1, <1>6, MarkedKeeps
  <2> QED BY <2>2, <1>9, <1>a, <1>b DEF CloseOne, TypeOK
<1>10. ASSUME StopRunning \/ AllClosed
       PROVE  TypeOK'
  <2>1. run' \in RunStates
    BY <1>10, RunTypes DEF StopRunning, AllClosed
  <2> QED BY <1>10, <1>a, <2>1 DEF TypeOK, StopRunning, AllClosed
<1>11. ASSUME Shutdown
       PROVE  TypeOK'
  BY <1>11 DEF TypeOK, Shutdown
<1>12. ASSUME NEW b \in Breakers, NEW o \in Owners, NEW via \in {"hub", "registry"},
              NEW disable \in BOOLEAN, SignOut(b, o, via, disable)
       PROVE  TypeOK'
  <2>1. [IdleBreaker EXCEPT !.pc = "snapshot", !.owner = o, !.via = via] \in Breaker
    BY IdleBreakerType DEF Breaker
  <2>2. breaker' \in [Breakers -> Breaker]
    BY <2>1, <1>12, BreakerTypes DEF SignOut
  <2> QED BY <1>12, <1>a, <1>b, <2>2 DEF TypeOK, SignOut
<1>13. ASSUME NEW b \in Breakers, SnapshotClients(b) \/ HandOverLate(b) \/ Ended(b)
       PROVE  TypeOK'
  <2>1. {c \in clients : OwnerOf[c] = breaker[b].owner} \in SUBSET Conns
    BY DEF TypeOK
  <2>2. breaker' \in [Breakers -> Breaker]
    BY <2>1, <1>13, BreakerTypes, BreakerUpdates, IdleBreakerType
       DEF SnapshotClients, HandOverLate, Ended
  <2> QED BY <1>13, <1>a, <1>b, <2>2 DEF TypeOK, SnapshotClients, HandOverLate, Ended
<1>14. ASSUME NEW b \in Breakers, SnapshotRegistry(b)
       PROVE  TypeOK'
  <2>1. {c \in Conns : Registered(c) /\ OwnerOf[c] = breaker[b].owner} \in SUBSET Conns
    OBVIOUS
  <2>2. breaker' \in [Breakers -> Breaker]
    BY <2>1, <1>14, BreakerTypes, BreakerUpdates DEF SnapshotRegistry
  <2>3. registry' \in [Conns -> Reasons \union {"absent", "open"}]
    BY <1>14, MarkedKeeps DEF SnapshotRegistry
  <2> QED BY <1>14, <1>a, <1>b, <2>2, <2>3 DEF TypeOK, SnapshotRegistry
<1>15. ASSUME NEW b \in Breakers, HandOver(b)
       PROVE  TypeOK'
  <2>1. clients' \subseteq Conns /\ sendClosed' \subseteq Conns /\ run' \in RunStates
    BY <1>15, DropTypes DEF HandOver
  <2>2. breaker' \in [Breakers -> Breaker]
    BY <1>15, BreakerTypes, BreakerUpdates DEF HandOver
  <2> QED BY <1>15, <1>a, <2>1, <2>2 DEF TypeOK, HandOver
<1>16. ASSUME NEW b \in Breakers, NEW c \in Conns, Disconnect(b, c)
       PROVE  TypeOK'
  <2>1. [IdleBreaker EXCEPT !.pc = "ending", !.via = "registry",
                            !.targets = {c}, !.todo = {c}] \in Breaker
    BY IdleBreakerType DEF Breaker
  <2>2. breaker' \in [Breakers -> Breaker]
    BY <1>16, <2>1, BreakerTypes DEF Disconnect
  <2>3. registry' \in [Conns -> Reasons \union {"absent", "open"}]
    BY <1>16, MarkedKeeps DEF Disconnect
  <2> QED BY <1>16, <1>a, <1>b, <2>2, <2>3 DEF TypeOK, Disconnect
<1>17. ASSUME NEW b \in Breakers, NEW c \in Conns, Take(b, c)
       PROVE  TypeOK'
  <2>1. breaker' \in [Breakers -> Breaker]
    BY <1>17, BreakerTypes, BreakerUpdates DEF Take
  <2>2. registry' \in [Conns -> Reasons \union {"absent", "open"}]
    BY <1>17, MarkedKeeps DEF Take, TypeOK
  <2> QED BY <1>17, <1>a, <1>b, <2>1, <2>2 DEF TypeOK, Take
<1>18. CASE UNCHANGED vars
  BY <1>18 DEF TypeOK, vars
<1> QED BY <1>1, <1>2, <1>3, <1>4, <1>5, <1>7, <1>8, <1>9, <1>10, <1>11, <1>12, <1>13,
           <1>14, <1>15, <1>16, <1>17, <1>18
        DEF Next, HandlerStep, PumpStep, RunStep, BreakerStep
-----------------------------------------------------------------------------
\* Run is in one place at a time, and moves where it is sent.
LEMMA RunIsOne ==
  /\ AtSelect => /\ \A d \in Conns : ~Joining(d) /\ ~Leaving(d)
                 /\ ~Closing /\ ~Stopped
  /\ \A c \in Conns : Joining(c) =>
       /\ \A d \in Conns : ~Leaving(d) /\ (Joining(d) => d = c)
       /\ ~Closing /\ ~Stopped
  /\ \A c \in Conns : Leaving(c) =>
       /\ \A d \in Conns : ~Joining(d) /\ (Leaving(d) => d = c)
       /\ ~Closing /\ ~Stopped
  /\ Closing \/ Stopped => \A d \in Conns : ~Joining(d) /\ ~Leaving(d)
BY DEF AtSelect, Joining, Leaving, Closing, Stopped

LEMMA RunMoves ==
  /\ \A c \in Conns : RunAt("joining", c) =>
       /\ \A d \in Conns : ~Leaving(d)' /\ (Joining(d)' <=> d = c)
       /\ ~Closing' /\ ~Stopped'
  /\ \A c \in Conns : RunAt("leaving", c) =>
       /\ \A d \in Conns : ~Joining(d)' /\ (Leaving(d)' <=> d = c)
       /\ ~Closing' /\ ~Stopped'
  /\ RunAt("select", NoConn) =>
       /\ \A d \in Conns : ~Joining(d)' /\ ~Leaving(d)'
       /\ ~Closing' /\ ~Stopped'
  /\ RunAt("closing", NoConn) =>
       (\A d \in Conns : ~Joining(d)' /\ ~Leaving(d)') /\ Closing' /\ ~Stopped'
  /\ RunAt("stopped", NoConn) =>
       (\A d \in Conns : ~Joining(d)' /\ ~Leaving(d)') /\ ~Closing' /\ Stopped'
BY DEF Joining, Leaving, Closing, Stopped

LEMMA RunStays ==
  run' = run => /\ \A d \in Conns : (Joining(d)' <=> Joining(d)) /\ (Leaving(d)' <=> Leaving(d))
                /\ (Closing' <=> Closing) /\ (Stopped' <=> Stopped)
BY DEF Joining, Leaving, Closing, Stopped

\* What Run does with a connection it takes off the unregister channel.
LEMMA DropFacts ==
  ASSUME TypeOK, NEW c \in Conns \union {NoConn}, Drop(c)
  PROVE  /\ clients' = clients \ {c}
         /\ \A d \in Conns : d \in clients \/ d \in sendClosed => d \in clients' \/ d \in sendClosed'
         /\ \A d \in Conns : ~Joining(d) /\ ~Leaving(d) /\ ~Joining(d)'
         /\ \A d \in Conns : Leaving(d)' <=> d = c /\ c \in clients
         /\ ~Closing /\ ~Stopped /\ ~Closing' /\ ~Stopped'
<1>1. AtSelect /\ \A d \in Conns : ~Joining(d) /\ ~Leaving(d)
  BY RunIsOne DEF Drop
<1>2. CASE c \in clients
  BY <1>1, <1>2, RunIsOne, RunMoves, HubAssumption DEF TypeOK, Drop
<1>3. CASE c \notin clients
  BY <1>1, <1>3, RunIsOne, RunStays DEF Drop
<1> QED BY <1>2, <1>3

LEMMA HandsFreeStep == TypeOK /\ HandsFree /\ [Next]_vars => HandsFree'
<1> SUFFICES ASSUME TypeOK, HandsFree, [Next]_vars PROVE HandsFree'
  OBVIOUS
<1>1. CASE UNCHANGED breaker
  BY <1>1 DEF HandsFree
<1>2. ASSUME NEW b \in Breakers, NEW x \in Breaker, Step(b, x), x.pc # "handing" => x.conn = NoConn
      PROVE  HandsFree'
  BY <1>2 DEF TypeOK, HandsFree
<1>3. ASSUME NEW b \in Breakers, BreakerStep(b)
      PROVE  HandsFree'
  <2>1. breaker[b] \in Breaker
    BY DEF TypeOK
  <2>2. ASSUME NEW T \in SUBSET Conns, breaker[b].pc = "snapshot",
               Step(b, [breaker[b] EXCEPT !.pc = "ending", !.targets = T, !.todo = T])
        PROVE  HandsFree'
    <3>1. breaker[b].conn = NoConn
      BY <2>2 DEF HandsFree
    <3>2. [breaker[b] EXCEPT !.pc = "ending", !.targets = T, !.todo = T].conn = NoConn
      BY <2>1, <3>1 DEF Breaker
    <3> QED BY <2>2, <3>2, <1>2, BreakerUpdates
  <2>3. CASE SnapshotClients(b) \/ SnapshotRegistry(b)
    <3> DEFINE known == {c \in clients : OwnerOf[c] = breaker[b].owner}
               listed == {c \in Conns : Registered(c) /\ OwnerOf[c] = breaker[b].owner}
    <3>1. known \in SUBSET Conns /\ listed \in SUBSET Conns
      BY DEF TypeOK
    <3> QED BY <2>2, <2>3, <3>1 DEF SnapshotClients, SnapshotRegistry
  <2>5. ASSUME NEW c \in Conns, Take(b, c)
        PROVE  HandsFree'
    <3>1. [breaker[b] EXCEPT !.pc = "handing", !.todo = @ \ {c}, !.conn = c].pc = "handing"
      BY <2>1 DEF Breaker
    <3> QED BY <2>5, <3>1, <1>2, BreakerUpdates DEF Take
  <2>6. CASE HandOver(b) \/ HandOverLate(b)
    <3>1. [breaker[b] EXCEPT !.pc = "ending", !.conn = NoConn].conn = NoConn
      BY <2>1 DEF Breaker
    <3> QED BY <2>6, <3>1, <1>2, BreakerUpdates DEF HandOver, HandOverLate
  <2>4. CASE Ended(b)
    BY <2>4, <1>2, IdleBreakerType DEF Ended, IdleBreaker
  <2> QED BY <1>3, <2>3, <2>4, <2>5, <2>6 DEF BreakerStep
<1>4. ASSUME NEW b \in Breakers, NEW o, NEW via, NEW disable, SignOut(b, o, via, disable)
      PROVE  HandsFree'
  BY <1>4 DEF TypeOK, HandsFree, SignOut, IdleBreaker
<1>5. ASSUME NEW b \in Breakers, NEW c, Disconnect(b, c)
      PROVE  HandsFree'
  BY <1>5 DEF TypeOK, HandsFree, Disconnect, IdleBreaker
<1>6. ASSUME NEW c \in Conns, HandlerStep(c) \/ PumpStep(c) \/ ClientLeaves(c)
      PROVE  UNCHANGED breaker
  BY <1>6 DEF HandlerStep, PumpStep, ClientLeaves, CheckCapacity, CheckToken, CheckLimit, GiveUp, Register,
       RegisterLate, ReadFails, UnregisterSelf, UnregisterSelfLate, PumpEnds, Revalidate
<1>7. ASSUME RunStep \/ Shutdown \/ UNCHANGED vars
      PROVE  UNCHANGED breaker
  BY <1>7 DEF RunStep, Joined, Left, StopRunning, CloseOne, AllClosed, Shutdown, vars
<1> QED BY <1>1, <1>3, <1>4, <1>5, <1>6, <1>7 DEF Next

LEMMA FirstEntry == Append(<<>>, "opened") = <<"opened">>
OBVIOUS

LEMMA LastEntry == \A r \in Reasons : Append(<<"opened">>, r) = <<"opened", r>>
<1> TAKE r \in Reasons
<1> DEFINE S == Reasons \union {"opened"}
           s == Append(<<"opened">>, r)
           t == <<"opened", r>>
<1>1. <<"opened">> \in Seq(S) /\ r \in S /\ Len(<<"opened">>) = 1
  OBVIOUS
<1>2. s \in Seq(S) /\ Len(s) = 2 /\ s[1] = "opened" /\ s[2] = r
  BY <1>1, AppendProperties
<1>3. t \in Seq(S) /\ Len(t) = 2 /\ t[1] = "opened" /\ t[2] = r
  BY <1>1
<1>4. Len(s) = Len(t) /\ \A i \in 1 .. Len(s) : s[i] = t[i]
  BY <1>2, <1>3
<1> HIDE DEF s, t
<1>5. s = t
  BY <1>2, <1>3, <1>4, SeqEqual
<1> QED BY <1>5 DEF s, t

LEMMA InvStep == HubInv /\ [Next]_vars => HubInv'
<1> SUFFICES ASSUME HubInv, [Next]_vars PROVE HubInv'
  OBVIOUS
<1> USE DEF HubInv, Registered, Entered, Selected
<1>t. TypeOK' /\ HandsFree'
  BY TypeStep, HandsFreeStep
<1>1. ASSUME NEW c \in Conns,
             CheckCapacity(c) \/ CheckToken(c) \/ CheckLimit(c) \/ GiveUp(c) \/ ReadFails(c)
      PROVE  HubInv'
  <2> USE <1>1 DEF CheckCapacity, CheckToken, CheckLimit, GiveUp, ReadFails
  <2>1. RunAgrees' /\ KnownHasEntered'
    <3>1. \A d \in Conns : Entered(d) => Entered(d)'
      BY DEF TypeOK
    <3>2. RunAgrees'
      BY RunStays DEF TypeOK, RunAgrees
    <3> QED BY <3>1, <3>2, RunStays DEF KnownHasEntered
  <2>2. RegistryAgrees'
    BY RunStays, <1>t DEF TypeOK, RunAgrees, KnownHasEntered, RegistryAgrees
  <2>3. LogAgrees'
    BY RunStays, <1>t DEF TypeOK, RunAgrees, KnownHasEntered, LogAgrees, RegistryAgrees
  <2>4. OutsideIsClosed' /\ ClientsHaveHandlers'
    <3>1. \A d \in Conns : phase'[d] \in {"reading", "unregistering"}
                              <=> phase[d] \in {"reading", "unregistering"}
      BY DEF TypeOK
    <3> QED BY <3>1, RunStays DEF TypeOK, OutsideIsClosed, ClientsHaveHandlers
  <2>5. SelectedAreOut'
    BY RunStays, <1>t DEF TypeOK, KnownHasEntered, SelectedAreOut, RegistryAgrees, DoneClosed
  <2> QED BY <1>t, <2>1, <2>2, <2>3, <2>4, <2>5
<1>2. ASSUME NEW c \in Conns, UnregisterSelfLate(c)
      PROVE  HubInv'
  <2> USE <1>2 DEF UnregisterSelfLate, DoneClosed
  <2>1. RunAgrees' /\ KnownHasEntered'
    BY RunStays, <1>t DEF TypeOK, RunAgrees, KnownHasEntered, LogAgrees, RegistryAgrees, ClientsHaveHandlers
  <2>2. RegistryAgrees'
    BY RunStays, <1>t DEF TypeOK, RunAgrees, KnownHasEntered, RegistryAgrees
  <2>3. LogAgrees'
    BY RunStays, <1>t DEF TypeOK, RunAgrees, KnownHasEntered, LogAgrees, RegistryAgrees
  <2>4. OutsideIsClosed' /\ ClientsHaveHandlers'
    BY RunStays, <1>t DEF TypeOK, RunAgrees, KnownHasEntered, OutsideIsClosed, ClientsHaveHandlers
  <2>5. SelectedAreOut'
    BY RunStays, <1>t DEF TypeOK, KnownHasEntered, SelectedAreOut, RegistryAgrees, DoneClosed
  <2> QED BY <1>t, <2>1, <2>2, <2>3, <2>4, <2>5
<1>3. ASSUME NEW c \in Conns, RegisterLate(c)
      PROVE  HubInv'
  <2> USE <1>3 DEF RegisterLate
  <2>1. RunAgrees' /\ KnownHasEntered'
    BY RunStays, <1>t DEF TypeOK, RunAgrees, KnownHasEntered, LogAgrees, RegistryAgrees, ClientsHaveHandlers
  <2>2. RegistryAgrees'
    BY RunStays, <1>t DEF TypeOK, RunAgrees, KnownHasEntered, RegistryAgrees
  <2>3. LogAgrees'
    BY RunStays, <1>t DEF TypeOK, RunAgrees, KnownHasEntered, LogAgrees, RegistryAgrees
  <2>4. OutsideIsClosed' /\ ClientsHaveHandlers'
    BY RunStays, <1>t DEF TypeOK, RunAgrees, KnownHasEntered, OutsideIsClosed, ClientsHaveHandlers
  <2>5. SelectedAreOut'
    BY RunStays, <1>t DEF TypeOK, KnownHasEntered, SelectedAreOut, RegistryAgrees, DoneClosed
  <2> QED BY <1>t, <2>1, <2>2, <2>3, <2>4, <2>5
<1>4. ASSUME NEW c \in Conns, Register(c)
      PROVE  HubInv'
  <2> USE <1>4 DEF Register
  <2>1. RunAgrees' /\ KnownHasEntered'
    BY RunIsOne, RunMoves, <1>t DEF TypeOK, RunAgrees, KnownHasEntered, LogAgrees, RegistryAgrees, ClientsHaveHandlers
  <2>2. RegistryAgrees'
    BY RunIsOne, RunMoves, <1>t DEF TypeOK, RunAgrees, KnownHasEntered, RegistryAgrees
  <2>3. LogAgrees'
    BY RunIsOne, RunMoves, <1>t DEF TypeOK, RunAgrees, KnownHasEntered, LogAgrees, RegistryAgrees
  <2>4. OutsideIsClosed' /\ ClientsHaveHandlers'
    BY RunIsOne, RunMoves, <1>t DEF TypeOK, RunAgrees, KnownHasEntered, OutsideIsClosed, ClientsHaveHandlers
  <2>5. SelectedAreOut'
    BY RunIsOne, RunMoves, <1>t DEF TypeOK, KnownHasEntered, SelectedAreOut, RegistryAgrees, DoneClosed
  <2> QED BY <1>t, <2>1, <2>2, <2>3, <2>4, <2>5
<1>5. ASSUME NEW c \in Conns, UnregisterSelf(c)
      PROVE  HubInv'
  <2> USE <1>5 DEF UnregisterSelf
  <2>1. RunAgrees' /\ KnownHasEntered'
    BY DropFacts, HubAssumption, <1>t DEF TypeOK, RunAgrees, KnownHasEntered, LogAgrees, RegistryAgrees, ClientsHaveHandlers
  <2>2. RegistryAgrees'
    BY DropFacts, HubAssumption, <1>t DEF TypeOK, RunAgrees, KnownHasEntered, RegistryAgrees
  <2>3. LogAgrees'
    BY DropFacts, HubAssumption, <1>t DEF TypeOK, RunAgrees, KnownHasEntered, LogAgrees, RegistryAgrees
  <2>4. OutsideIsClosed' /\ ClientsHaveHandlers'
    BY DropFacts, HubAssumption, <1>t DEF TypeOK, RunAgrees, KnownHasEntered, OutsideIsClosed, ClientsHaveHandlers
  <2>5. SelectedAreOut'
    BY DropFacts, HubAssumption, <1>t DEF TypeOK, KnownHasEntered, SelectedAreOut, RegistryAgrees, DoneClosed
  <2> QED BY <1>t, <2>1, <2>2, <2>3, <2>4, <2>5
<1>6. ASSUME NEW c \in Conns, ClientLeaves(c) \/ PumpEnds(c)
      PROVE  HubInv'
  <2> USE <1>6 DEF ClientLeaves, PumpEnds
  <2>1. RunAgrees' /\ KnownHasEntered'
    BY RunStays, <1>t DEF TypeOK, RunAgrees, KnownHasEntered, LogAgrees, RegistryAgrees, ClientsHaveHandlers
  <2>2. RegistryAgrees'
    BY RunStays, <1>t DEF TypeOK, RunAgrees, KnownHasEntered, RegistryAgrees
  <2>3. LogAgrees'
    BY RunStays, <1>t DEF TypeOK, RunAgrees, KnownHasEntered, LogAgrees, RegistryAgrees
  <2>4. OutsideIsClosed' /\ ClientsHaveHandlers'
    BY RunStays, <1>t DEF TypeOK, RunAgrees, KnownHasEntered, OutsideIsClosed, ClientsHaveHandlers
  <2>5. SelectedAreOut'
    BY RunStays, <1>t DEF TypeOK, KnownHasEntered, SelectedAreOut, RegistryAgrees, DoneClosed
  <2> QED BY <1>t, <2>1, <2>2, <2>3, <2>4, <2>5
<1>7. ASSUME NEW c \in Conns, Revalidate(c)
      PROVE  HubInv'
  <2> USE <1>7 DEF Revalidate
  <2>1. RunAgrees' /\ KnownHasEntered'
    BY RunStays, MarkedKeeps, <1>t DEF TypeOK, RunAgrees, KnownHasEntered, LogAgrees, RegistryAgrees, ClientsHaveHandlers
  <2>2. RegistryAgrees'
    BY RunStays, MarkedKeeps, <1>t DEF TypeOK, RunAgrees, KnownHasEntered, RegistryAgrees
  <2>3. LogAgrees'
    BY RunStays, MarkedKeeps, <1>t DEF TypeOK, RunAgrees, KnownHasEntered, LogAgrees, RegistryAgrees
  <2>4. OutsideIsClosed' /\ ClientsHaveHandlers'
    BY RunStays, MarkedKeeps, <1>t DEF TypeOK, RunAgrees, KnownHasEntered, OutsideIsClosed, ClientsHaveHandlers
  <2>5. SelectedAreOut'
    BY RunStays, MarkedKeeps, <1>t DEF TypeOK, KnownHasEntered, SelectedAreOut, RegistryAgrees, DoneClosed
  <2> QED BY <1>t, <2>1, <2>2, <2>3, <2>4, <2>5
<1>8. ASSUME Joined
      PROVE  HubInv'
  <2> USE <1>8 DEF Joined
  <2>1. RunAgrees' /\ KnownHasEntered'
    BY RunIsOne, RunMoves, FirstEntry, <1>t DEF TypeOK, RunAgrees, KnownHasEntered, LogAgrees, RegistryAgrees, ClientsHaveHandlers
  <2>2. RegistryAgrees'
    BY RunIsOne, RunMoves, FirstEntry, <1>t DEF TypeOK, RunAgrees, KnownHasEntered, RegistryAgrees
  <2>3. LogAgrees'
    <3>1. PICK c \in Conns : Joining(c) /\ log' = [log EXCEPT ![c] = Append(@, "opened")]
                           /\ registry' = [registry EXCEPT ![c] = "open"]
      OBVIOUS
    <3>2. log[c] = <<>>
      BY <3>1 DEF LogAgrees
    <3>3. log' = [log EXCEPT ![c] = <<"opened">>]
      BY <3>1, <3>2, FirstEntry DEF TypeOK
    <3>4. Entered(c)' /\ \A d \in Conns : ~Joining(d)' /\ Entered(d)' = Entered(d)
      BY <3>1, RunMoves DEF RunAgrees, KnownHasEntered
    <3>5. ASSUME NEW d \in Conns PROVE (Registered(d)' => log'[d] = <<"opened">>)
                                       /\ (~Entered(d)' => log'[d] = <<>>)
      <4>1. CASE d = c
        BY <4>1, <3>3, <3>4 DEF TypeOK
      <4>2. CASE d # c
        BY <4>2, <3>1, <3>3, <3>4 DEF TypeOK, LogAgrees
      <4> QED BY <4>1, <4>2
    <3> QED BY <3>4, <3>5 DEF LogAgrees
  <2>4. OutsideIsClosed' /\ ClientsHaveHandlers'
    BY RunIsOne, RunMoves, FirstEntry, <1>t DEF TypeOK, RunAgrees, KnownHasEntered, OutsideIsClosed, ClientsHaveHandlers
  <2>5. SelectedAreOut'
    BY RunIsOne, RunMoves, FirstEntry, <1>t DEF TypeOK, KnownHasEntered, SelectedAreOut, RegistryAgrees, DoneClosed
  <2> QED BY <1>t, <2>1, <2>2, <2>3, <2>4, <2>5
<1>9. ASSUME Left
      PROVE  HubInv'
  <2> USE <1>9 DEF Left, RemoveEntry
  <2>1. RunAgrees' /\ KnownHasEntered'
    BY RunIsOne, RunMoves, <1>t DEF TypeOK, RunAgrees, KnownHasEntered, LogAgrees, RegistryAgrees, ClientsHaveHandlers
  <2>2. RegistryAgrees'
    BY RunIsOne, RunMoves, <1>t DEF TypeOK, RunAgrees, KnownHasEntered, RegistryAgrees
  <2>3. LogAgrees'
    BY RunIsOne, RunMoves, <1>t DEF TypeOK, RunAgrees, KnownHasEntered, LogAgrees, RegistryAgrees
  <2>4. OutsideIsClosed' /\ ClientsHaveHandlers'
    BY RunIsOne, RunMoves, <1>t DEF TypeOK, RunAgrees, KnownHasEntered, OutsideIsClosed, ClientsHaveHandlers
  <2>5. SelectedAreOut'
    BY RunIsOne, RunMoves, <1>t DEF TypeOK, KnownHasEntered, SelectedAreOut, RegistryAgrees, DoneClosed
  <2> QED BY <1>t, <2>1, <2>2, <2>3, <2>4, <2>5
<1>10. ASSUME StopRunning \/ AllClosed
      PROVE  HubInv'
  <2> USE <1>10 DEF StopRunning, AllClosed
  <2>1. RunAgrees' /\ KnownHasEntered'
    BY RunIsOne, RunMoves, <1>t DEF TypeOK, RunAgrees, KnownHasEntered, LogAgrees, RegistryAgrees, ClientsHaveHandlers
  <2>2. RegistryAgrees'
    BY RunIsOne, RunMoves, <1>t DEF TypeOK, RunAgrees, KnownHasEntered, RegistryAgrees
  <2>3. LogAgrees'
    BY RunIsOne, RunMoves, <1>t DEF TypeOK, RunAgrees, KnownHasEntered, LogAgrees, RegistryAgrees
  <2>4. OutsideIsClosed' /\ ClientsHaveHandlers'
    BY RunIsOne, RunMoves, <1>t DEF TypeOK, RunAgrees, KnownHasEntered, OutsideIsClosed, ClientsHaveHandlers
  <2>5. SelectedAreOut'
    BY RunIsOne, RunMoves, <1>t DEF TypeOK, KnownHasEntered, SelectedAreOut, RegistryAgrees, DoneClosed
  <2> QED BY <1>t, <2>1, <2>2, <2>3, <2>4, <2>5
<1>11. ASSUME Shutdown
      PROVE  HubInv'
  <2> USE <1>11 DEF Shutdown
  <2>1. RunAgrees' /\ KnownHasEntered'
    BY RunStays, <1>t DEF TypeOK, RunAgrees, KnownHasEntered, LogAgrees, RegistryAgrees, ClientsHaveHandlers
  <2>2. RegistryAgrees'
    BY RunStays, <1>t DEF TypeOK, RunAgrees, KnownHasEntered, RegistryAgrees
  <2>3. LogAgrees'
    BY RunStays, <1>t DEF TypeOK, RunAgrees, KnownHasEntered, LogAgrees, RegistryAgrees
  <2>4. OutsideIsClosed' /\ ClientsHaveHandlers'
    BY RunStays, <1>t DEF TypeOK, RunAgrees, KnownHasEntered, OutsideIsClosed, ClientsHaveHandlers
  <2>5. SelectedAreOut'
    BY RunStays, <1>t DEF TypeOK, KnownHasEntered, SelectedAreOut, RegistryAgrees, DoneClosed
  <2> QED BY <1>t, <2>1, <2>2, <2>3, <2>4, <2>5
<1>12. ASSUME CloseOne
      PROVE  HubInv'
  <2> USE <1>12 DEF CloseOne, RemoveEntry
  <2>1. RunAgrees' /\ KnownHasEntered'
    BY RunStays, RunIsOne, MarkedKeeps, <1>t DEF TypeOK, RunAgrees, KnownHasEntered, LogAgrees, RegistryAgrees, ClientsHaveHandlers
  <2>2. RegistryAgrees'
    BY RunStays, RunIsOne, MarkedKeeps, <1>t DEF TypeOK, RunAgrees, KnownHasEntered, RegistryAgrees
  <2>3. LogAgrees'
    BY RunStays, RunIsOne, MarkedKeeps, <1>t DEF TypeOK, RunAgrees, KnownHasEntered, LogAgrees, RegistryAgrees
  <2>4. OutsideIsClosed' /\ ClientsHaveHandlers'
    BY RunStays, RunIsOne, MarkedKeeps, <1>t DEF TypeOK, RunAgrees, KnownHasEntered, OutsideIsClosed, ClientsHaveHandlers
  <2>5. SelectedAreOut'
    BY RunStays, RunIsOne, MarkedKeeps, <1>t DEF TypeOK, KnownHasEntered, SelectedAreOut, RegistryAgrees, DoneClosed
  <2> QED BY <1>t, <2>1, <2>2, <2>3, <2>4, <2>5
<1>13. ASSUME NEW b \in Breakers, NEW o \in Owners, NEW via, NEW disable,
             SignOut(b, o, via, disable)
      PROVE  HubInv'
  <2> USE <1>13 DEF SignOut, IdleBreaker
  <2>1. RunAgrees' /\ KnownHasEntered'
    BY RunStays, <1>t DEF TypeOK, RunAgrees, KnownHasEntered, LogAgrees, RegistryAgrees, ClientsHaveHandlers
  <2>2. RegistryAgrees'
    BY RunStays, <1>t DEF TypeOK, RunAgrees, KnownHasEntered, RegistryAgrees
  <2>3. LogAgrees'
    BY RunStays, <1>t DEF TypeOK, RunAgrees, KnownHasEntered, LogAgrees, RegistryAgrees
  <2>4. OutsideIsClosed' /\ ClientsHaveHandlers'
    BY RunStays, <1>t DEF TypeOK, RunAgrees, KnownHasEntered, OutsideIsClosed, ClientsHaveHandlers
  <2>5. SelectedAreOut'
    BY RunStays, <1>t DEF TypeOK, KnownHasEntered, SelectedAreOut, RegistryAgrees, DoneClosed
  <2> QED BY <1>t, <2>1, <2>2, <2>3, <2>4, <2>5
<1>14. ASSUME NEW b \in Breakers, SnapshotClients(b)
      PROVE  HubInv'
  <2> USE <1>14 DEF SnapshotClients, HubLocked
  <2>1. RunAgrees' /\ KnownHasEntered'
    BY RunStays, <1>t DEF TypeOK, RunAgrees, KnownHasEntered, LogAgrees, RegistryAgrees, ClientsHaveHandlers
  <2>2. RegistryAgrees'
    BY RunStays, <1>t DEF TypeOK, RunAgrees, KnownHasEntered, RegistryAgrees
  <2>3. LogAgrees'
    BY RunStays, <1>t DEF TypeOK, RunAgrees, KnownHasEntered, LogAgrees, RegistryAgrees
  <2>4. OutsideIsClosed' /\ ClientsHaveHandlers'
    BY RunStays, <1>t DEF TypeOK, RunAgrees, KnownHasEntered, OutsideIsClosed, ClientsHaveHandlers
  <2>5. SelectedAreOut'
    BY RunStays, <1>t DEF TypeOK, KnownHasEntered, SelectedAreOut, RegistryAgrees, DoneClosed
  <2> QED BY <1>t, <2>1, <2>2, <2>3, <2>4, <2>5
<1>15. ASSUME NEW b \in Breakers, SnapshotRegistry(b)
      PROVE  HubInv'
  <2> USE <1>15 DEF SnapshotRegistry
  <2>1. RunAgrees' /\ KnownHasEntered'
    BY RunStays, MarkedKeeps, <1>t DEF TypeOK, RunAgrees, KnownHasEntered, LogAgrees, RegistryAgrees, ClientsHaveHandlers
  <2>2. RegistryAgrees'
    BY RunStays, MarkedKeeps, <1>t DEF TypeOK, RunAgrees, KnownHasEntered, RegistryAgrees
  <2>3. LogAgrees'
    BY RunStays, MarkedKeeps, <1>t DEF TypeOK, RunAgrees, KnownHasEntered, LogAgrees, RegistryAgrees
  <2>4. OutsideIsClosed' /\ ClientsHaveHandlers'
    BY RunStays, MarkedKeeps, <1>t DEF TypeOK, RunAgrees, KnownHasEntered, OutsideIsClosed, ClientsHaveHandlers
  <2>5. SelectedAreOut'
    BY RunStays, MarkedKeeps, <1>t DEF TypeOK, KnownHasEntered, SelectedAreOut, RegistryAgrees, DoneClosed
  <2> QED BY <1>t, <2>1, <2>2, <2>3, <2>4, <2>5
<1>16. ASSUME NEW b \in Breakers, HandOver(b)
      PROVE  HubInv'
  <2> USE <1>16 DEF HandOver
  <2>c. breaker[b].conn \in Conns \union {NoConn}
    BY DEF TypeOK, Breaker
  <2>d. /\ clients' = clients \ {breaker[b].conn}
        /\ \A d \in Conns : d \in clients \/ d \in sendClosed => d \in clients' \/ d \in sendClosed'
        /\ \A d \in Conns : ~Joining(d) /\ ~Leaving(d) /\ ~Joining(d)'
        /\ \A d \in Conns : Leaving(d)' <=> d = breaker[b].conn /\ breaker[b].conn \in clients
        /\ ~Closing /\ ~Stopped /\ ~Closing' /\ ~Stopped'
    BY <2>c, DropFacts
  <2>1. RunAgrees' /\ KnownHasEntered'
    BY <2>d, <1>t DEF TypeOK, RunAgrees, KnownHasEntered, LogAgrees, RegistryAgrees, ClientsHaveHandlers
  <2>2. RegistryAgrees'
    BY <2>d, <1>t DEF TypeOK, RunAgrees, KnownHasEntered, RegistryAgrees
  <2>3. LogAgrees'
    BY <2>d, <1>t DEF TypeOK, RunAgrees, KnownHasEntered, LogAgrees, RegistryAgrees
  <2>4. OutsideIsClosed' /\ ClientsHaveHandlers'
    BY <2>d, <1>t DEF TypeOK, RunAgrees, KnownHasEntered, OutsideIsClosed, ClientsHaveHandlers
  <2>5. SelectedAreOut'
    BY <2>d, <1>t DEF TypeOK, KnownHasEntered, SelectedAreOut, RegistryAgrees, DoneClosed
  <2> QED BY <1>t, <2>1, <2>2, <2>3, <2>4, <2>5
<1>17. ASSUME NEW b \in Breakers, HandOverLate(b)
      PROVE  HubInv'
  <2> USE <1>17 DEF HandOverLate, DoneClosed
  <2>1. RunAgrees' /\ KnownHasEntered'
    BY RunStays, <1>t DEF TypeOK, RunAgrees, KnownHasEntered, LogAgrees, RegistryAgrees, ClientsHaveHandlers
  <2>2. RegistryAgrees'
    BY RunStays, <1>t DEF TypeOK, RunAgrees, KnownHasEntered, RegistryAgrees
  <2>3. LogAgrees'
    BY RunStays, <1>t DEF TypeOK, RunAgrees, KnownHasEntered, LogAgrees, RegistryAgrees
  <2>4. OutsideIsClosed' /\ ClientsHaveHandlers'
    BY RunStays, <1>t DEF TypeOK, RunAgrees, KnownHasEntered, OutsideIsClosed, ClientsHaveHandlers
  <2>5. SelectedAreOut'
    BY RunStays, <1>t DEF TypeOK, KnownHasEntered, SelectedAreOut, RegistryAgrees, DoneClosed
  <2> QED BY <1>t, <2>1, <2>2, <2>3, <2>4, <2>5
<1>18. ASSUME NEW b \in Breakers, Ended(b)
      PROVE  HubInv'
  <2> USE <1>18 DEF Ended, IdleBreaker
  <2>1. RunAgrees' /\ KnownHasEntered'
    BY RunStays, <1>t DEF TypeOK, RunAgrees, KnownHasEntered, LogAgrees, RegistryAgrees, ClientsHaveHandlers
  <2>2. RegistryAgrees'
    BY RunStays, <1>t DEF TypeOK, RunAgrees, KnownHasEntered, RegistryAgrees
  <2>3. LogAgrees'
    BY RunStays, <1>t DEF TypeOK, RunAgrees, KnownHasEntered, LogAgrees, RegistryAgrees
  <2>4. OutsideIsClosed' /\ ClientsHaveHandlers'
    BY RunStays, <1>t DEF TypeOK, RunAgrees, KnownHasEntered, OutsideIsClosed, ClientsHaveHandlers
  <2>5. SelectedAreOut'
    BY RunStays, <1>t DEF TypeOK, KnownHasEntered, SelectedAreOut, RegistryAgrees, DoneClosed
  <2> QED BY <1>t, <2>1, <2>2, <2>3, <2>4, <2>5
<1>19. ASSUME NEW b \in Breakers, NEW c \in Conns, Disconnect(b, c)
      PROVE  HubInv'
  <2> USE <1>19 DEF Disconnect, IdleBreaker
  <2>1. RunAgrees' /\ KnownHasEntered'
    BY RunStays, MarkedKeeps, <1>t DEF TypeOK, RunAgrees, KnownHasEntered, LogAgrees, RegistryAgrees, ClientsHaveHandlers
  <2>2. RegistryAgrees'
    BY RunStays, MarkedKeeps, <1>t DEF TypeOK, RunAgrees, KnownHasEntered, RegistryAgrees
  <2>3. LogAgrees'
    BY RunStays, MarkedKeeps, <1>t DEF TypeOK, RunAgrees, KnownHasEntered, LogAgrees, RegistryAgrees
  <2>4. OutsideIsClosed' /\ ClientsHaveHandlers'
    BY RunStays, MarkedKeeps, <1>t DEF TypeOK, RunAgrees, KnownHasEntered, OutsideIsClosed, ClientsHaveHandlers
  <2>5. SelectedAreOut'
    BY RunStays, MarkedKeeps, <1>t DEF TypeOK, KnownHasEntered, SelectedAreOut, RegistryAgrees, DoneClosed
  <2> QED BY <1>t, <2>1, <2>2, <2>3, <2>4, <2>5
<1>20. ASSUME NEW b \in Breakers, NEW c \in Conns, Take(b, c)
      PROVE  HubInv'
  <2> USE <1>20 DEF Take
  <2>1. RunAgrees' /\ KnownHasEntered'
    BY RunStays, MarkedKeeps, <1>t DEF TypeOK, RunAgrees, KnownHasEntered, LogAgrees, RegistryAgrees, ClientsHaveHandlers
  <2>2. RegistryAgrees'
    BY RunStays, MarkedKeeps, <1>t DEF TypeOK, RunAgrees, KnownHasEntered, RegistryAgrees
  <2>3. LogAgrees'
    BY RunStays, MarkedKeeps, <1>t DEF TypeOK, RunAgrees, KnownHasEntered, LogAgrees, RegistryAgrees
  <2>4. OutsideIsClosed' /\ ClientsHaveHandlers'
    BY RunStays, MarkedKeeps, <1>t DEF TypeOK, RunAgrees, KnownHasEntered, OutsideIsClosed, ClientsHaveHandlers
  <2>5. SelectedAreOut'
    <3>1. breaker'[b].targets = breaker[b].targets /\ breaker'[b].conn = c
          /\ breaker'[b].todo = breaker[b].todo \ {c}
      BY DEF TypeOK, Breaker
    <3>2. breaker[b].conn \notin Conns
      BY HubAssumption DEF HandsFree
    <3> QED BY <3>1, <3>2, RunStays DEF TypeOK, SelectedAreOut, DoneClosed
  <2> QED BY <1>t, <2>1, <2>2, <2>3, <2>4, <2>5
<1>21. CASE UNCHANGED vars
  <2>1. RunAgrees' /\ KnownHasEntered' /\ LogAgrees' /\ RegistryAgrees'
    BY <1>21, RunStays DEF vars, RunAgrees, KnownHasEntered, LogAgrees, RegistryAgrees
  <2>2. OutsideIsClosed' /\ ClientsHaveHandlers' /\ SelectedAreOut'
    BY <1>21, RunStays DEF vars, DoneClosed, OutsideIsClosed, ClientsHaveHandlers, SelectedAreOut
  <2> QED BY <1>t, <2>1, <2>2
<1> QED BY <1>1, <1>2, <1>3, <1>4, <1>5, <1>6, <1>7, <1>8, <1>9, <1>10, <1>11, <1>12, <1>13, <1>14, <1>15, <1>16, <1>17, <1>18, <1>19, <1>20, <1>21
        DEF Next, HandlerStep, PumpStep, RunStep, BreakerStep

-----------------------------------------------------------------------------
LEMMA HubInvariance == Spec => []HubInv
BY InitInv, InvStep, PTL DEF Spec

\* The hub's clients and the registry never disagree except about the one
\* client Run has in hand; every socket the hub does not know has had its send
\* channel closed; and whoever a request to end connections selected is out of
\* the hub once it has been dealt with: for any number of connections,
\* accounts and requests (hub.go, client.go, registry.go).
THEOREM HubSafety == Spec => []HubInv
BY HubInvariance

\* The registry tells its observer of each connection once that it opened and
\* once that it closed, with a reason: the hub implements ConnectionLog.
THEOREM HubKeepsLog == Spec => LogSpec
<1>1. Init => Log!Init
  BY DEF Init, Log!Init
<1>2. HubInv /\ [Next]_vars => [Log!Next]_log
  <2> SUFFICES ASSUME HubInv, [Next]_vars PROVE [Log!Next]_log
    OBVIOUS
  <2> USE DEF HubInv, Log!Next, Registered
  <2>1. CASE Joined
    <3>1. PICK c \in Conns : Joining(c) /\ log' = [log EXCEPT ![c] = Append(@, "opened")]
      BY <2>1 DEF Joined
    <3>2. log[c] = <<>>
      BY <3>1 DEF LogAgrees
    <3>3. Log!Open(c)
      BY <3>1, <3>2, FirstEntry DEF Log!Open, TypeOK
    <3> QED BY <3>3
  <2>2. ASSUME NEW c \in Conns, NEW reasons \in [Conns -> Reasons \union {"absent", "open"}],
               reasons[c] # "absent", Registered(c), RemoveEntry(c, reasons)
        PROVE  Log!Close(c)
    <3> DEFINE r == IF reasons[c] = "open" THEN "client" ELSE reasons[c]
    <3>1. r \in Reasons
      BY <2>2
    <3>2. log[c] = <<"opened">>
      BY <2>2 DEF LogAgrees
    <3>3. Append(<<"opened">>, r) = <<"opened", r>>
      BY <3>1, LastEntry
    <3>4. log' = [log EXCEPT ![c] = <<"opened", r>>]
      BY <2>2, <3>2, <3>3 DEF RemoveEntry, TypeOK
    <3> QED BY <3>1, <3>2, <3>4 DEF Log!Close
  <2>3. CASE Left
    <3>1. PICK c \in Conns : Leaving(c) /\ RemoveEntry(c, registry)
      BY <2>3 DEF Left
    <3>2. registry[c] # "absent"
      BY <3>1 DEF RegistryAgrees
    <3> QED BY <2>2, <3>1, <3>2 DEF TypeOK
  <2>4. CASE CloseOne
    <3>1. PICK c \in Conns : c \in clients /\ RemoveEntry(c, Marked({c}, "shutdown"))
      BY <2>4 DEF CloseOne, TypeOK
    <3>2. registry[c] # "absent"
      BY <2>4, <3>1, RunIsOne DEF RegistryAgrees, CloseOne
    <3> QED BY <2>2, <3>1, <3>2, MarkedKeeps
  <2>5. ASSUME NEW c \in Conns, HandlerStep(c) \/ PumpStep(c) \/ ClientLeaves(c)
        PROVE  UNCHANGED log
    BY <2>5 DEF HandlerStep, PumpStep, ClientLeaves, CheckCapacity, CheckToken, CheckLimit, GiveUp, Register,
         RegisterLate, ReadFails, UnregisterSelf, UnregisterSelfLate, PumpEnds, Revalidate
  <2>6. ASSUME NEW b \in Breakers, BreakerStep(b)
        PROVE  UNCHANGED log
    BY <2>6 DEF BreakerStep, SnapshotClients, SnapshotRegistry, Take, HandOver, HandOverLate, Ended
  <2>7. ASSUME NEW b \in Breakers, NEW o, NEW via, NEW disable,
               SignOut(b, o, via, disable) \/ (o \in Conns /\ Disconnect(b, o))
        PROVE  UNCHANGED log
    BY <2>7 DEF SignOut, Disconnect
  <2>8. CASE StopRunning \/ AllClosed \/ Shutdown \/ UNCHANGED vars
    BY <2>8 DEF StopRunning, AllClosed, Shutdown, vars
  <2> QED BY <2>1, <2>3, <2>4, <2>5, <2>6, <2>7, <2>8 DEF Next, RunStep
<1> QED BY HubInvariance, <1>1, <1>2, PTL DEF Spec, LogSpec, Log!Spec
=============================================================================
