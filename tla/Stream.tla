------------------------------- MODULE Stream -------------------------------
(***************************************************************************)
(* The continuous audio stream (internal/stream, handler/stream): how a    *)
(* call becomes frames in the backlog of every listener that should hear   *)
(* it, how one listener is served frame by frame, and how a stream ends.   *)
(*                                                                         *)
(* Goroutines: one Notify for each call, started by the hub, so that calls *)
(* overtake each other; one Serve for each listener; and requests that     *)
(* sign accounts out.  m.mu guards the listeners, l.mu a listener's        *)
(* backlog and position; the registry has its own lock, so joining and     *)
(* leaving are two steps.  A frame is the call it is cut from and its      *)
(* number in it; its bytes are not kept.  Write can wait for as long as    *)
(* the client does not read: GetStream clears the write deadline.          *)
(***************************************************************************)
EXTENDS Integers, Sequences, FiniteSets, SequencesExt

CONSTANTS
  Listeners,    \* stream requests, one for each sid
  Users, UserOf,
  Calls,
  FramesOf,     \* frames of a call, once encoded
  MaxFrames,    \* frames of backlog in maxQueueSeconds
  Prime,        \* frames written before pacing begins
  MaxWritten,   \* bound: frames written to a listener
  MaxRetunes    \* bound: changes of accounts and of their selections

ASSUME StreamAssumption ==
  /\ UserOf \in [Listeners -> Users]
  /\ {FramesOf, MaxFrames} \subseteq Nat \ {0}
  /\ {Prime, MaxWritten, MaxRetunes} \subseteq Nat

\* Filler is no call's.
ASSUME SilenceAssumption == "none" \notin Calls

VARIABLES
  ready,     \* Start found an encoder
  account,   \* account[u]: what the filter reads in u's row
  retunes,   \* changes to it so far
  phase,     \* phase[l]: how far GetStream and Serve have come
  managed,   \* m.listeners
  registry,  \* listeners that have an entry in the connection registry
  cancelled, \* listeners whose context has ended
  stalled,   \* listeners whose client has stopped reading
  queue,     \* queue[l]: the backlog
  written,   \* written[l]: every frame handed to Write, in order
  cues,      \* cues[l]: calls announced, with the position they begin at
  notify,    \* notify[c]: the Notify of c
  unheard    \* unheard[c]: users that did not want c when it came, nor since

streams == <<phase, managed, registry, cancelled, stalled>>
audio   == <<queue, written, cues>>
rows    == <<account, retunes>>
vars    == <<ready, rows, streams, audio, notify, unheard>>

Silence == [call |-> "none", n |-> 0]
Frame   == [call : Calls, n : 1..FramesOf]

Phases == {"new", "allowed", "joining", "priming", "pacing", "leaving", "gone"}
Steps  == {"new", "resolving", "filtering", "encoding", "queueing", "done"}

\* accountActive, HasSystemAccess and the stored selection, taken together:
\* a listener hears calls, has tuned them out, or is disabled or expired.
Wants(u) == account[u] = "tuned"

Init ==
  /\ ready \in BOOLEAN
  /\ account = [u \in Users |-> "tuned"]
  /\ retunes = 0
  /\ phase = [l \in Listeners |-> "new"]
  /\ managed = {} /\ registry = {} /\ cancelled = {} /\ stalled = {}
  /\ queue = [l \in Listeners |-> <<>>]
  /\ written = [l \in Listeners |-> <<>>]
  /\ cues = [l \in Listeners |-> {}]
  /\ notify = [c \in Calls |-> [pc |-> "new", ask |-> {}, wanted |-> {}]]
  /\ unheard = [c \in Calls |-> {}]

-----------------------------------------------------------------------------
(* A request for a stream: GetStream, then Serve.                          *)

GoOn(l, p) == phase' = [phase EXCEPT ![l] = p]

\* The account as it is now, and an encoder; or 401, or 503.
Open(l) ==
  /\ phase[l] = "new"
  /\ GoOn(l, IF account[UserOf[l]] # "disabled" /\ ready THEN "allowed" ELSE "gone")
  /\ UNCHANGED <<ready, rows, managed, registry, cancelled, stalled, audio, notify, unheard>>

Join(l) ==
  /\ phase[l] = "allowed"
  /\ GoOn(l, "joining")
  /\ managed' = managed \union {l}
  /\ UNCHANGED <<ready, rows, registry, cancelled, stalled, audio, notify, unheard>>

Enter(l) ==
  /\ phase[l] = "joining"
  /\ GoOn(l, IF Prime = 0 THEN "pacing" ELSE "priming")
  /\ registry' = registry \union {l}
  /\ UNCHANGED <<ready, rows, managed, cancelled, stalled, audio, notify, unheard>>

\* next: the oldest frame of the backlog, or filler.
NextFrame(l) == IF queue[l] = <<>> THEN Silence ELSE Head(queue[l])

WriteFrame(l) ==
  /\ l \notin stalled
  /\ Len(written[l]) < MaxWritten
  /\ written' = [written EXCEPT ![l] = Append(@, NextFrame(l))]
  /\ queue' = [queue EXCEPT ![l] = IF @ = <<>> THEN @ ELSE Tail(@)]

\* The burst of two seconds; what it takes from the backlog has no cue.
WritePrime(l) ==
  /\ phase[l] = "priming"
  /\ WriteFrame(l)
  /\ GoOn(l, IF Len(written'[l]) = Prime THEN "pacing" ELSE "priming")
  /\ UNCHANGED <<ready, rows, managed, registry, cancelled, stalled, cues, notify, unheard>>

\* (Mutant: the cue gives the position after the frame.)
TickLate(l) ==
  /\ phase[l] = "pacing"
  /\ WriteFrame(l)
  /\ cues' = IF NextFrame(l).n = 1
               THEN [cues EXCEPT ![l] = @ \union {<<NextFrame(l).call, Len(written'[l])>>}]
               ELSE cues
  /\ UNCHANGED <<ready, rows, streams, notify, unheard>>

\* A tick: the first frame of a call has its cue sent, with its position.
\* select is free to take a tick after the context has ended.
Tick(l) ==
  /\ phase[l] = "pacing"
  /\ WriteFrame(l)
  /\ cues' = IF NextFrame(l).n = 1
               THEN [cues EXCEPT ![l] = @ \union {<<NextFrame(l).call, Len(written[l])>>}]
               ELSE cues
  /\ UNCHANGED <<ready, rows, streams, notify, unheard>>

\* (Mutant: the context is looked at once, before the loop.)
DoneBeforePacing(l) ==
  /\ phase[l] = "priming" /\ l \in cancelled /\ l \notin stalled
  /\ GoOn(l, "leaving")
  /\ managed' = managed \ {l}
  /\ UNCHANGED <<ready, rows, registry, cancelled, stalled, audio, notify, unheard>>

\* The context is looked at between frames only, and not while priming.
Done(l) ==
  /\ phase[l] = "pacing" /\ l \in cancelled /\ l \notin stalled
  /\ GoOn(l, "leaving")
  /\ managed' = managed \ {l}
  /\ UNCHANGED <<ready, rows, registry, cancelled, stalled, audio, notify, unheard>>

\* The client closes the connection: the write fails, whoever waits in it.
HangUp(l) ==
  /\ phase[l] \in {"priming", "pacing"}
  /\ GoOn(l, "leaving")
  /\ cancelled' = cancelled \union {l}
  /\ stalled' = stalled \ {l}
  /\ managed' = managed \ {l}
  /\ UNCHANGED <<ready, rows, registry, audio, notify, unheard>>

Leave(l) ==
  /\ phase[l] = "leaving"
  /\ GoOn(l, "gone")
  /\ registry' = registry \ {l}
  /\ UNCHANGED <<ready, rows, managed, cancelled, stalled, audio, notify, unheard>>

\* The client stops reading for a while, or for good.
Stall(l) ==
  /\ phase[l] \in {"priming", "pacing"} /\ l \notin stalled
  /\ stalled' = stalled \union {l}
  /\ UNCHANGED <<ready, rows, phase, managed, registry, cancelled, audio, notify, unheard>>

Resume(l) ==
  /\ l \in stalled
  /\ stalled' = stalled \ {l}
  /\ UNCHANGED <<ready, rows, phase, managed, registry, cancelled, audio, notify, unheard>>

-----------------------------------------------------------------------------
(* A new call: Notify.                                                     *)

NotifyAt(c, n) == notify' = [notify EXCEPT ![c] = n]

\* The hub starts it; it ends at once when nobody listens.
NotifyStart(c) ==
  /\ ready /\ notify[c].pc = "new"
  /\ NotifyAt(c, [pc |-> IF managed = {} THEN "done" ELSE "resolving",
                  ask |-> managed, wanted |-> {}])
  /\ unheard' = [unheard EXCEPT ![c] = {u \in Users : ~Wants(u)}]
  /\ UNCHANGED <<ready, rows, streams, audio>>

\* GetCall; the call can be gone, or its path be refused.
Resolve(c) ==
  /\ notify[c].pc = "resolving"
  /\ \E pc \in {"filtering", "done"} : NotifyAt(c, [notify[c] EXCEPT !.pc = pc])
  /\ UNCHANGED <<ready, rows, streams, audio, unheard>>

\* (Mutant: what a listener wanted when it connected still counts.)
FilterOnce(c) == \E l \in notify[c].ask :
  /\ notify[c].pc = "filtering"
  /\ NotifyAt(c, [notify[c] EXCEPT !.ask = @ \ {l}, !.wanted = @ \union {l}])
  /\ UNCHANGED <<ready, rows, streams, audio, unheard>>

\* The filter reads the row of each listener's user anew.
Filter(c) == \E l \in notify[c].ask :
  /\ notify[c].pc = "filtering"
  /\ NotifyAt(c, [notify[c] EXCEPT !.ask = @ \ {l},
                                   !.wanted = IF Wants(UserOf[l]) THEN @ \union {l} ELSE @])
  /\ UNCHANGED <<ready, rows, streams, audio, unheard>>

\* One run of FFmpeg for all who want the call, if any do; it can fail.
Encode(c) ==
  /\ \/ notify[c].pc = "filtering" /\ notify[c].ask = {}
     \/ notify[c].pc = "encoding"
  /\ \E pc \in CASE notify[c].pc = "encoding" -> {"queueing", "done"}
                 [] notify[c].wanted = {}     -> {"done"}
                 [] OTHER                     -> {"encoding"} :
       NotifyAt(c, [notify[c] EXCEPT !.pc = pc])
  /\ UNCHANGED <<ready, rows, streams, audio, unheard>>

\* enqueue: over the cap, the oldest frames are dropped.
Trim(s) == SubSeq(s, IF Len(s) > MaxFrames THEN Len(s) - MaxFrames + 1 ELSE 1, Len(s))

CallFrames(c) == [n \in 1..FramesOf |-> [call |-> c, n |-> n]]

\* (Mutant: l.mu is taken for each frame, not for the call.)
EnqueueByFrame(c) == \E l \in notify[c].wanted :
  LET n == Cardinality({f \in Range(queue[l]) \union Range(written[l]) : f.call = c}) + 1 IN
  /\ notify[c].pc = "queueing"
  /\ queue' = [queue EXCEPT ![l] = Trim(Append(@, [call |-> c, n |-> n]))]
  /\ NotifyAt(c, IF n < FramesOf THEN notify[c]
                   ELSE [notify[c] EXCEPT !.wanted = @ \ {l}])
  /\ UNCHANGED <<ready, rows, streams, written, cues, unheard>>

\* Whether or not the listener still has a stream.
Enqueue(c) == \E l \in notify[c].wanted :
  /\ notify[c].pc = "queueing"
  /\ queue' = [queue EXCEPT ![l] = Trim(@ \o CallFrames(c))]
  /\ NotifyAt(c, [notify[c] EXCEPT !.wanted = @ \ {l}])
  /\ UNCHANGED <<ready, rows, streams, written, cues, unheard>>

NotifyEnd(c) ==
  /\ notify[c].pc = "queueing" /\ notify[c].wanted = {}
  /\ NotifyAt(c, [notify[c] EXCEPT !.pc = "done"])
  /\ UNCHANGED <<ready, rows, streams, audio, unheard>>

-----------------------------------------------------------------------------
(* Accounts.                                                               *)

\* A new selection, a grant taken back, or the account disabled; or the
\* contrary.  What was not wanted when it came may be by the time it is asked.
Retune(u, to) ==
  /\ retunes < MaxRetunes /\ account[u] # to
  /\ account' = [account EXCEPT ![u] = to]
  /\ retunes' = retunes + 1
  /\ unheard' = IF to = "tuned" THEN [c \in Calls |-> unheard[c] \ {u}] ELSE unheard
  /\ UNCHANGED <<ready, streams, audio, notify>>

\* DisconnectUser, DisconnectJTI, and an admin's End through the registry:
\* only listeners that are there by then.
Disconnect(S) ==
  /\ S # {} /\ S \subseteq managed /\ ~ S \subseteq cancelled
  /\ cancelled' = cancelled \union S
  /\ UNCHANGED <<ready, rows, phase, managed, registry, stalled, audio, notify, unheard>>

DisconnectUser(u) == Disconnect({l \in managed : UserOf[l] = u})
DisconnectJTI(l)  == Disconnect({l})

-----------------------------------------------------------------------------

Serve(l) == \/ Join(l) \/ Enter(l) \/ WritePrime(l) \/ Tick(l) \/ Done(l) \/ Leave(l)

Notify(c) == \/ Resolve(c) \/ Filter(c) \/ Encode(c) \/ Enqueue(c) \/ NotifyEnd(c)

Next ==
  \/ \E l \in Listeners : \/ Open(l) \/ Serve(l) \/ HangUp(l) \/ Stall(l) \/ Resume(l)
                          \/ DisconnectJTI(l)
  \/ \E c \in Calls : NotifyStart(c) \/ Notify(c)
  \/ \E u \in Users : \/ DisconnectUser(u)
                      \/ \E to \in {"tuned", "tunedOut", "disabled"} : Retune(u, to)

Spec == Init /\ [][Next]_vars

(***************************************************************************)
(* A goroutine that can go on does so, and select, with a tick and an      *)
(* ended context both ready again and again, takes the latter at last.     *)
(* Nothing is fair about clients: one may stall for good.                  *)
(***************************************************************************)
FairSpec ==
  /\ Spec
  /\ \A l \in Listeners :
       /\ WF_vars(Join(l) \/ Enter(l) \/ WritePrime(l) \/ Leave(l))
       /\ SF_vars(Done(l))
  /\ \A c \in Calls : WF_vars(Notify(c))

-----------------------------------------------------------------------------

TypeOK ==
  /\ ready \in BOOLEAN
  /\ account \in [Users -> {"tuned", "tunedOut", "disabled"}]
  /\ retunes \in 0..MaxRetunes
  /\ phase \in [Listeners -> Phases]
  /\ managed \subseteq Listeners /\ registry \subseteq Listeners
  /\ cancelled \subseteq Listeners /\ stalled \subseteq Listeners
  /\ queue \in [Listeners -> Seq(Frame)]
  /\ written \in [Listeners -> Seq(Frame \union {Silence})]
  /\ cues \in [Listeners -> SUBSET (Calls \X (0..MaxWritten))]
  /\ \A l \in Listeners : Len(queue[l]) <= MaxFrames /\ Len(written[l]) <= MaxWritten
  /\ notify \in [Calls -> [pc : Steps, ask : SUBSET Listeners, wanted : SUBSET Listeners]]
  /\ unheard \in [Calls -> SUBSET Users]

\* The calls that begin in s after the prime, with the position they begin at.
CuesOf(s) == {<<s[i].call, i - 1>> : i \in {j \in Prime + 1 .. Len(s) : s[j].n = 1}}

\* A stream in the pacing loop is in the manager and in the registry, one
\* that is over in neither, and what a listener was ever told is the position
\* its call begins at in its own stream: each call whose first frame was
\* paced, and no other (Serve, add and remove).
StreamInv ==
  /\ TypeOK
  /\ \A l \in Listeners :
       /\ l \in managed <=> phase[l] \in {"joining", "priming", "pacing"}
       /\ l \in registry <=> phase[l] \in {"priming", "pacing", "leaving"}
       /\ cues[l] = CuesOf(written[l])

\* The calls in w are each in order and in one place, and after the first n
\* frames also without holes.
OneStretch(w, n) ==
  \A i, j \in 1..Len(w) :
    i < j /\ w[i].call = w[j].call /\ w[i] # Silence =>
      /\ w[i].n < w[j].n
      /\ \A k \in i..j : w[k].call = w[i].call
      /\ i > n => w[j].n = w[i].n + (j - i)

\* However calls overtake each other, what a listener is sent of a call comes
\* in order and without another call or silence in it.  Frames are missing
\* only where they were dropped as the oldest of the backlog, be it in the
\* middle of a call that is playing: what waits has no holes (enqueue).
CallsArePlayedInOneStretch ==
  \A l \in Listeners : OneStretch(written[l] \o queue[l], Len(written[l]))

\* A listener never hears a call that its user did not want when the call
\* came and has not wanted since, however long the stream has been open: the
\* filter does not go by what held when the listener connected (userFilter).
UnwantedIsUnheard ==
  \A c \in Calls, l \in Listeners :
    UserOf[l] \in unheard[c] => c \notin {written[l][i].call : i \in 1..Len(written[l])}

\* A stream that has been ended from outside leaves the manager and the
\* registry, unless its client stops reading (DisconnectUser, DisconnectJTI;
\* Serve sees the context only between writes).
CancelledLeave ==
  \A l \in Listeners :
    l \in cancelled ~> phase[l] = "gone" \/ l \in stalled

=============================================================================
