------------------------------ MODULE Forwarding ------------------------------
(***************************************************************************)
(* Sending accepted calls on, to other Squelch servers (internal/          *)
(* downstream) and to webhooks (internal/webhook), with the outcome of the *)
(* last delivery kept for the admin (internal/delivery) and the targets    *)
(* edited while it runs (internal/admin/downstreams.go, webhooks.go).      *)
(*                                                                         *)
(* The two services have one shape and do not meet: kind says which one a  *)
(* behaviour is of.  Each start of the service makes a generation of       *)
(* workers, one for every enabled target; a reload ends one generation and *)
(* starts the next.                                                        *)
(***************************************************************************)
EXTENDS Integers, FiniteSets

CONSTANTS
  Targets, Admins,
  Calls,         \* accepted, numbered in that order
  Kinds,         \* of {"downstream", "webhook"}
  Attempts,      \* pushes of one call before it is given up
  QueueCap,      \* capacity of a worker's channel
  MaxGens,       \* bound on the generations
  MaxEdits       \* bound on the versions of a target's settings

ASSUME ForwardingAssumption ==
  /\ {Calls, Attempts, QueueCap, MaxGens, MaxEdits} \subseteq Nat \ {0}
  /\ Kinds \subseteq {"downstream", "webhook"}

Gens    == 1..MaxGens
Nobody  == "nobody"
Unknown == "nothing"

ASSUME NamesAssumption == Nobody \notin Admins

VARIABLES
  kind,
  row,         \* row[t]: the target in its table: its state and the version of its settings
  saved,       \* saved[t]: the outcome in the row (last_at, last_ok)
  known,       \* known[t]: the outcome in the tracker's entry
  gen,         \* the generations started so far
  published,   \* is s.pushers the generation gen, or nil?
  cancelled,   \* cancelled[g]: its context
  worker,      \* worker[g][t]
  queue,       \* queue[g][t]: how many calls wait in the worker's channel
  note,        \* note[c]: Notify for call c
  admin,       \* admin[a]: a request of an admin
  holder,      \* of reloadMu
  tester,      \* a test message under way, one at a time
  excused      \* a query failed between an edit and its taking effect

service == <<gen, published, cancelled>>
outcomes == <<saved, known>>
editing == <<row, admin, holder, excused>>
vars == <<kind, service, worker, queue, note, outcomes, editing, tester>>

Outcomes == {"ok", "bad"}
Row      == [state : {"absent", "off", "on", "deleted"}, version : 0..MaxEdits]
Worker   == [at : {"none", "idle", "pushing", "waiting", "recording", "saving", "gone"},
             tries : 0..Attempts, version : 0..MaxEdits,
             got : Outcomes \union {Unknown}]
Note     == [at : {"new", "sending", "done"}, gen : 0..MaxGens, left : SUBSET Targets]

Untested == [got |-> Unknown]
Resting(at, v) == [at |-> at, tries |-> 0, version |-> v, got |-> Unknown]
NoWorker == Resting("none", 0)
Ended    == Resting("gone", 0)
Fresh(v) == Resting("idle", v)

Running(g, t) == worker[g][t].at \notin {"none", "gone"}
Notified == [at |-> "done", gen |-> 0, left |-> {}]
AllGone == \A g \in Gens, t \in Targets : ~Running(g, t)

Stored(t) == row[t].state \in {"off", "on"}

\* What ListActiveDownstreams and ListActiveWebhooks answer.
Active == {t \in Targets : row[t].state = "on"}

Spawned == [t \in Targets |-> IF t \in Active THEN Fresh(row[t].version) ELSE NoWorker]

\* Seed: the row's outcome, where nothing is known yet.
Seeded(memory) ==
  [t \in Targets |-> IF t \in Active /\ memory[t] = Unknown THEN saved[t] ELSE memory[t]]

Init ==
  /\ kind \in Kinds
  /\ row \in [Targets -> {[state |-> s, version |-> 0] : s \in {"absent", "on"}}]
  /\ saved = [t \in Targets |-> Unknown]
  /\ known = [t \in Targets |-> Unknown]
  /\ gen = 1 /\ published = TRUE
  /\ cancelled = [g \in Gens |-> FALSE]
  /\ worker = [g \in Gens |-> IF g = 1 THEN Spawned ELSE [t \in Targets |-> NoWorker]]
  /\ queue = [g \in Gens |-> [t \in Targets |-> 0]]
  /\ note = [c \in 1..Calls |-> [at |-> "new", gen |-> 0, left |-> {}]]
  /\ admin = [a \in Admins |-> "idle"]
  /\ holder = Nobody
  /\ tester = Untested
  /\ excused = FALSE

-----------------------------------------------------------------------------
(* A call is accepted.                                                     *)

\* Notify reads the list of channels under the lock ...
Notify(c) ==
  /\ note[c].at = "new" /\ (c > 1 => note[c - 1].at # "new")
  /\ note' = [note EXCEPT ![c] =
       IF published /\ worker[gen] # [t \in Targets |-> NoWorker]
         THEN [at |-> "sending", gen |-> gen, left |-> {t \in Targets : worker[gen][t].at # "none"}]
         ELSE Notified]
  /\ UNCHANGED <<kind, service, worker, queue, outcomes, editing, tester>>

\* ... and sends without it, to channels nobody may read any more.  A full
\* one drops the call.
Enqueue(c, t) ==
  /\ note[c].at = "sending" /\ t \in note[c].left
  /\ note' = IF note[c].left = {t} THEN [note EXCEPT ![c] = Notified]
                                   ELSE [note EXCEPT ![c].left = @ \ {t}]
  /\ LET g == note[c].gen IN
       queue' = IF queue[g][t] < QueueCap /\ Running(g, t)
                  THEN [queue EXCEPT ![g][t] = @ + 1] ELSE queue
  /\ UNCHANGED <<kind, service, worker, outcomes, editing, tester>>

-----------------------------------------------------------------------------
(* A worker.                                                               *)

Become(g, t, w) == worker' = [worker EXCEPT ![g][t] = w]

\* It takes a call, even with its context cancelled, which select does not
\* prefer.  The target's grants may not cover the call.
Take(g, t) ==
  /\ worker[g][t].at = "idle" /\ queue[g][t] > 0
  /\ queue' = [queue EXCEPT ![g][t] = @ - 1]
  /\ \/ Become(g, t, worker[g][t])
     \/ Become(g, t, [worker[g][t] EXCEPT !.at = "pushing"])
  /\ UNCHANGED <<kind, service, note, outcomes, editing, tester>>

\* It sees its context cancelled and returns.  Nobody reads what is left in
\* its channel.
Exit(g, t) ==
  /\ worker[g][t].at = "idle" /\ cancelled[g]
  /\ Become(g, t, Ended)
  /\ queue' = [queue EXCEPT ![g][t] = 0]
  /\ UNCHANGED <<kind, service, note, outcomes, editing, tester>>

Answered(g, t, outcome) ==
  Become(g, t, [worker[g][t] EXCEPT !.at = "recording", !.got = outcome])
WaitAgain(g, t) ==
  Become(g, t, [worker[g][t] EXCEPT !.at = "waiting", !.tries = @ + 1])
IsLastTry(g, t) == worker[g][t].tries + 1 = Attempts

\* doPush: the file, the form and the key are put together and posted.  Any
\* of it may fail, and does once the context is cancelled under it.
PushDownstream(g, t) ==
  /\ kind = "downstream" /\ worker[g][t].at = "pushing"
  /\ \/ Answered(g, t, "ok")
     \/ IsLastTry(g, t) /\ Answered(g, t, "bad")
     \/ ~IsLastTry(g, t) /\ WaitAgain(g, t)
  /\ UNCHANGED <<kind, service, queue, note, outcomes, editing, tester>>

\* post: one that fails because its worker is being stopped is a failed
\* delivery like the others.
PostWebhook(g, t) ==
  /\ kind = "webhook" /\ worker[g][t].at = "pushing"
  /\ \/ Answered(g, t, "ok")
     \/ (IsLastTry(g, t) \/ cancelled[g]) /\ Answered(g, t, "bad")
     \/ ~IsLastTry(g, t) /\ WaitAgain(g, t)
  /\ UNCHANGED <<kind, service, queue, note, outcomes, editing, tester>>

\* The next try, or the context ends and the call is let go with no outcome.
BackOff(g, t) ==
  /\ worker[g][t].at = "waiting"
  /\ \/ Become(g, t, [worker[g][t] EXCEPT !.at = "pushing"])
     \/ cancelled[g] /\ Become(g, t, Fresh(worker[g][t].version))
  /\ UNCHANGED <<kind, service, queue, note, outcomes, editing, tester>>

\* Tracker.Record: the entry at once; the row, when the outcome is bad or
\* another, or was not written for a minute.
MustSave(t, outcome) == outcome = "bad" \/ known[t] # outcome

Record(g, t) ==
  /\ worker[g][t].at = "recording"
  /\ LET got == worker[g][t].got IN
       /\ known' = [known EXCEPT ![t] = got]
       /\ \/ Become(g, t, [worker[g][t] EXCEPT !.at = "saving"])
          \/ ~MustSave(t, got) /\ Become(g, t, Fresh(worker[g][t].version))
  /\ UNCHANGED <<kind, service, queue, note, saved, editing, tester>>

\* RecordDownstreamDelivery, RecordWebhookDelivery: outside the tracker's
\* lock.  Without a row it changes nothing.  (It is taken to succeed.)
Saves(t, outcome) == saved' = [saved EXCEPT ![t] = IF Stored(t) THEN outcome ELSE @]

Save(g, t) ==
  /\ worker[g][t].at = "saving"
  /\ Saves(t, worker[g][t].got)
  /\ Become(g, t, Fresh(worker[g][t].version))
  /\ UNCHANGED <<kind, service, queue, note, known, editing, tester>>

Work(g, t) ==
  \/ Take(g, t) \/ PushDownstream(g, t) \/ PostWebhook(g, t)
  \/ BackOff(g, t) \/ Record(g, t) \/ Save(g, t)

-----------------------------------------------------------------------------
(* An admin sends a test.  A webhook's is recorded like any delivery; a    *)
(* downstream's is only answered.                                          *)

Test(a, t) ==
  /\ kind = "webhook" /\ admin[a] = "idle" /\ tester = Untested /\ Stored(t)
  /\ \E got \in Outcomes :
       /\ tester' = [target |-> t, got |-> got]
       /\ known' = [known EXCEPT ![t] = got]
  /\ admin' = [admin EXCEPT ![a] = "testing"]
  /\ UNCHANGED <<kind, service, worker, queue, note, saved, row, holder, excused>>

TestSaved(a) ==
  /\ admin[a] = "testing"
  /\ Saves(tester.target, tester.got)
  /\ tester' = Untested
  /\ admin' = [admin EXCEPT ![a] = "idle"]
  /\ UNCHANGED <<kind, service, worker, queue, note, known, row, holder, excused>>

-----------------------------------------------------------------------------
(* An admin edits a target, and the service is reloaded.                   *)

Write(t, state) == row' = [row EXCEPT ![t] = [state |-> state, version |-> @.version + 1]]

Edit(a, t, state) ==
  /\ admin[a] = "idle" /\ row[t].version < MaxEdits
  /\ Write(t, state)
  /\ admin' = [admin EXCEPT ![a] = "written"]
  /\ UNCHANGED <<kind, service, worker, queue, note, outcomes, holder, excused, tester>>

\* DownstreamsCreate, WebhooksCreate; ids are never used again.
Create(a, t, state) == row[t].state = "absent" /\ Edit(a, t, state)

\* DownstreamsUpdate, WebhooksUpdate.
Update(a, t, state) == Stored(t) /\ Edit(a, t, state)

\* The row is read back for the answer.  When that fails the request ends
\* there, without a reload.
ReadBack(a) ==
  /\ admin[a] = "written"
  /\ \/ admin' = [admin EXCEPT ![a] = "reload"] /\ UNCHANGED excused
     \/ admin' = [admin EXCEPT ![a] = "idle"] /\ excused' = TRUE
  /\ UNCHANGED <<kind, service, worker, queue, note, outcomes, row, holder, tester>>

\* The row goes and, at once, the tracker's entry; a worker that is still
\* running may bring the entry back.
Delete(a, t) ==
  /\ admin[a] = "idle" /\ Stored(t) /\ row[t].version < MaxEdits
  /\ Write(t, "deleted")
  /\ saved' = [saved EXCEPT ![t] = Unknown]
  /\ known' = [known EXCEPT ![t] = Unknown]
  /\ admin' = [admin EXCEPT ![a] = "reload"]
  /\ UNCHANGED <<kind, service, worker, queue, note, holder, excused, tester>>

\* (Mutant: nothing keeps two reloads apart.)
StopUnlocked(a) ==
  /\ admin[a] = "reload"
  /\ admin' = [admin EXCEPT ![a] = "stopping"]
  /\ published' = FALSE
  /\ cancelled' = [cancelled EXCEPT ![gen] = TRUE]
  /\ UNCHANGED <<kind, gen, worker, queue, note, outcomes, row, holder, excused, tester>>

\* Reload, under reloadMu: Stop cancels the generation ...
Stop(a) ==
  /\ admin[a] = "reload" /\ holder = Nobody
  /\ admin' = [admin EXCEPT ![a] = "stopping"]
  /\ holder' = a
  /\ published' = FALSE
  /\ cancelled' = [cancelled EXCEPT ![gen] = TRUE]
  /\ UNCHANGED <<kind, gen, worker, queue, note, outcomes, row, excused, tester>>

\* Start: the targets are read, which may fail and leaves no workers.
Started ==
  \/ /\ gen < MaxGens
     /\ gen' = gen + 1 /\ published' = TRUE
     /\ worker' = [worker EXCEPT ![gen + 1] = Spawned]
     /\ known' = Seeded(known)
     /\ excused' = FALSE
     /\ UNCHANGED cancelled
  \/ excused' = TRUE /\ UNCHANGED <<gen, published, cancelled, worker, known>>

\* (Mutant: the old generation is not waited for.)
StartAtOnce(a) ==
  /\ admin[a] = "stopping"
  /\ Started
  /\ admin' = [admin EXCEPT ![a] = "idle"]
  /\ holder' = Nobody
  /\ UNCHANGED <<kind, queue, note, saved, row, tester>>

\* ... and waits for all its workers, and the next is started.
Start(a) ==
  /\ admin[a] = "stopping" /\ AllGone
  /\ Started
  /\ admin' = [admin EXCEPT ![a] = "idle"]
  /\ holder' = Nobody
  /\ UNCHANGED <<kind, queue, note, saved, row, tester>>

\* The process dies and starts again: what was in memory is gone.
Restart ==
  /\ gen < MaxGens
  /\ gen' = gen + 1 /\ published' = TRUE
  /\ cancelled' = [g \in Gens |-> g <= gen]
  /\ worker' = [g \in Gens |-> CASE g <= gen -> [t \in Targets |-> Ended]
                                 [] g = gen + 1 -> Spawned
                                 [] OTHER -> worker[g]]
  /\ queue' = [g \in Gens |-> [t \in Targets |-> 0]]
  /\ note' = [c \in 1..Calls |-> IF note[c].at = "new" THEN note[c] ELSE Notified]
  /\ known' = Seeded([t \in Targets |-> Unknown])
  /\ admin' = [a \in Admins |-> "idle"] /\ holder' = Nobody
  /\ tester' = Untested
  /\ excused' = FALSE
  /\ UNCHANGED <<kind, saved, row>>

-----------------------------------------------------------------------------
Next ==
  \/ \E c \in 1..Calls : Notify(c) \/ \E t \in Targets : Enqueue(c, t)
  \/ \E g \in Gens, t \in Targets : Work(g, t) \/ Exit(g, t)
  \/ \E a \in Admins, t \in Targets :
       Test(a, t) \/ Delete(a, t) \/ \E state \in {"off", "on"} : Create(a, t, state) \/ Update(a, t, state)
  \/ \E a \in Admins : TestSaved(a) \/ ReadBack(a) \/ Stop(a) \/ Start(a)
  \/ Restart

Spec == Init /\ [][Next]_vars

\* Goroutines run and requests have timeouts.
FairSpec ==
  /\ Spec
  /\ \A g \in Gens, t \in Targets : WF_vars(Work(g, t) \/ Exit(g, t))
  /\ \A a \in Admins : WF_vars(ReadBack(a) \/ Stop(a) \/ Start(a))

-----------------------------------------------------------------------------
TypeOK ==
  /\ kind \in Kinds
  /\ row \in [Targets -> Row]
  /\ saved \in [Targets -> Outcomes \union {Unknown}]
  /\ known \in [Targets -> Outcomes \union {Unknown}]
  /\ gen \in Gens /\ published \in BOOLEAN
  /\ cancelled \in [Gens -> BOOLEAN]
  /\ worker \in [Gens -> [Targets -> Worker]]
  /\ queue \in [Gens -> [Targets -> 0..QueueCap]]
  /\ note \in [1..Calls -> Note]
  /\ admin \in [Admins -> {"idle", "testing", "written", "reload", "stopping"}]
  /\ holder \in Admins \union {Nobody}
  /\ tester \in [target : Targets, got : Outcomes] \union {Untested}
  /\ excused \in BOOLEAN

\* At most one generation works, and the one that stops it holds the lock.
OneGeneration ==
  /\ \A g \in Gens, t \in Targets : Running(g, t) => g = gen
  /\ \A g \in Gens : g > gen => ~cancelled[g] /\ \A t \in Targets : worker[g][t] = NoWorker /\ queue[g][t] = 0
  /\ published => ~cancelled[gen]
  /\ \A a \in Admins : admin[a] = "stopping" <=> holder = a

ForwardingInv == TypeOK /\ OneGeneration

\* No two workers ever serve one target, of one generation or of two, and
\* whenever no admin is in the middle of a change and no query failed on the
\* way, what runs is what the table says: a worker with the present settings
\* for each enabled target, and none besides.  Two admins' changes, with
\* their reloads, may have overlapped in any way.
ConfigTakesEffect ==
  /\ ForwardingInv
  /\ (\A a \in Admins : admin[a] \in {"idle", "testing"}) /\ ~excused =>
       \A t \in Targets :
         /\ t \in Active => Running(gen, t) /\ worker[gen][t].version = row[t].version
         /\ \A g \in Gens : Running(g, t) => g = gen /\ t \in Active /\ published /\ ~cancelled[g]

Saving(t) == \E g \in Gens : worker[g][t].at = "saving"

\* The outcome in a downstream's row, which is what a restart begins from,
\* is the one the admin was last shown, over reloads and restarts: workers
\* write one after the other, the row and the tracker in the same order.
\* (Not so for a webhook, whose tests are recorded beside the deliveries.)
RowAgrees ==
  kind = "downstream" =>
    \A t \in Targets :
      known[t] # Unknown /\ Stored(t) /\ ~Saving(t) => saved[t] = known[t]

\* A change of the settings always ends: no worker holds up the reload for
\* ever, in a push, a wait between tries, or with calls still in its channel.
ReloadsReturn == \A a \in Admins : admin[a] = "reload" ~> admin[a] = "idle"

\* The calls in the channel of a worker leave it.
QueuedAreTaken ==
  \A g \in Gens, t \in Targets : queue[g][t] > 0 ~> queue[g][t] = 0

\* Neither a reload nor a queue of calls stands still.
ForwardingGoesOn == ReloadsReturn /\ QueuedAreTaken
=============================================================================
