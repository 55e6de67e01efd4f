# A verification of Squelch

TLA+ specifications of [Squelch](../src/README.md), a server that archives and
streams scanner radio calls, with the TLC models that check them on small
instances and the TLAPS proofs of what holds on every instance. Paths below are
relative to `src/backend/` unless they begin with `src/`.

    cd tla
    tlc -config MCHub.cfg MCHub.tla            # any row of the table of runs
    tlapm Hub_proof.tla                        # any *_proof.tla

## The system

One Go process with an SQLite database, a directory of audio files, a
single-page application in the browser, and optional neighbours: the go-whisper
sidecar, remote Squelch servers, webhook targets and MQTT brokers.

| Component | State | Operations | Meets | What is hard, and what makes it correct | Here |
| --- | --- | --- | --- | --- | --- |
| Sign-in rate limiter (`internal/auth/ratelimit.go`) | one entry per address: failures, checks in flight, lockout | `TryBegin`, `RecordFailure`, `Reset`, `End`, `Clear`, `SetLimits`, cleanup | `PostLogin`, the admin's lockout list and settings | bcrypt runs outside the lock, so concurrent attempts race for the last try; no more failures than the threshold, lockouts last | `LoginLimiter` |
| Device sessions (`internal/auth`, `internal/handler/auth`, `internal/admin/users.go`, `connections.go`) | `refresh_tokens`, the token tracker in memory, the replay cache | login, refresh rotation, logout, password change, disable, delete, sign out one or all | middleware, hub, streams | handlers are sequences of queries and locks without a transaction; memory is lost on restart; a revoked token stays revoked | `Sessions` |
| WebSocket hub and connection registry (`internal/ws`, `internal/connections/registry.go`) | `h.clients`, the registry, per connection a handler and a write pump | register, unregister, disconnect by account, device, id; shutdown | sessions, history, admin | unbuffered channels, two locks, and a goroutine each for `Run`, handlers, pumps and requests; nobody is left with a dead socket, nobody hangs | `Hub`, `ConnectionLog` |
| Connection history (`internal/connections/history.go`) | a bounded queue, row ids in memory, `connection_log`, a cached setting | `Opened`, `Closed`, `Run`, `Prune`, `CloseStale` | registry, `main` | the queue overflows, queries fail, the process dies with rows open | `ConnectionHistory` |
| Transcription (`internal/audio/transcriber*.go`, `cmd/server/main.go`, `internal/admin/transcription.go`) | a pool of workers with two channels, the shared channel, `transcription_jobs` | `Submit`, `Retry`, `Reload`, the pump, the consumer | uploads, directory monitors, settings | the pool is replaced while jobs are everywhere; full channels; restarts | `Transcription` |
| Forwarding (`internal/downstream`, `internal/webhook`, `internal/delivery`, `internal/admin/downstreams.go`, `webhooks.go`) | a queue and a worker per target, the rows, the last outcome in memory and in the row | `Notify`, `Reload`, `Stop`, retries, tests, create, update, delete | uploads, admin | two reloads at once, overflow, a delivery that outlives its target; what runs is what the table says | `Forwarding` |
| Audio streams (`internal/stream`, `internal/handler/stream`) | a backlog of frames and a position per listener, the registry | `GetStream`, `Serve`, `Notify`, `Disconnect*` | hub, sessions, registry | unordered notifications, trimming against cues, clients that stall, accounts that change while a stream is open | `Stream` |
| Call ingest (`internal/handler/calls`, `internal/audio`) | `calls`, the recordings, the conversion queue | both uploads, duplicate check, convert, prune | recorders, hub, forwarding, transcription | check and insert apart, file and row apart, names that become free again | `Ingest` |
| Search, archive and sharing; bookmarks (`handler/calls/search.go`, `handler/share`, `handler/bookmarks`, `internal/admin/shared_links.go`) | `shared_links`, `bookmarks` | search by pages, share, unshare, revoke, put back, clear, toggle | ingest, pruner | links read before they are deleted; calls that come and go between pages; a bookmark that comes as the pruner deletes | `Archive` |
| Directory monitors (`internal/dirmonitor`, `internal/admin/dirmonitors.go`) | a watcher or poller, timers per file, the files seen, the status shown | watch, poll, `handleFile`, reload, create, update, delete | ingest | timers that fire as they are replaced, audio and sidecar in any order, sources removed after the row | `DirMonitor` |
| Trunk-recorder MQTT (`internal/trmqtt`, `internal/handler/admin/trmqtt`, `internal/admin/backup_tr.go`) | a client per instance, a channel of events | add, update, remove, reconnect, restore | admin | concurrent changes of one instance; a broker that does not acknowledge; a full channel | `TrMqtt` |
| Admin operations on the catalog (`internal/admin/systems.go`, `talkgroups.go`, `groups.go`, `tags.go`, `units.go`, `imports.go`, `backup.go`, `operations.go`) and live configuration (`ws/hub.go`) | systems, talkgroups, units, groups, tags and what refers to them; what each listener was last sent | create, change, delete, bulk, import, restore and undo; `BroadcastCFG` | uploads, hub | several statements without a transaction, configurations built before they are sent, primary keys of another database | `Restore`, `Catalog` |
| Address blocks and API keys (`internal/ipblock`, `internal/admin/ipblocks.go`, `api_keys.go`, `internal/middleware`) | two tables, the copy of the blocks in memory | create, delete, reload, sweep; create, change, rotate, delete; the checks of a request | connections, uploads | reloads stored in the other order, a connection let in before the block, rotation between two look-ups | `Admission` |
| Settings, preferences, HTTP shell, database layer, configuration and tools, browser client | | | | see *Not modelled* | no |

How they meet: a request passes the address blocks (`Admission`); a sign-in goes
through the limiter and then mints tokens in `Sessions`; an upload shows an API
key (`Admission`). A WebSocket shows its token once, joins the `Hub` and is
entered in the registry, which reports to the `ConnectionHistory`; an audio stream
enters the same registry (`Stream`). Whatever revokes tokens, disables an account
or blocks an address then ends connections through the hub or the registry. An
upload or a folder monitor writes a call (`Ingest`, `DirMonitor`), fills in the
`Catalog`, and notifies hub, streams, `Forwarding` and `Transcription`. The `Archive`
is read, shared and pruned. The admin's changes go to the tables first and to the
services by a reload (`Forwarding`, `DirMonitor`, `TrMqtt`, `Transcription`) or by a
broadcast (`Catalog`).

## Modules

| Module | Of | Role |
| --- | --- | --- |
| `LoginLimiter` | the limiter, driven by the sign-in handlers that share it | specification |
| `Sessions` | tokens: tables, tracker, replay cache, and the handlers step by step | specification |
| `ConnectionLog` | what the registry promises its observer: one open, then one close with a reason | abstract specification |
| `Hub` | hub, registry, handlers, pumps and requests; implements `ConnectionLog` | specification |
| `ConnectionHistory` | history on top of `ConnectionLog`, with crashes; INSTANCEs it for what the registry says | specification |
| `Transcription` | the way of a job | specification |
| `Forwarding` | targets, generations of workers, outcomes, and the admins who change them | specification |
| `Stream` | listeners' backlogs, pacing, filter, and the end of a stream | specification |
| `Ingest` | a call from upload to pruning, with the disk | specification |
| `Archive` | search, sharing and bookmarks over the calls of `Ingest`; EXTENDS it and runs its steps | composition |
| `DirMonitor` | one monitor with its recorder, timers, files and reloads | specification |
| `TrMqtt` | one instance's row, clients and events | specification |
| `Restore` | a backup and its restore, as pure operators on a database | algorithm |
| `Catalog` | requests over the catalog statement by statement, and the configuration listeners get; runs `Restore` as a transaction | composition |
| `Admission` | address blocks and API keys beside connections and uploads | specification |
| `MC*` | constants, symmetry and bounds for TLC | model |
| `SignIn_proof` | theorems about `LoginLimiter` and `Sessions` | proofs |
| `Hub_proof`, `Transcription_proof`, `Catalog_proof` | theorems about the module they are named for; the last also about `Restore` | proofs |
| `Connections_proof` | theorems about `Admission` and `ConnectionHistory`: who is let in, and what is told of it | proofs |
| `Services_proof` | theorems about `Forwarding` and `TrMqtt`: what runs is what the table says | proofs |
| `Recordings_proof` | theorems about `DirMonitor` and `Stream`: a recording on its way in and out | proofs |
| `Archive_proof` | theorems about `Ingest` and `Archive` | proofs |

`ConnectionLog` joins two components: `Hub` is shown to implement it (by TLC
and by proof), and `ConnectionHistory` is driven by it, so that what is proved of
the history holds of every order in which the hub can report.

### LoginLimiter

`entries[ip]` is the `loginEntry` of an address; a missing entry and a zero one
behave alike in every method, so the map is total. `attempt[a]` is the handler of
one sign-in: idle, with its password check running ("checking"), or decided with
its deferred `End` to come. Each method is one action, since each holds the lock
for all of its body; the handler is the sequence `TryBegin`, `RecordFailure` or
`Reset`, `End`. The clock is a counter that may stand still between calls.
`List` and `IsLockedOut` only read.

- `LimiterInv`: an address gets no more guesses than its threshold. It holds
  `ReservationsBalance` (no `Reset`, `Clear` or cleanup lets a deferred `End`
  release another's reservation), `FailureBudget` (failures recorded and checks
  undecided never exceed the threshold together, so concurrency buys no extra
  guess) and `LockoutIsFinal` (nothing admitted earlier can still succeed). The last
  two are claimed until the threshold is first changed (`steady`).
- `LockoutStands`: a lockout ends by its own time, an admin or a right password,
  not by settings saved meanwhile, and by the cleanup ticker only if the threshold
  has been raised since above the one it began under (`Outgrown`).

`steady` and `since` (the threshold an address was last locked out under) are
history variables. The run saves thresholds of 2 and 3 in any order, and shows what a
change does to those it finds. Raised, it lets the ticker drop a standing lockout as soon
as the saved lockout time is over (`ratelimit.go:248-251`), though `SetLimits` speaks of
"failures from now on" (`ratelimit.go:50-51`); and who has begun two checks after an
expired lockout is over the new budget. Lowered, it leaves addresses that have as many
failures as the new threshold unlocked, and `TryBegin` (`ratelimit.go:140`) counts none
of them.

### Sessions

A login or refresh mints one *grant*: access token and refresh token. Grants are
numbered as they are minted; a family (a signed-in device) has the number of its
first. `row` is the table, `tracked`, `denied`, `deniedFam` and `validFrom` are the
`TokenTracker`, `replay` is the replay cache. `req[r]` is a handler in progress:
every query and every call on tracker or cache is an action of its own and others
run in between. `FailingSteps` are the steps whose query may fail. `refused` is a
history variable: the grants a revocation covered. The clock counts seconds, the
unit of `iat`.

Merged or dropped: minting (local) and `Track` (one lock) are one step; reading a
revoked row, missing the cache and revoking the family are one, as the reads only
become truer; `lapsed` stands for the three comparisons with `expires_at`; `iat`
and `created_at` are one instant. Of an account only enabled, disabled or deleted
is kept.

- `RevocationIsFinal`: an access token a revocation covered is refused until it
  expires, over eviction, clean-up and restarts.
- `DevicesAreKnown`: whoever can use or renew a session can be signed out of it. A
  token still honoured is known to the tracker (`HonouredIsTracked`), an account has
  at most `MaxTokens` of them (`TokenCap`), rotation leaves one usable refresh token
  (`OneLivePerFamily`), and a device that can refresh is on the admin's list
  (`DeviceListed`). The last two are claimed of a device until it forks: until two
  requests spend one of its refresh tokens before either has revoked it, or the
  revocation of a spent one fails.
- `DeadFamilyStaysDead`: a device that is signed out, with no refresh in progress,
  never comes back, forked or not.

`forked` is a history variable. The browser client serialises its refreshes
(`src/frontend/src/app/api.ts:45-88`) within one tab; the cookie is shared by all
tabs, so refreshes with one token interleave freely here. Both may read it unrevoked,
and then each mints a successor of its own, though `api.ts:32-36` says that the server
hands both the same one; and the error of revoking the old token is ignored
(`auth.go:449`). Either way the device holds several refresh tokens that work, and once
its newest is revoked it is off the admin's list (which looks only at the newest row)
while an older one goes on. The run reaches forks by both ways; a second successor of two tabs
would be a third grant, which only the theorem covers.

Known and not claimed: a token tracked *after* the tracker was revoked is not in
`refused`, and does go on working until it expires. A refresh in flight leaves an
account that is disabled meanwhile (`users.go:232`) a live refresh token, though it
refreshes nothing while the account is disabled. A second refresh with a token that
is revoked and whose successor is not cached yet (`auth.go:400-405` calls duplicates
benign) revokes the device. `RestartDelay >= 1` is assumed for restarts: a token minted in
the very second the next process starts is honoured again, because `iat` has no
finer resolution (`internal/auth/auth.go:346-351`).

### Hub and ConnectionLog

`phase[c]` is the handler of a connection, from the capacity check to the read
pump and its unregistering; `wire[c]` its socket and `sendClosed` its send channel,
on whose closing the write pump ends. `run` is the `Run` goroutine: at its select,
half way through adding or dropping one client (hub and registry have a lock
each), closing all, or stopped. `breaker[b]` is a request that ends connections,
via the hub's own selection or the registry's `CloseFor`. An owner stands for
whatever a request selects by: an account, a device, one token, or all anonymous
listeners. Sending on an unbuffered channel and receiving from it are one step.

Not here: what is broadcast (configurations are in `Catalog`, notifications of
calls to the streams in `Stream`), and the audio streams, which end through the
registry in the same way. `closeAll` closes `done` and takes the lock in one
step. `Revalidate`'s guard `~Joining(c)` says that the five-minute ticker does not
fire in the microseconds before `Run` has finished adding the client.

- `HubInv`: the admin's list is the hub's set but for the one client in `Run`'s
  hands (`RegistryAgrees`); no live socket outside the hub (`OutsideIsClosed`), no
  client without a handler (`ClientsHaveHandlers`), and a client a request has
  dealt with is out and stays out (`SelectedAreOut`).
- `LogSpec`: refinement of `ConnectionLog`.
- `ConnectionsEnd`: requests return though the hub stops under them
  (`BreakersReturn`), shutdown ends every handler (`HandlersEnd`), a sign-out ends
  whoever is on the list when it comes to look (`SignedOutEnd`), and a connection
  of a disabled account ends, though the request missed it, by the revalidation
  (`DisabledIsEvicted`).

A connection between its token check and its registration is missed by a sign-out
of its device, which disables no account, and lives on for as long as the client
does: `connections.go:219-220` promises otherwise. No property catches this: the
interleaving is in the model, and `ConnectionsEnd` claims nothing of the connection
it leaves behind unless its account is disabled.

### ConnectionHistory

`told` is the registry's report (`ConnectionLog`'s log). The writer takes events off
a bounded queue, asks for the setting through a copy at most a minute old, and
inserts or updates a row, either of which may fail. The process boots, stops and
dies at any moment. Of a row only its end is kept. A row that `CloseStale` closes
reads "shutdown" in the table; it is told apart as "stale" here so that properties
can speak of it. `Prune` over-approximates: it may delete while the setting is
off, as it does when the setting cannot be read. `missed`, `orphans` and `settled`
are history variables.

- `HistoryInv`: rows are of connections that opened, with the reason they ended
  for, and swept as stale only when gone (`RowsTellTheTruth`); the writer's memory
  holds connections that are open, or whose end is queued or was dropped, and does
  not grow with those of the past (`RowsAreForgotten`).
- `EndsAreFinal`: an ended row changes no more.
- `WriterKeepsUp`: turning history off takes effect within a minute
  (`OffTakesEffect`), and a queued end is dealt with (`EndsAreWritten`).

Ends that are queued after `Run` has drained its queue at shutdown are not
recorded, whatever `history.go:111-112` says; the next boot sweeps their rows.

### Transcription

A job is a hand-over of one call and is at one `place`: with its submitter, in the
queue of its pool (`poolOf`), with a worker, in the pool's results, with the pump, in
the shared channel, or done with. Channels are sets with a capacity, as no property
depends on order. `life` and `exited` are the pools' contexts and workers: `Reload`
cancels a pool and forgets it, but its submitters, workers and pump go on until
they notice. `rows` is the status in `transcription_jobs`; a row goes with the
pruning of old rows (`Prune`) or, whatever its status, with its call (`DeleteCall`).
`Restart` is the death of the process and the next boot.

Merged or dropped: reading the pool and recording the job (`Submit`) are one step;
whether a call is long enough, and whether the sidecar answers, are free choices;
the retries within one job are inside `Transcribe`; the text and its broadcast
touch nothing here. A pool whose first ping fails is never current and is left out.

- `TranscriptionInv`: a call shown as queued has a job in hand, or one known to be
  given up by its submitter, dropped by a replaced pool, lost with the process, or
  that the history could not record (`QueuedIsAccounted`); one pool runs, the
  manager's (`OnePoolRuns`).
- `JobsMoveOn`: channels of one place hold nobody up for ever (`JobsFinish`),
  results outlive the reload of their pool (`ResultsArrive`), and a stopped pool's
  goroutines end (`PoolsEnd`).

What a replaced pool has in its queue is dropped, so turning transcription off and
on loses calls, which `src/docs/admin-guide.md:393` does not expect.

### Forwarding

Downstream servers and webhooks have one shape and do not meet: `kind` is chosen at
the start. A generation is one start of the service: `worker[g][t]` and
`queue[g][t]` are the goroutine and channel of a target, `published` says whether
`Notify` still sees them. `row`, `saved` and `known` are the target's row, the outcome
stored in it, and the outcome in the tracker. `holder` has `reloadMu`.
`Notify` reads the list under the lock and sends without it (`Enqueue`); a worker
takes a call, pushes, waits between attempts, records (`Record`) and stores the
outcome in two steps. `Take` may win over a cancelled context, as Go's `select`
prefers nothing. An admin writes the row, waits for the lock, stops a generation
and starts the next.

- `ConfigTakesEffect`: between changes, what runs is what the table says, and never
  two generations of workers at once, however two admins' reloads overlap.
- `RowAgrees`: the stored outcome of a downstream is the one shown, over reloads
  and restarts. Webhook tests are recorded beside deliveries and are left out.
- `ForwardingGoesOn`: reloads return (`ReloadsReturn`) and queued calls are taken or
  go with their generation (`QueuedAreTaken`).

The store of an outcome succeeds; one test runs at a time; ids are never reused. A
delivery that ends after its target's `Forget` leaves an entry in the tracker that
nobody sees. A reload drops what is queued by design. A downstream is tried five
times (`pusher.go:298`), where `src/docs/admin-guide.md:356` speaks of three retries.

### Stream

`phase[l]` is a listener's request through `GetStream` and `Serve`: checked, in the
manager, in the registry, priming, pacing, leaving, gone. `queue[l]` is its backlog of
frames, `written[l]` all that was handed to `Write` (the history the properties read),
`cues[l]` the cues with the positions they name. `notify[c]` is the goroutine the hub
starts for a call: listeners asked, filter per listener, one encoding, one
enqueueing per listener. Clients stall (`stalled`), hang up or are disconnected
(`cancelled`); accounts are retuned or disabled at any moment. A frame is its call
and its number in it.

- `StreamInv`: manager and registry agree with the handler's phase, and cues give
  the position at which their call begins in what this listener was sent.
- `CallsArePlayedInOneStretch`: overtaking and trimming never interleave calls. What
  a listener is sent of a call is in order and in one piece; only a cut backlog leaves
  frames out, be it in the middle of the call that is playing.
- `UnwantedIsUnheard`: the filter goes by the row as it is, not as it was when the
  stream was opened.
- `CancelledLeave`: a stream ended from outside leaves, unless its client has
  stopped reading; the write deadline is cleared, so nothing else would end it.

A call that is queued while a stream is priming plays without a cue, as in the
code. The delivery of cues over the hub is not modelled. A sign-out between the
entries in manager and registry is logged with the reason "client".

### Ingest and Archive

`Ingest` is a call's life on disk and in the table. `upload[u]` is the handler with
what it has read, `files` maps the paths that exist to the upload whose audio they
hold, `rows[u]` is its row, `jobs`, `running` and `outcome` are the conversion queue,
FFmpeg and the `Done` channels, `pruner` is the batch in hand. Queries and calls on
the file system are one step each. `Unique` draws another stem when the name is
taken; FFmpeg overwrites what has the output's name when it finishes. `Archive`
EXTENDS it and runs its steps (`Beside`) with the rows that hang on a call:
`links` and `marks`. `visit[x]` is a request of a user (share, unshare, bookmark, or a
search page by page), `sweep` and `undo` are the admin's. `Loads` are the initial
states: uploading from nothing, or a stocked archive with users of one kind or
another. `kept` of `Ingest` is then what links and bookmarks say.

- `RowsHaveTheirAudio`: each row's path holds its own audio, but for two things. A
  prune that removed the file and could not delete the row frees a name that is still
  in use, for that row and for whoever is stored or converted under it; and the
  conversion of an upload given up (`left`) may write to a name freed and taken since,
  even to the input (`in`) of another conversion, whose row then has the wrong audio under
  a name nobody else ever had.
- `DuplicatesAreConcurrent`: two calls within the window are stored only if neither
  was there when the other was checked, or the check failed.
- `TokensStand`: a token a user was told is that of the call's link until somebody
  ends that link.
- `SearchReachesAll`: who pages to the end has been shown all that stayed, unless a
  newer call went meanwhile or his grants thinned out a page.
- `CallsSettle`: uploads end; an old call goes once neither a bookmark nor a link, expired
  or not, is there for it; and a call that has one stays, but for the deletion of its
  system (`SystemGoes`).

Conversion settings are fixed; a failed insert leaves its file behind, and
`SystemsDelete` the recordings of its calls, as in the code. Labels are in `Catalog`.
A page holds one call; other users' bookmarks come in one step, and only while
uploading. Opening a link, the rate limiter, filters, sorting upwards and public
access are left out. The three ways a promise is
broken are named in the properties: a restricted listener's `total` is cut by a page
his grants thin out, which ends his search there (`cut`, `search.go:291-305`);
an unshare checks the owner of the link it read and deletes by call (`raced`); a call
kept after the pruner listed it goes all the same (`late`). Two more are what the code
does and the guide denies; `CallsSettle` goes by the code, so it does not catch them.
Deleting a system takes its calls, kept or not (`sqlc/schema/schema.sql:81`), where
`admin-guide.md:219` says that calls stay; and the pruner asks whether there is a link and not
whether it is live (`sqlc/queries/calls.sql:131-138`), so an expired one keeps its call until
somebody removes it, where `admin-guide.md:468` says until it expires. The run reaches both.

### DirMonitor

The recorder writes the audio file several times and, for Trunk Recorder, a
sidecar. `events` are what the watcher has not read, `timers` and `timerOf` the
debounce timers and the map of them (an expired timer's callback waits for
`timersMu` while the map may already hold another), `task[i]` the handlings: the
poller's, and callbacks that a reload does not wait for. `reload` holds
`reloadMu` while the old watchers end. `calls[f]` are the rows made of a recording,
with what was known when it was checked.

- `MonitorIsAsSaved`: between reloads one watcher at most, with the row's settings;
  one that is up is shown as watching or polling, whichever it does, and nothing else
  is; an enabled monitor without one is shown as failed.
- `OneCallEach`: a recording becomes two calls only for a named race, or when the second
  was taken without looking for duplicates. The settings that switch detection off, or
  set its window to 0, are read for each recording (`watcher.go:622-629`,
  `duplicate.go:20-22`), so the run lets each find them on or off (`Detection`).
- `RemovedIsCalled`: a source is removed only after its row.
- `FinishedAreTaken`: a finished recording that a poller or an unread event leads to
  becomes a call, unless something fails or the monitor is stopped.

A panic recovered in `runDirMonitor`, which ends the goroutine with the status
still "polling", and one in a timer's callback, which nothing recovers
(`watcher.go:131-133`), are not modelled, nor the extension filter.
`ListActiveDirMonitors` succeeds. `Forget` before the reload lets the old watcher's
`Stopped` bring the status entry back. That a file is left alone for the whole of
its quiet time (`admin-guide.md:326`) does not hold of a callback whose timer expired as
it was replaced; the promise is in real time and no property is about it.

### TrMqtt

`clients` are all the MQTT clients this process made, `map` the one the manager
knows of the instance, `req[r]` a request between its queries and its look-ups in
the map (which is locked for each alone), `channel` the events on their way and `told[c]`
the last event of a client that pages were told of. A client may not acknowledge
its stop, in which case the request goes on without it.

- `ForgottenAreConcurrent`: only two changes at once leave a client nobody can stop.
- `FeedIsAsSaved`: after a change that ran alone no client has settings that are not
  the row's; an enabled instance has a client unless a stop timed out.
- `NewestIsKept`: in order, and the oldest goes first, but for a named race.

A patch or a reconnect starts a client whatever `Enabled` says, so a disabled
instance may be connected while the page shows "disabled"
(`src/docs/tr-mqtt-guide.md:83,90`, `backup_tr.go:138-141`); of such an instance
`FeedIsAsSaved` claims nothing. `UpdateInstance` writes the whole row it read. A stop
that times out leaves `Update` without a client though the request answers 200
(`manager.go:158`, `trmqtt.go:504`): that race is an excuse of `FeedIsAsSaved`
(`settled.op = "cut"`), which shows that nothing stale is left, not that something runs. Frames and snapshots,
connection states, `last_seen_at`, metrics, the test of a broker, the feature's
switch, and rows that a restore creates are not modelled.

### Restore and Catalog

`Restore` has the database as a record of tables and the restore as operators:
`ImportConfig` (replace and merge), `removeAbsent`, `Review` (what the preview
counts), `exportConfigData`, and the translation of primary keys. `Catalog` runs it as
one step (it is one transaction) among requests that are not transactions: each
statement is a step, so a request has a `pc`, the rows `left`, and what it `read` or
`found`. After its changes a request builds the configuration and sends it: into the
hub's `channel` for those who hear everything, straight to each restricted
listener. `untold` and `missed` are ghosts: what a request changed and has not told, and
what others wrote while it ran. Once a broadcast has collected its restricted listeners,
only those are still to be told by it: the others joined later, on a configuration of their own.

- `CatalogInv`: the schema's promises hold in every table (`Schema`), and when
  all is quiet each listener has the configuration its grants show, or a named
  excuse (`ConfigReachesListeners`).
- `OnlyOverlapUndoes`: a label or a block goes only by who was asked to change it, or
  overlapped with the change.
- `RestoredIsTheFile`: after a restore the tables but users say what the file says; a key
  that opened systems of the file opens the same ones, and monitors point where they did,
  under other primary keys; and the accounts of who asked and of the first admin (`spared`)
  stay as they were.
- `ReviewMatches`: the review's counts of rows added, changed and removed are what the
  restore does, keys and monitors left out of the changes, and the accounts spared counted
  by the review though they stay.

Where the code keeps less than its documents say, and the properties claim no more than it keeps:

- the grants of users are not remapped (`imports.go:296`, `311`), though
  `operations.go:226-229` says they are: users are left out of what the tables say;
- a key all of whose systems are missing from the file comes out with an empty list, which
  `operations.go:229-231` means as a dropped grant and `grants.go:22-24` reads as every
  system: of such a key nothing is claimed, and restoring it opens everything;
- the review looks at neither a key's grants nor what a monitor points at
  (`backup.go:315-329`), though the restore rewrites both and `backup.go:129-131` has it
  compare what a restore would write;
- the review counts the first account and the admin's own as changed or removed though
  they are kept (`imports.go:283`, `307-309`, `614`): `SparedIn` and `SparedOut` are by how much;
- it counts talkgroups and units as removed though a file that lists no systems prunes none;
- Replace is rolled back when a monitor refers to a system or talkgroup it removes;
- `ImportTalkgroups` (REST) and `RadioReferenceApply` never broadcast (`hub.go:273-275` asks for it);
- review keys fold case where the database does not.

Taken as one step: the queries of one configuration, looking up and creating one
label, one row of a bulk change. Units are unique by migration 008. Ordering, LEDs,
names and frequencies, monitors that name a system by its label, talkgroup grants, and reloads after it (in `Forwarding`,
`DirMonitor`, `TrMqtt`) are left out, and `autoPopulateSystems` is on. Listeners never leave:
that is `Hub`'s.

### Admission

`blocks` is the table and `list` the copy the middleware asks; a range is the set of its
addresses. A request writes its row, then reads the list (`ReadList`), stores
it (`StoreList`), and for a new block closes connections (`CloseFor`); the sweep reloads
too, and reloads overlap. `conns[c]` is let in before it is registered. `keys` is the
table of API keys; secrets are numbered as they are made. A change reads the secret
and writes it back; an upload looks its secret up by the present and then by the
previous one. `doubt` and `raced`, and a connection's `slipped` and `unclosed`, are
ghosts that name the excuses; `replaced` and `retired` what rotations replaced.

- `AdmissionInv`: the list is the table, but for reloads that overlap or fail; no
  connection lives on under a block but those of its own that it slipped past (not in
  the list yet, or the connection not in the registry) or that were left unclosed (the
  creation failed on its reload); trusted addresses are never refused.
- `BlocksTakeEffect`: a block comes into force, and one lifted goes, whatever failed.
- `SecretsKeepTheirWord`: the secret shown last works, the one the last rotation
  replaced works for its grace, and no other does, unless an earlier rotation replaced
  it less than the grace ago, of which nothing is asked.
- `UploadsAreAnsweredRight`: an upload is taken only for a key that was good at some
  time while it was served, and refused only if it was not good throughout.

The clock stands still between the two look-ups of one upload, as the grace is a
day. In three ways the code does less than its documents say, and the properties leave
room for it rather than catch it. A second rotation ends the grace of the first secret
at once, where `admin-guide.md:294` and `api_keys.go:197` say 24 hours. After a failed
reload the block comes into force at the next sweep, which closes no connections: those
there stay for as long as they like, where `admin-guide.md:190` says they are dropped.
And so does a connection let in just before the block and registered just after. The run
reaches all three. Loopback, the width of ranges, `touchAPIKey` and the
admin's confirmation for his own address are left out.

## Runs

Deadlock is not checked where a bound, or the end of all that was to come, stops
the model; `limiter`, `history` and `transcription` check it.

| Run | Configuration | Distinct states | Bounds |
| --- | --- | --- | --- |
| `limiter` | `MCLoginLimiter` | 1,666,232 | four sign-ins, three of them from one address, three settings with thresholds of 2 and 3 and two lockout lengths |
| `sessions` | `MCSessions` | 828,238 | two handlers of one account, two grants, three seconds, caps of one, three steps that may fail |
| `hub` | `MCHub` | 230,634 | two connections of one account, one of them the admin socket's, a request and a shutdown |
| `history` | `MCConnectionHistory` | 164,236 | two connections, a queue of two, restarts |
| `transcription` | `MCTranscription` | 204,368 | two jobs of one call and one of another, two pools of one worker, channels of one place |
| `forwarding` | `MCForwarding` | 216,102 | one target of either service, two calls, two admins, two attempts, a queue of one, three generations, two edits |
| `stream` | `MCStream` | 122,823 | one listener, two calls of three frames, a backlog of four, six frames written, two changes of the account |
| `archive` | `MCArchive` | 237,419 | two uploads with one name, one failure and one restart; or two stored calls, two users, three links |
| `dirmonitor` | `MCDirMonitor` | 804,204 | one recording of two writes, three kinds of recorder, duplicates looked for or not, two callbacks, two changes, one fault |
| `trmqtt` | `MCTrMqtt` | 758,554 | two requests at a time and three in all, a channel of one, four requests and events, one fault |
| `catalog` | `MCCatalog` | 243,121 | two requests of 28 kinds beside two listeners, or one while both connect; a channel of one, two faults |
| `admission` | `MCAdmission` | 314,804 | two addresses, two ranges, two keys, two requests, one connection, one upload, five loads |

What each shows is `about` in `PROJECT.json`. Every disjunct of every next-state
relation is taken in its run.

Why the bounds are enough. The caps are all reachable with what each model has:
three sign-ins against thresholds of two and three, two grants against one token and one
family, two connections against a limit of one, three jobs against channels of one
place, two calls against a queue of one, two calls of three frames against a backlog
of four, two events against a channel of one. Two actors per race are what every
hazard listed needs; a third repeats one of them. Three generations let a reload
follow a reload, and two edits let a change overtake one that waits. `Catalog`'s
other database has the same radio system under another primary key, and another system
under a key that is taken here, which is what remapping can get wrong. One listener
is enough for `Stream`, since listeners share nothing but the encoding and the two
maps they join one by one; two were beyond what finishes. `Loads` keep those cases
together that meet, and apart those that do not.

Bounds such as `MaxTime`, `MaxGrants`, `MaxPools`, `MaxGens`, `MaxEdits`, `MaxFaults` end
the model and not the system. Symmetry is used only in runs without liveness, and
only over identities the models never tell apart. `sessions` alone has a `VIEW`: its
module takes for one the states that differ only in denials, cache entries and claims
that have expired, which no step and no property of the run looks at any more.

Each property of a run has a mutant in `PROJECT.json`: an operator beside the
definition it mutates, marked "Mutant", or commented by what it does wrong, under
which that property fails.

## Fairness

Goroutines are scheduled, and a query or a system call ends: that is the weak
fairness of `Hub`'s handlers, pumps, `Run` and requests, the history's writer, the
jobs and exits of `Transcription`, the workers and reloads of `Forwarding`, `Serve`'s
own steps and `Notify` in `Stream`, the handlers, workers and pruner of `Ingest`, and
the watchers, timers, callbacks and reloads of `DirMonitor`. In `Admission` it is that of
requests that have begun and of the hourly sweep. `Hub` also takes it that tickers
tick, that a handshake times out, and that a send waiting at `Run`'s select is received,
since every connection joins and leaves once and cannot overtake it for ever.
`Transcription`'s answers are bounded by a timeout of 120 s.

`Stream` has strong fairness of `Done`: with a tick and an ended context both ready
again and again, Go's `select`, which chooses at random, takes the latter at last;
the step is disabled while the client stalls and enabled as it resumes.

No fairness makes a client leave or read, a user or an admin act, a submitter give
up, a recorder finish a file, or anything fail or restart. `LoginLimiter`, `Sessions`,
`TrMqtt` and `Catalog` have no liveness property and no fairness.

## Proofs

| Theorem | Says, for all constants | Inductive invariant |
| --- | --- | --- |
| `LimiterTypeOK` | types, whatever settings are saved | `TypeOK` |
| `LimiterSafety` | `LimiterInv` | `LimiterInv` itself: its part `ReservationsBounded` keeps checks in flight within a threshold that is `steady` |
| `SessionsTypeOK` | types and `WellFormed` | `WellFormed`: what a handler carries belongs to the grant it minted |
| `SessionsOver` | `DeadFamilyStaysDead` | `WellFormed` |
| `SessionsRevocation` | `RevocationIsFinal`, `HonouredIsTracked` | `TrackerInv`: a refused token is denied by itself, by its family, or is older than the process |
| `HubSafety` | `HubInv` | `HubInv` itself: its parts say where `Run` is, what has entered, what the log says, whose hands are free |
| `HubKeepsLog` | `Hub` implements `ConnectionLog` | `HubInv` |
| `HistorySafety` | `HistoryInv` | `HistoryInv` itself: each queued event is true of what was told since boot, and opens are queued before closes |
| `HistoryEndsAreFinal` | `EndsAreFinal` | `HistoryInv` |
| `TranscriptionSafety` | `TranscriptionInv` | `TranscriptionInv` itself: a job's pool was started, and what was dropped was dropped by a stopped pool |
| `LimiterKeepsLockouts` | `LockoutStands` | `LimiterInv`, and `LockedAtThreshold`: who is locked out has as many failures as the threshold asked for when it began, so that the ticker goes by the end of the lockout unless that was raised |
| `SessionsDevices` | `DevicesAreKnown` | `TrackedFew`, and `FamilyInv`: one handler at a time mints into a device that has not forked, whose live refresh token is its newest row |
| `SettingsTakeEffect`, `RowIsWhatWasShown` | `ConfigTakesEffect`, `RowAgrees` | `IInv` of `Services_proof`: the two properties, what a worker has in hand where it stands, and that the outcome it is about to save is the one it made known |
| `CuesAreTrue`, `CallsAreNotMixed`, `SelectionIsKept` | `StreamInv`, `CallsArePlayedInOneStretch`, `UnwantedIsUnheard` | `IInv` of `Recordings_proof`: cues are those of what was written, sent and queued frames are one stretch per call, and a call still awaited, or not wanted, is in neither |
| `RowsAlwaysHaveTheirAudio` | `RowsHaveTheirAudio` | `Audio`: who counts on which name (`Claims`), and that what he counts on is there, his own, and nobody else's |
| `SearchesAlwaysReachAll` | `SearchReachesAll` | `Searches`: where users visit nobody uploads, so calls only go; and a call there at first that a search has not shown comes after at least as many of the calls of that time as pages were read, unless one of those has gone (`Reached`). Calls are in order, so a page with no call on it is past the last (`LastOf`, `NoGap`) |
| `TokensAlwaysStand`, `KeptCallsAlwaysStay` | `TokensStand`; `KeptCallsStay`, the safety part of `CallsSettle` | `Referring`: links, bookmarks, the undo and the sweep refer to calls there are, and what the pruner has listed and somebody keeps was kept since |
| `DuplicatesAreAlwaysConcurrent` | `DuplicatesAreConcurrent` | `SeenAreFar`: what an upload found when it was checked is not near it |
| `MonitorsAreAsSaved`, `RecordingsAreCalledOnce`, `RemovedAreCalls` | `MonitorIsAsSaved`, `OneCallEach`, `RemovedIsCalled` | `MonitorIInv`: the three, who may be watching while a reload is where it is, and `Knowing`: what each handling has seen of the calls of its recording |
| `ForgottenAreAlwaysConcurrent`, `FeedIsAlwaysAsSaved`, `NewestAreKept` | `ForgottenAreConcurrent`, `FeedIsAsSaved`, `NewestIsKept` | `FeedIInv`: what is true of row and client while a request is alone and where it stands (`AloneAt`), who was passed by another's client (`PassedAreTold`), and what each client sent, was told of and has waiting (`Sending`) |
| `BlocksAlwaysHold` | `AdmissionInv` | `BlockInv`: what each reload that has read the table is about to do to the list (`Overlaps`, `Stores`, `Listed`), and that who is let in is covered only by blocks whose creation has yet to close connections, and by its own excuses (`ConnsHeld`) |
| `SecretsAlwaysKeepTheirWord` | `SecretsKeepTheirWord` | `SecretInv`: a secret is one key's, wherever it is held, and the next is nobody's (`Owned`); a request alone with its key has read what is there, and its row is what the admin was shown (`Told`); `RetiredToo`: the last secret replaced is one of all |
| `UploadsAreAlwaysAnsweredRight` | `UploadsAreAnsweredRight` | `Remembered`: what an upload between its look-ups knows of its secret is true of the table as it is now |
| `CatalogIsWhole` | `CatalogInv` | `Inv` of `Catalog_proof`: the schema, the shape of what a request carries where it stands (`RequestOK`), and that a listener who is behind has a frame coming, or a request that has yet to tell it (`Due`) |
| `UndoneByOverlapOnly` | `OnlyOverlapUndoes` | `Mind`: a request knows every label and block it is about to write over, but for those it missed (`Knows`), and what is left to it is part of what it was asked (`InOrder`) |
| `RestoredSaysTheFile` | `RestoredIsTheFile` | `Copies`: the file of a restore under way, and the last snapshot, are backups; and `FileRestored`, about what `ImportConfig` computes |
| `ReviewsAreRight` | `ReviewMatches` | the same, and `FileReviewed`: what `ImportConfig` counts is what its tables gained and lost, by keys of which each row has one |

The properties are not inductive as they stand. `RevocationIsFinal`, say, is
broken by a step from a state in which a refused token is refused only because of a
denial that eviction is about to drop; the strengthening says that a denial lasts
as long as the token it denies. Where the run checks an invariant that is
inductive, it is checked whole, so that the proof and the run say the same; the others
were model-checked on the run's instance before they were proved, and `Audio` on three
uploads as well.

`RowsHaveTheirAudio` has the longest argument. A row, the pruner's entry for it, a
handler that has stored its file and a conversion it waits for each *claim* a name.
`createUniqueFile` and the reserved output give out names that do not exist, so a new
claim is to a name nobody claims, as long as claimed names exist; and a name stops
existing only by a step of its claimant, unless it is *bad*: of a row whose file went
and which could not be deleted, or of a conversion that outlives its request. There is
always another stem, since uploads have fewer names than there are stems. The rest is
that every writer of a file claims it: the worker writes for the handler that waits, and
a handler gives up its claim with its job still queued only by being given up.

`CallsArePlayedInOneStretch` and `StreamInv` need that a call is queued once per
listener (each notification asks each listener once) and that the cap cuts the oldest
of what waits. `DevicesAreKnown` needs that a device has forked the moment a second request reads
a token that one has read and not come to its end with: whoever is let past that point minting
into a device that has not forked is alone, and has revoked its only live token.

`AdmissionInv` speaks of the list and the table, and a step of a reload changes one by what
was true of the other some time ago. The invariant therefore follows each row: while a
block is in the table and not in the list, either a reload overlapped or failed (it is in
`doubt`), or the request that made it has its own reload to come; the same for a reload
that has read and not stored, whose rows may lack only what its creator has yet to read.
Two reloads that have both read differ only by rows in doubt, so that whichever stores last
does no harm that has no excuse. `SecretsKeepTheirWord` needs that secrets are not confused:
they are in rows, and in the hands of requests that read one and will write it back, and
the number drawn next is in neither.

`FeedIsAsSaved` starts again with each request that begins when nobody else is at work: it
makes no use of what came before but that a client in the map runs, and follows the request
alone, so that races before it do no lasting harm, except to a client it cannot see. For
`NewestIsKept` the one who sends alone is followed from its second try on: it has just taken
the oldest away, and nobody else has put another in its place.

`CatalogIsWhole` has two halves. For the tables, each change a request can make (inserting,
overwriting, dropping with what cascades, moving talkgroups between labels, each row of the
merge, each removal of Replace) keeps the schema provided the check before it passed, and every
action is one of them: whatever a request read earlier, the check is made in the statement that
writes. The merge is a recursive function over the file's primary keys, along which `MergeOK`
(the schema, and that the map of keys leads into the tables) is carried by induction on
naturals in the form of a least counterexample. For the listeners, a change of what they see leaves
the request that made it `untold`, and such a request ends only by sending what the tables are
when it builds it, or by excusing whom it has not told; a frame that is out of date when it
arrives excuses its listener unless somebody else is about to send a newer one.

`UndoneByOverlapOnly` is about what a statement writes over. A request that is about to write a
row whole, or a list of blocked numbers, has read it in an earlier step; `Mind` says that each
fact there is now is either what it read or is in `missed`, which every step of another keeps true, since it
puts what it writes there. The step itself then loses a fact it knows only if it
was asked to: a backfill and an import that fills keep the label they read, the REST import
writes without reading only where it found no row, and `SystemsUnblock` takes out its number.
A fact names the talkgroup's system and number besides its label: with the label alone, one that is put
back under another number would count as kept.

`RestoredIsTheFile` is mostly about what `ImportConfig` computes (`FileRestored`). The merge of one table is
followed along its recursion (`TableIn`): the map of keys takes each stated row of the file to a row that holds it
with its references rewritten, no two to the same one, and every row that no key leads to is as it was. Since the
five tables are merged in the order of their references, a row lands with its system's number and its labels'
texts (`Landed`), so that under its natural key a view shows what the file's view shows, and
for Merge the rest shows what it showed (`MergedReads`). Each removal of Replace only takes rows away, or clears
labels that are going (`Less`), never what the map leads to nor an account spared, so that nothing but the file's rows is left
(`ReplacedReads`). Grants and monitors follow the same map (`ReachLands`, `PlaceLands`). What remains is that what a
restore has in hand is a backup: the one that was uploaded, or the tables as they were when a snapshot was taken, whose
schema `CatalogIsWhole` gives.

`ReviewMatches` compares two ways of counting: the review counts natural keys of views, the restore counts rows as it
writes and removes them. `Beyond` is the number of rows that some tables have and others have not; where one has the rows
of another it adds up along the way (`BeyondThen`). So what a merge has `created` is what its tables have beyond the ones
it began with (`Grown`, row by row), and what Replace has `removed` is what the merged tables have beyond the ones left
(`Pruning`; for a system that is its row with those of its talkgroups and units). Rows have one natural key each, and keep it
(`SameKeys`), so that counting the rows is counting the keys (`KeysBeyond`, by a bijection), and the keys after the restore
are those `RestoredIsTheFile` gives. The rows that differ are the same set before and after (`DifferIs`), except among
users (`UsersReviewed`): there the review's set is the other one and `SparedIn`, which are disjoint, so that the totals
differ by its size (`TotalBut`); and so for the rows that go and `SparedOut` (`RemovedIs`).

Assumptions: the constants' (`LimiterAssumption`, `SessionsAssumption`, `HubAssumption`,
`HistoryAssumption`, `TranscriptionAssumption`, `ForwardingAssumption`, `StreamAssumption`,
`IngestAssumption`, `ArchiveAssumption`, `DirMonitorAssumption`, `TrMqttAssumption`, `AdmissionAssumption`, `CatalogAssumption`: types,
positive capacities, what the archive may hold at first, that the first database keeps the
schema and that the columns of what is asked, or of a file, are those of their tables, that a list of
talkgroups to import or to delete is not empty and an import's mode one of the two, since the code
refuses others (`talkgroups.go:257`, `tgimport.go:313`, `imports.go:151`), and the finiteness that counting
needs; the last also, and `NamesAssumption` and `SilenceAssumption`, that the names for no
row, for nobody and for a silent frame are no row's, no admin's and no call's), and those that are hypotheses of their theorem: `SessionsRevocation` and `SessionsDevices` take
`RestartDelay >= 1`, as in the run; `RestoredSaysTheFile` and `ReviewsAreRight` take `FilesAreBackups`,
which TLC evaluates for the run's files: an uploaded file has one row for each natural key and none of a table it
does not carry, and if it lists systems a monitor's talkgroup is in one of them. Every export of a database is such
a file, whole or with tables left out by hand (`ExportIsBackup`, for the whole one); of one with a key twice the later row would win,
and its view would not say so.

Only model-checked: every liveness property (fairness and ENABLED are out of the
prover's reach). No module declares a RECURSIVE operator, so that each can be
proved about; sequences are used by index and by `Head`, `Tail` and `Append` where a proof
is meant to follow, since facts by induction over data cannot be proved here; and `Review` adds its counts up
table by table (`Total`), not with a fold, which is an operator with an operator for a parameter.

## Not modelled

- The broadcast of calls, transcripts and listener counts to WebSocket clients: full
  buffers drop frames, and no order is promised. Joining and ending are in `Hub`,
  configurations in `Catalog`.
- The talkgroup selection with its version (`auth.go:802` compares and writes in
  two queries, so two tabs with one version may both succeed) and the other
  preferences: one row each, last write wins.
- Settings, the admin's lists, statistics, searches and tests, and the message router
  of the admin socket: they read, or write one row.
- The HTTP shell: routing, headers, logging, static files; country lookup.
- The database layer: generated from the queries. Each query a module depends on
  is read as the step it is; SQLite runs it atomically.
- Configuration, secrets, seeding, migration, re-keying and the command line: they
  run alone, before the server or instead of it.
- The browser client. The go-whisper sidecar, FFmpeg,
  brokers and remote servers are choices of what they may answer.
- The contents of calls, frames, transcripts and messages: parsing of names and of
  sidecars, of uploads and MQTT frames is a choice between accepted and refused.

## Plan

What is left is out of the prover's reach, or not modelled; the reasons are above.
