---------------------------- MODULE DirMonitor -----------------------------
(***************************************************************************)
(* A folder monitor: the recordings a recorder writes into a folder, and   *)
(* the service that watches or polls it and makes calls of them            *)
(* (internal/dirmonitor), with the admin who creates, changes, restarts    *)
(* and deletes it (internal/admin/dirmonitors.go).                         *)
(*                                                                         *)
(* A recording is an audio file, written to several times, and for Trunk   *)
(* Recorder a sidecar that follows it.  Each file has its own events and   *)
(* timer, or its own place in a scan, so both may lead to handleFile.  The *)
(* timers' callbacks are goroutines that a reload does not wait for; it    *)
(* only cancels their context.  Names, masks and what the parsers find are *)
(* not kept, but for the time of the call, which is the sidecar's or that  *)
(* of the file's last write.                                               *)
(***************************************************************************)
EXTENDS Integers, Sequences, FiniteSets

CONSTANTS
  Files,        \* recordings
  Recorders,    \* the recorder types the monitor may be set to
  Detection,    \* whether duplicates are looked for: what the settings may say
  MaxWrites,    \* writes to an audio file
  Slots,        \* bound: callbacks running at once
  MaxEdits,     \* bound: what the admin does
  MaxFaults     \* bound: failing queries and system calls, and restarts

ASSUME DirMonitorAssumption ==
  /\ IsFiniteSet(Files)
  /\ Recorders \subseteq {"trunk-recorder", "sdr-trunk", "rtlsdr-airband", "dsdplus", "proscan", "default"}
  /\ Detection \subseteq BOOLEAN /\ Detection # {}
  /\ {MaxWrites, Slots} \subseteq Nat \ {0}
  /\ {MaxEdits, MaxFaults} \subseteq Nat

VARIABLES
  recorder,  \* the type of the recorder, and of the monitor
  disk,      \* disk[f]: writes so far, and which of its files are there
  row,       \* the monitor's row
  pending,   \* reloads asked for and waiting for reloadMu
  reload,    \* the one that holds it: none, or waiting for the watchers
  gen,       \* the generation of the context that Start made last
  runners,   \* the watcher goroutines
  events,    \* files with an event the watcher has not read
  timers,    \* debounce timers: armed, or expired and waiting for timersMu
  timerOf,   \* the watcher's map: the timer of each file, 0 for none
  task,      \* handleFile: 0 for the poller's, 1..Slots for callbacks
  calls,     \* calls[f]: the rows made of f, in order
  failed,    \* recordings one of whose handlings a failure or restart has ended
  status,    \* what the admin is shown
  edits, faults

watching == <<events, timers, timerOf>>
service  == <<pending, reload, gen, runners, status>>
bounds   == <<edits, faults>>
dvars == <<recorder, disk, row, service, watching, task, calls, failed, bounds>>

Paths == Files \X {"audio", "side"}
There(p) == disk[p[1]][p[2]]

\* Trunk Recorder writes a sidecar for each recording.
Paired   == recorder = "trunk-recorder"
Whole(f) == disk[f].writes = MaxWrites /\ (Paired => disk[f].sided)

NoTask == [pc |-> "free"]
Rows   == [state : {"none", "on", "off", "deleted"}, poll : BOOLEAN, delete : BOOLEAN]

Runner == [gen |-> gen', poll |-> row.poll, delete |-> row.delete,
           pc |-> "start", seen |-> {}, scan |-> {}, left |-> {}]

DInit ==
  /\ recorder \in Recorders
  /\ disk = [f \in Files |-> [writes |-> 0, audio |-> FALSE, side |-> FALSE, sided |-> FALSE]]
  /\ row = [state |-> "none", poll |-> FALSE, delete |-> FALSE]
  /\ pending = 0 /\ reload = "none" /\ gen = 1 /\ runners = {}
  /\ events = {} /\ timers = {} /\ timerOf = [p \in Paths |-> 0]
  /\ task = [i \in 0..Slots |-> NoTask]
  /\ calls = [f \in Files |-> <<>>]
  /\ failed = {}
  /\ status = "none"
  /\ edits = 0 /\ faults = 0

\* The context of a generation ends when its reload begins.
Cancelled(g) == g # gen \/ reload = "waiting"

-----------------------------------------------------------------------------
(* The recorder.                                                           *)

\* An event reaches the watcher that has the folder open.
Report(p) ==
  events' = IF \E r \in runners : ~r.poll /\ r.pc = "on" THEN events \union {p} ELSE events

\* The audio file is created, or written to, even when it has been removed.
Write(f) ==
  /\ disk[f].writes < MaxWrites
  /\ disk' = [disk EXCEPT ![f].writes = @ + 1, ![f].audio = @ \/ disk[f].writes = 0]
  /\ IF disk'[f].audio THEN Report(<<f, "audio">>) ELSE UNCHANGED events
  /\ UNCHANGED <<recorder, row, service, timers, timerOf, task, calls, failed, bounds>>

\* The sidecar is written when the audio is complete.
WriteSidecar(f) ==
  /\ Paired /\ disk[f].writes = MaxWrites /\ ~disk[f].sided
  /\ disk' = [disk EXCEPT ![f].side = TRUE, ![f].sided = TRUE]
  /\ Report(<<f, "side">>)
  /\ UNCHANGED <<recorder, row, service, timers, timerOf, task, calls, failed, bounds>>

-----------------------------------------------------------------------------
(* Watching: runWithFsnotify.                                              *)

Mode(r)      == IF r.poll THEN "polling" ELSE "watching"
Become(r, s) == runners' = (runners \ {r}) \union {s}

\* The watcher or the poller comes up; only the first may fail.
Run(r) ==
  /\ r.pc = "start"
  /\ \/ /\ Become(r, [r EXCEPT !.pc = "on"])
        /\ status' = Mode(r)
        /\ UNCHANGED faults
     \/ /\ ~r.poll /\ faults < MaxFaults /\ faults' = faults + 1
        /\ runners' = runners \ {r}
        /\ status' = "failed"
  /\ UNCHANGED <<recorder, disk, row, pending, reload, gen, watching, task, calls, failed, edits>>

\* An event replaces the timer of its file.  Stop is too late for one that has
\* expired.
Notice(r, p) ==
  LET stopped == {t \in timers : t.gen = r.gen /\ t.path = p /\ t.n = timerOf[p] /\ ~t.expired}
      n == CHOOSE k \in 1..Cardinality(timers) + 1 :
             \A t \in timers : t.path = p => t.n # k
  IN
  /\ ~r.poll /\ r.pc = "on" /\ p \in events
  /\ events' = events \ {p}
  /\ timers' = (timers \ stopped) \union {[gen |-> r.gen, delete |-> r.delete, path |-> p, n |-> n, expired |-> FALSE]}
  /\ timerOf' = [timerOf EXCEPT ![p] = n]
  /\ UNCHANGED <<recorder, disk, row, service, task, calls, failed, bounds>>

\* The time is up: the callback runs, and waits for the lock.
Expire(t) ==
  /\ ~t.expired
  /\ timers' = (timers \ {t}) \union {[t EXCEPT !.expired = TRUE]}
  /\ UNCHANGED <<recorder, disk, row, service, events, timerOf, task, calls, failed, bounds>>

Handling(g, delete, p) == [pc |-> "parse", gen |-> g, delete |-> delete, path |-> p,
                           time |-> 0, seen |-> 0, blind |-> FALSE]

\* It takes what the map has for the file now, and handles it, with the
\* settings its watcher was started with.
Callback(t, i) ==
  /\ t.expired /\ i # 0 /\ task[i] = NoTask
  /\ timers' = timers \ {t}
  /\ timerOf' = IF t.gen = gen THEN [timerOf EXCEPT ![t.path] = 0] ELSE timerOf
  /\ task' = [task EXCEPT ![i] = Handling(t.gen, t.delete, t.path)]
  /\ UNCHANGED <<recorder, disk, row, service, events, calls, failed, bounds>>

-----------------------------------------------------------------------------
(* Polling: runWithPolling.                                                *)

\* A tick: the files in the folder.
Scan(r) ==
  LET there == {p \in Paths : There(p)} IN
  /\ r.poll /\ r.pc = "on" /\ there \ r.seen # {}
  /\ Become(r, [r EXCEPT !.pc = "scan", !.scan = there, !.left = there])
  /\ UNCHANGED <<recorder, disk, row, pending, reload, gen, status, watching, task, calls, failed, bounds>>

\* (Mutant: a recording is seen when one of its files is.)
ScanEntryOnce(r, p) ==
  /\ r.pc = "scan" /\ task[0] = NoTask /\ p \in r.left
  /\ Become(r, [r EXCEPT !.left = @ \ {p}, !.seen = @ \union ({p[1]} \X {"audio", "side"})])
  /\ task' = IF p \in r.seen THEN task ELSE [task EXCEPT ![0] = Handling(r.gen, r.delete, p)]
  /\ UNCHANGED <<recorder, disk, row, pending, reload, gen, status, watching, calls, failed, bounds>>

\* A file not seen before is handled, complete or not, and the scan waits.
ScanEntry(r, p) ==
  /\ r.pc = "scan" /\ task[0] = NoTask /\ p \in r.left
  /\ Become(r, [r EXCEPT !.left = @ \ {p}, !.seen = @ \union {p}])
  /\ task' = IF p \in r.seen THEN task ELSE [task EXCEPT ![0] = Handling(r.gen, r.delete, p)]
  /\ UNCHANGED <<recorder, disk, row, pending, reload, gen, status, watching, calls, failed, bounds>>

\* Files that were not in the folder are forgotten.
ScanEnd(r) ==
  /\ r.pc = "scan" /\ task[0] = NoTask /\ r.left = {}
  /\ Become(r, [r EXCEPT !.pc = "on", !.seen = @ \intersect r.scan, !.scan = {}])
  /\ UNCHANGED <<recorder, disk, row, pending, reload, gen, status, watching, task, calls, failed, bounds>>

-----------------------------------------------------------------------------
(* handleFile and ingestCall.                                              *)

Free(i) == task' = [task EXCEPT ![i] = NoTask]
Ready(i, pc) == task[i].pc = pc

Nothing == 0

\* The time in the sidecar; nothing before both files are there.
ParseTrunkRecorder(f) == IF disk[f].audio /\ disk[f].side THEN 1 ELSE Nothing

\* The time in the file's tags or its name.
ParseSDRTrunk(f) == 1

\* The same, for a name with the date in it.
ParseNamed(f) == 1

\* The time of the last write.
ParseGeneric(f) == disk[f].writes

CallTime(f) ==
  CASE Paired                                     -> ParseTrunkRecorder(f)
    [] recorder = "sdr-trunk"                     -> ParseSDRTrunk(f)
    [] recorder \in {"rtlsdr-airband", "dsdplus"} -> ParseNamed(f)
    [] OTHER                                      -> ParseGeneric(f)

\* A file that is gone, or that the parser does not take yet, is left alone.
Parse(i) ==
  LET f == task[i].path[1] IN
  /\ Ready(i, "parse")
  /\ IF There(task[i].path) /\ CallTime(f) # Nothing
       THEN task' = [task EXCEPT ![i].pc = "check", ![i].time = CallTime(f)]
       ELSE Free(i)
  /\ UNCHANGED <<recorder, disk, row, service, watching, calls, failed, bounds>>

\* (Mutant: no check for calls there are.)
CheckNothing(i) ==
  /\ Ready(i, "check")
  /\ task' = [task EXCEPT ![i].pc = "insert", ![i].seen = Len(calls[task[i].path[1]])]
  /\ UNCHANGED <<recorder, disk, row, service, watching, calls, failed, bounds>>

\* The queries before the audio is stored; IsDuplicate is the last, and the
\* only one whose failure is ignored.  disableDuplicateDetection and the window
\* are read for each recording: switched off, or with a window of 0 or less,
\* nothing is looked up and every recording is taken.
Check(i) ==
  LET f == task[i].path[1] IN
  /\ Ready(i, "check")
  /\ \/ Cancelled(task[i].gen) /\ Free(i) /\ UNCHANGED <<failed, faults>>
     \/ /\ FALSE \in Detection /\ ~Cancelled(task[i].gen)
        /\ task' = [task EXCEPT ![i].pc = "insert", ![i].blind = TRUE]
        /\ UNCHANGED <<failed, faults>>
     \/ /\ TRUE \in Detection /\ ~Cancelled(task[i].gen)
        /\ IF \E k \in DOMAIN calls[f] : calls[f][k].time = task[i].time THEN Free(i)
           ELSE task' = [task EXCEPT ![i].pc = "insert", ![i].seen = Len(calls[f])]
        /\ UNCHANGED <<failed, faults>>
     \/ /\ faults < MaxFaults /\ faults' = faults + 1
        /\ \/ Free(i)
           \/ task' = [task EXCEPT ![i].pc = "insert", ![i].blind = TRUE]
        /\ failed' = failed \union {f}
  /\ UNCHANGED <<recorder, disk, row, service, watching, calls, edits>>

\* (Mutant: the source goes as soon as it has been stored.)
InsertDeleting(i) ==
  LET f == task[i].path[1]
      call == [time |-> task[i].time, seen |-> task[i].seen, blind |-> task[i].blind] IN
  /\ Ready(i, "insert")
  /\ Free(i)
  /\ disk' = [disk EXCEPT ![f].audio = @ /\ ~task[i].delete, ![f].side = @ /\ ~task[i].delete]
  /\ calls' = IF Cancelled(task[i].gen) THEN calls ELSE [calls EXCEPT ![f] = Append(@, call)]
  /\ UNCHANGED <<recorder, row, service, watching, failed, bounds>>

\* The audio is opened, stored and converted, and the row inserted, with the
\* same context; a file removed meanwhile cannot be opened.
Insert(i) ==
  LET f == task[i].path[1]
      call == [time |-> task[i].time, seen |-> task[i].seen, blind |-> task[i].blind] IN
  /\ Ready(i, "insert")
  /\ \/ /\ IF ~Cancelled(task[i].gen) /\ disk[f].audio
             THEN /\ calls' = [calls EXCEPT ![f] = Append(@, call)]
                  /\ IF task[i].delete THEN task' = [task EXCEPT ![i].pc = "delete"] ELSE Free(i)
             ELSE Free(i) /\ UNCHANGED calls
        /\ UNCHANGED <<failed, faults>>
     \/ /\ faults < MaxFaults /\ faults' = faults + 1
        /\ Free(i) /\ failed' = failed \union {f} /\ UNCHANGED calls
  /\ UNCHANGED <<recorder, disk, row, service, watching, edits>>

\* The source goes when the row is there, whatever has become of the context.
Delete(i) ==
  LET f == task[i].path[1] IN
  /\ Ready(i, "delete")
  /\ disk' = [disk EXCEPT ![f].audio = FALSE, ![f].side = @ /\ ~Paired]
  /\ Free(i)
  /\ UNCHANGED <<recorder, row, service, watching, calls, failed, bounds>>

-----------------------------------------------------------------------------
(* The admin, and the reload each change causes.                           *)

\* DirMonitorsCreate, DirMonitorsUpdate and DirMonitorsRestart.
Save(new) ==
  /\ edits < MaxEdits /\ edits' = edits + 1
  /\ new.state \in {"on", "off"} /\ row.state # "deleted"
  /\ new.state = "off" => row # new
  /\ row' = new
  /\ pending' = pending + 1
  /\ UNCHANGED <<recorder, disk, reload, gen, runners, status, watching, task, calls, failed, faults>>

\* The row, then what is shown of it.
DirMonitorsDelete ==
  /\ edits < MaxEdits /\ edits' = edits + 1
  /\ row.state \in {"on", "off"}
  /\ row' = [row EXCEPT !.state = "deleted"]
  /\ status' = "none"
  /\ pending' = pending + 1
  /\ UNCHANGED <<recorder, disk, reload, gen, runners, watching, task, calls, failed, faults>>

\* Reload, when it has reloadMu: cancel, and wait for the watchers.
Stop ==
  /\ pending > 0 /\ reload = "none"
  /\ pending' = pending - 1 /\ reload' = "waiting"
  /\ UNCHANGED <<recorder, disk, row, gen, runners, status, watching, task, calls, failed, bounds>>

\* A watcher between two events, or a poller between two ticks, sees its
\* context done; stopAllTimers stops the timers the map knows.
Exit(r) ==
  /\ r.pc = "on" /\ Cancelled(r.gen)
  /\ runners' = runners \ {r}
  /\ timers' = {t \in timers : ~(t.gen = r.gen /\ t.n = timerOf[t.path] /\ ~t.expired)}
  /\ timerOf' = [p \in Paths |-> 0]
  /\ events' = {}
  /\ status' = "stopped"
  /\ UNCHANGED <<recorder, disk, row, pending, reload, gen, task, calls, failed, bounds>>

\* (Mutant: the new watcher starts beside the old one.)
StartBeside ==
  /\ reload = "waiting" /\ reload' = "none"
  /\ gen' = gen + 1
  /\ runners' = runners \union (IF row.state = "on" THEN {Runner} ELSE {})
  /\ UNCHANGED <<recorder, disk, row, pending, status, watching, task, calls, failed, bounds>>

\* Start: the monitors that are enabled, as their rows are now.
Start ==
  /\ reload = "waiting" /\ runners = {} /\ reload' = "none"
  /\ gen' = gen + 1
  /\ runners' = IF row.state = "on" THEN {Runner} ELSE {}
  /\ UNCHANGED <<recorder, disk, row, pending, status, watching, task, calls, failed, bounds>>

\* The process stops and starts.
Restart ==
  /\ faults < MaxFaults /\ faults' = faults + 1
  /\ pending' = 0 /\ reload' = "none" /\ gen' = gen + 1
  /\ runners' = IF row.state = "on" THEN {Runner} ELSE {}
  /\ events' = {} /\ timers' = {} /\ timerOf' = [p \in Paths |-> 0]
  /\ task' = [i \in 0..Slots |-> NoTask]
  /\ status' = "none"
  /\ failed' = Files
  /\ UNCHANGED <<recorder, disk, row, calls, edits>>

-----------------------------------------------------------------------------

RunnerStep == \E r \in runners :
  \/ Run(r) \/ Scan(r) \/ ScanEnd(r) \/ Exit(r)
  \/ \E p \in Paths : Notice(r, p) \/ ScanEntry(r, p)
TimerStep == \E t \in timers : Expire(t) \/ \E i \in 1..Slots : Callback(t, i)
TaskStep(i) == Parse(i) \/ Check(i) \/ Insert(i) \/ Delete(i)

DNext ==
  \/ \E f \in Files : Write(f) \/ WriteSidecar(f)
  \/ RunnerStep \/ TimerStep
  \/ \E i \in 0..Slots : TaskStep(i)
  \/ \E new \in Rows : Save(new)
  \/ DirMonitorsDelete \/ Stop \/ Start \/ Restart

DSpec == DInit /\ [][DNext]_dvars

\* The goroutines run; the recorder and the admin need not.
DFairSpec ==
  /\ DSpec
  /\ WF_dvars(RunnerStep) /\ WF_dvars(TimerStep)
  /\ \A i \in 0..Slots : WF_dvars(TaskStep(i))
  /\ WF_dvars(Stop) /\ WF_dvars(Start)

-----------------------------------------------------------------------------

DTypeOK ==
  /\ recorder \in Recorders /\ row \in Rows
  /\ disk \in [Files -> [writes : 0..MaxWrites, audio : BOOLEAN, side : BOOLEAN, sided : BOOLEAN]]
  /\ pending \in 0..MaxEdits /\ reload \in {"none", "waiting"}
  /\ \A r \in runners : r.gen \in 1..gen /\ r.pc \in {"start", "on", "scan"}
  /\ events \subseteq Paths /\ timerOf \in [Paths -> Nat] /\ failed \subseteq Files
  /\ \A i \in 0..Slots : task[i].pc \in {"free", "parse", "check", "insert", "delete"}
  /\ status \in {"none", "watching", "polling", "stopped", "failed"}
  /\ edits \in 0..MaxEdits /\ faults \in 0..MaxFaults

\* Between reloads, whatever saves have been waiting for each other: one
\* watcher at most, with the settings of the row; a watcher that is up is shown
\* as what it is, watching or polling, and only then; and an enabled monitor
\* without one is shown as failed (Reload under reloadMu, Stopped of the old
\* watcher before Running of the new).
MonitorIsAsSaved ==
  /\ DTypeOK
  /\ pending = 0 /\ reload = "none" =>
       /\ \A r \in runners : /\ row.state = "on" /\ r.gen = gen
                             /\ r.poll = row.poll /\ r.delete = row.delete
       /\ \A r \in runners : r.pc # "start" => status = Mode(r)
       /\ status \in {"watching", "polling"} => \E r \in runners : r.pc # "start"
       /\ row.state = "on" /\ runners = {} => status = "failed"

\* One recording becomes two calls only if it was written to in between, or
\* two of its files were handled at once, or for the second of them duplicates
\* were not looked for (the settings say so, or the query failed): not by the two
\* events of a recording with a sidecar, nor by the scans of a poller, which
\* start from nothing after each reload and restart.
OneCallEach ==
  \A f \in Files : \A j \in DOMAIN calls[f] : \A i \in 1..j - 1 :
    calls[f][i].time = calls[f][j].time /\ ~calls[f][j].blind => calls[f][j].seen < i

\* A recording is removed from the folder only when it has become a call,
\* though reloads cancel what handles it, queries fail and the process stops.
RemovedIsCalled ==
  \A f \in Files : disk[f].writes > 0 /\ ~disk[f].audio => calls[f] # <<>>

\* A finished recording in a folder that is polled, or whose last event a
\* watcher has yet to read, has become a call or will, unless a query fails or the
\* monitor is stopped first.
Due(f) ==
  /\ Whole(f) /\ reload = "none"
  /\ \E r \in runners : r.pc = "on" /\ (r.poll \/ \E p \in events : p[1] = f)
FinishedAreTaken ==
  \A f \in Files : Due(f) ~> calls[f] # <<>> \/ f \in failed \/ reload # "none"

=============================================================================
