-------------------------- MODULE ConnectionHistory --------------------------
(***************************************************************************)
(* The connection history of internal/connections/history.go: what the     *)
(* registry reports is queued without blocking, and written to the         *)
(* connection_log table by the Run goroutine.  ConnectionLog says what the *)
(* registry reports, in which order; here the process also stops, dies and *)
(* starts again, and the queue is lost with it.                            *)
(*                                                                         *)
(* The retention setting is kept as on or off.  Time enters as the writer's *)
(* copy of it growing a minute old, and as rows growing older than it.     *)
(***************************************************************************)
EXTENDS Integers, Sequences

CONSTANTS
  Conns,
  Reasons,     \* why a connection may end
  QueueSize    \* historyQueue

ASSUME HistoryAssumption ==
  /\ QueueSize \in Nat \ {0}
  /\ Reasons \intersect {"none", "open", "stale", "deleted", "opened"} = {}

VARIABLES
  told,      \* told[c]: what the registry has reported of c, as in ConnectionLog
  process,   \* the server process
  writer,    \* the Run goroutine
  events,    \* History.events
  rows,      \* History.rows: the connections whose row it knows
  table,     \* table[c]: the end of c's row in connection_log; "none" if it has none
  setting,   \* the connectionHistoryDays setting
  days,      \* History.days, and whether it was read at all
  fresh,     \* that copy is at most a minute old
  aged,      \* connections whose row is older than the retention setting
  (* history *)
  missed,    \* connections of which an event was dropped
  orphans,   \* connections that were open when the process went down
  settled    \* the setting has not changed for a minute

memory == <<writer, events, rows, days, fresh>>
ghosts == <<missed, orphans, settled>>
vars   == <<told, process, memory, table, setting, aged, ghosts>>

Source == INSTANCE ConnectionLog WITH log <- told

Event == [conn : Conns, what : {"opened"} \union Reasons]

\* c is connected now.
Connected(c) == told[c] = <<"opened">> /\ c \notin orphans

Init ==
  /\ told = [c \in Conns |-> <<>>]
  /\ process = "down"
  /\ writer = "returned"
  /\ events = <<>>
  /\ rows = {}
  /\ table = [c \in Conns |-> "none"]
  /\ setting \in {"on", "off"}
  /\ days = "unread"
  /\ fresh = FALSE
  /\ aged = {}
  /\ missed = {}
  /\ orphans = {}
  /\ settled = TRUE

-----------------------------------------------------------------------------
(* The registry reports.                                                   *)

\* A full queue drops the event rather than hold up the connection.
Enqueue(c, event) ==
  IF Len(events) < QueueSize
    THEN events' = Append(events, event) /\ UNCHANGED missed
    ELSE missed' = missed \union {c} /\ UNCHANGED events

Opened(c) ==
  /\ process # "down"
  /\ Source!Open(c)
  /\ Enqueue(c, [conn |-> c, what |-> "opened"])
  /\ UNCHANGED <<process, writer, rows, table, setting, days, fresh, aged, orphans, settled>>

Closed(c) == \E r \in Reasons :
  /\ process # "down"
  /\ Connected(c)
  /\ told' = [told EXCEPT ![c] = <<"opened", r>>]
  /\ Enqueue(c, [conn |-> c, what |-> r])
  /\ UNCHANGED <<process, writer, rows, table, setting, days, fresh, aged, orphans, settled>>

-----------------------------------------------------------------------------
(* Run.                                                                    *)

\* (Mutant: the copy is read once and for all.)
EnabledOnce(d) ==
  IF days # "unread"
    THEN d = days /\ UNCHANGED fresh
    ELSE d \in {setting, "default"} /\ fresh' = TRUE

\* enabled: the writer's copy of the setting, read again once it is a minute
\* old.  A failed read counts as the default, which is on.
Enabled(d) ==
  IF days # "unread" /\ fresh
    THEN d = days /\ UNCHANGED fresh
    ELSE d \in {setting, "default"} /\ fresh' = TRUE

\* write, for an open: a row is inserted if history is on, unless that fails.
WriteOpen ==
  LET c == Head(events).conn IN
  /\ writer # "returned" /\ events # <<>> /\ Head(events).what = "opened"
  /\ events' = Tail(events)
  /\ \E d \in {"on", "off", "default"} :
       /\ Enabled(d)
       /\ days' = d
       /\ \/ /\ d # "off"
             /\ table' = [table EXCEPT ![c] = "open"]
             /\ rows' = rows \union {c}
          \/ UNCHANGED <<table, rows>>    \* off, or the insert failed
  /\ UNCHANGED <<told, process, writer, setting, aged, ghosts>>

\* write, for a close.  There may be no row, in memory or any more in the
\* table, and the update may fail.
WriteClose ==
  LET event == Head(events) IN
  /\ writer # "returned" /\ events # <<>> /\ event.what # "opened"
  /\ events' = Tail(events)
  /\ rows' = rows \ {event.conn}
  /\ \/ /\ event.conn \in rows /\ table[event.conn] # "deleted"
        /\ table' = [table EXCEPT ![event.conn] = event.what]
     \/ UNCHANGED table
  /\ UNCHANGED <<told, process, writer, setting, days, fresh, aged, ghosts>>

\* Its context has been cancelled: what is queued is written, and then Run
\* returns.
SeeDone ==
  /\ process = "stopping" /\ writer = "running"
  /\ writer' = "draining"
  /\ UNCHANGED <<told, process, events, rows, table, setting, days, fresh, aged, ghosts>>

Return ==
  /\ writer = "draining" /\ events = <<>>
  /\ writer' = "returned"
  /\ UNCHANGED <<told, process, events, rows, table, setting, days, fresh, aged, ghosts>>

-----------------------------------------------------------------------------
(* The setting, time and Prune.                                            *)

SetDays(s) ==
  /\ setting' = s
  /\ settled' = FALSE
  /\ UNCHANGED <<told, process, memory, table, aged, missed, orphans>>

MinutePasses ==
  /\ fresh' = FALSE
  /\ settled' = TRUE
  /\ UNCHANGED <<told, process, writer, events, rows, table, setting, days, aged, missed, orphans>>

Age(c) ==
  /\ table[c] # "none"
  /\ aged' = aged \union {c}
  /\ UNCHANGED <<told, process, memory, table, setting, ghosts>>

Pruned(t) == [c \in Conns |-> IF c \in aged /\ t[c] # "none" THEN "deleted" ELSE t[c]]

\* (Mutant: the rows that have an end are given a new one.)
SweptAll(t) == [c \in Conns |-> IF t[c] # "none" THEN "stale" ELSE t[c]]

\* CloseStale closes the rows a run left open.  The end it gives them reads
\* "shutdown" in the table; here it is told apart as "stale".
Swept(t) == [c \in Conns |-> IF t[c] = "open" THEN "stale" ELSE t[c]]

\* (Mutant: the hourly clean-up also closes stale rows.)
PruneSweeping ==
  /\ process # "down"
  /\ table' = Pruned(Swept(table))
  /\ UNCHANGED <<told, process, memory, setting, aged, ghosts>>

\* Hourly.  With history off it deletes nothing, but a setting that cannot
\* be read counts as on.
Prune ==
  /\ process # "down"
  /\ table' = Pruned(table)
  /\ UNCHANGED <<told, process, memory, setting, aged, ghosts>>

-----------------------------------------------------------------------------
(* The process.                                                            *)

\* main: CloseStale (which may fail) and Prune, before anything connects;
\* then Run starts.
Boot ==
  /\ process = "down"
  /\ process' = "up"
  /\ writer' = "running"
  /\ table' \in {table, Swept(table), Pruned(table), Pruned(Swept(table))}
  /\ UNCHANGED <<told, events, rows, setting, days, fresh, aged, ghosts>>

\* The context of everything is cancelled; the hub ends its connections
\* while Run drains the queue.
Stop ==
  /\ process = "up"
  /\ process' = "stopping"
  /\ UNCHANGED <<told, memory, table, setting, aged, ghosts>>

\* main returns (it waits neither for Run nor for the hub), or the process
\* is killed.
Down ==
  /\ process # "down"
  /\ process' = "down"
  /\ orphans' = orphans \union {c \in Conns : Connected(c)}
  /\ writer' = "returned"
  /\ events' = <<>>
  /\ rows' = {}
  /\ days' = "unread"
  /\ fresh' = FALSE
  /\ UNCHANGED <<told, table, setting, aged, missed, settled>>

WriterStep == WriteOpen \/ WriteClose \/ SeeDone \/ Return

Next ==
  \/ \E c \in Conns : Opened(c) \/ Closed(c) \/ Age(c)
  \/ WriterStep
  \/ \E s \in {"on", "off"} : SetDays(s)
  \/ MinutePasses
  \/ Prune
  \/ Boot \/ Stop \/ Down

Spec == Init /\ [][Next]_vars

\* Run is a goroutine that always finds its queue or its context ready; a
\* query ends, with or without success.
FairSpec == Spec /\ WF_vars(WriterStep)

-----------------------------------------------------------------------------
TypeOK ==
  /\ told \in [Conns -> {<<>>, <<"opened">>} \union ({"opened"} \X Reasons)]
  /\ process \in {"down", "up", "stopping"}
  /\ writer \in {"running", "draining", "returned"}
  /\ events \in Seq(Event) /\ Len(events) <= QueueSize
  /\ rows \subseteq Conns
  /\ table \in [Conns -> {"none", "open", "stale", "deleted"} \union Reasons]
  /\ setting \in {"on", "off"}
  /\ days \in {"unread", "on", "off", "default"}
  /\ {fresh, settled} \subseteq BOOLEAN
  /\ {aged, missed, orphans} \subseteq SUBSET Conns

Queued(event) == \E i \in 1..Len(events) : events[i] = event

\* The history tells the truth: a row is there only for a connection that
\* opened, gives the reason that connection ended for, and is swept up as
\* stale only when the connection is gone.
RowsTellTheTruth ==
  \A c \in Conns :
    /\ table[c] = "open" => told[c] # <<>>
    /\ table[c] \in Reasons => told[c] = <<"opened", table[c]>>
    /\ table[c] = "stale" => ~Connected(c)

\* c is open, or its end is on its way to the writer, or was dropped.
Followed(c) ==
  Connected(c) \/ c \in missed \/ Queued([conn |-> c, what |-> told[c][2]])

\* The writer's memory does not grow with the connections of the past: it
\* knows the rows of connections that are open, or whose end is queued, or
\* was dropped by a full queue.
RowsAreForgotten == \A c \in rows : Followed(c)

\* An ended row is never written again; it can only be pruned.
EndsAreFinal ==
  [][\A c \in Conns :
       table[c] \notin {"none", "open"} => table'[c] \in {table[c], "deleted"}]_vars

\* Turning history off takes effect within a minute: a row inserted later
\* than that comes from a setting that could not be read.
OffTakesEffect ==
  [][\A c \in Conns :
       table[c] = "none" /\ table'[c] = "open" /\ settled /\ setting = "off" => days' = "default"]_vars

\* What is queued is dealt with: the end of a connection that was queued
\* while Run was there is taken off the queue by it sooner or later.
EndsAreWritten ==
  \A c \in Conns, r \in Reasons :
    Queued([conn |-> c, what |-> r]) ~>
      (c \notin rows \/ writer = "returned")

\* The writer keeps up with the setting and with its queue.
WriterKeepsUp == OffTakesEffect /\ EndsAreWritten

-----------------------------------------------------------------------------
(* What makes the above inductive.                                         *)

\* The queue holds what was told of each connection since the process came
\* up, in that order, and an open not yet written has no row.
EventIsTrue(event) ==
  LET c == event.conn IN
  /\ c \notin orphans
  /\ event.what = "opened" => table[c] = "none" /\ c \notin rows /\ told[c] # <<>> /\ Followed(c)
  /\ event.what # "opened" => told[c] = <<"opened", event.what>>

QueueTellsTheTruth == \A event \in Event : Queued(event) => EventIsTrue(event)

QueueIsInOrder ==
  \A i, j \in 1..Len(events) :
    i < j /\ events[i].conn = events[j].conn => events[i].what = "opened" /\ events[j].what # "opened"

RowsAreOpen ==
  \A c \in rows : c \notin orphans /\ told[c] # <<>> /\ table[c] \in {"open", "deleted"}

DownIsEmpty == process = "down" => events = <<>> /\ rows = {} /\ \A c \in Conns : ~Connected(c)

UntoldIsUnknown == \A c \in Conns : told[c] = <<>> => table[c] = "none" /\ c \notin orphans

\* What the rows, the queue and the writer's memory say of a connection agrees
\* with what became of it, over crashes, restarts, dropped events and prunes.
HistoryInv ==
  /\ TypeOK /\ QueueTellsTheTruth /\ QueueIsInOrder /\ RowsAreOpen /\ DownIsEmpty
  /\ UntoldIsUnknown /\ RowsTellTheTruth /\ RowsAreForgotten
=============================================================================
