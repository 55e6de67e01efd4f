------------------------------ MODULE Catalog ------------------------------
(***************************************************************************)
(* Systems, talkgroups, units, groups and tags, and everyone who changes   *)
(* them at once: the admin's operations (internal/admin), the imports, the *)
(* uploads that add what they do not find (handler/calls, dirmonitor) and  *)
(* the restore of a backup (module Restore).  Each is a request that reads *)
(* and writes the tables in several statements, none of them but the       *)
(* restore in a transaction, and then sends the new configuration to the   *)
(* listeners (Hub.BroadcastCFG): through the hub's channel to those who    *)
(* may hear everything, and straight to each of the others.                *)
(*                                                                         *)
(* A request that a check refuses at its start changes nothing and is not  *)
(* a step.                                                                 *)
(***************************************************************************)
EXTENDS Restore

CONSTANTS Requests,     \* concurrent requests
          Asks,         \* what they may ask, records with a field op
          Listeners,    \* connections of listeners
          Grants,       \* what each may hear: {AllSystems} or primary keys of systems
          FirstDb,      \* the database at the start
          Loads,        \* bound: the listeners connected then, and requests to come
          QueueCap,     \* room in the hub's broadcast channel
          MaxFaults     \* bound: failures and full buffers

-----------------------------------------------------------------------------
(* What the schema keeps in every database: a column for each value, keys  *)
(* below the sequence, one row for each natural key, references that lead  *)
(* somewhere.                                                              *)

Columns(t) ==
  CASE t = "systems" -> {"num", "label", "auto", "blocked"}
    [] t = "talkgroups" -> {"sys", "num", "label", "group", "tag"}
    [] t = "units" -> {"sys", "num", "label"}
    [] OTHER -> {"label"}

Database(d) ==
  /\ DOMAIN d = Tables \union {"seq"} /\ DOMAIN d.seq = IdTables
  /\ \A t \in IdTables :
       /\ d.seq[t] \in Nat /\ DOMAIN d[t] \subseteq 1..d.seq[t]
       /\ \A i \in DOMAIN d[t] : DOMAIN d[t][i] = Columns(t)
  /\ \A m \in DOMAIN d.monitors : DOMAIN d.monitors[m] = {"sys", "tg"}
  /\ \A t \in Tables \ IdTables : IsFiniteSet(DOMAIN d[t])

LabelsIn(d, row) == row.group \in DOMAIN d.groups \union {NoId} /\ row.tag \in DOMAIN d.tags \union {NoId}

References(d, t, row) ==
  /\ t \in {"talkgroups", "units"} => row.sys \in DOMAIN d.systems
  /\ t = "talkgroups" => LabelsIn(d, row)

Schema(d) ==
  /\ Database(d)
  /\ \A t \in IdTables : \A i \in DOMAIN d[t] : Matches(d, t, d[t][i]) = {i} /\ References(d, t, d[t][i])
  /\ \A m \in DOMAIN d.monitors :
       /\ d.monitors[m].sys \in DOMAIN d.systems \union {NoId}
       /\ d.monitors[m].tg \in DOMAIN d.talkgroups \union {NoId}

TalkgroupImports == {"TalkgroupsImport", "RadioReferenceApply", "ImportTalkgroups"}
UnitImports == {"UnitsImport", "ImportUnits"}

\* What is asked for is well-formed, and a list of rows has some; a file need
\* not be as the schema wants.
WellFormed(a) ==
  /\ a.op \in {"SystemsCreate", "SystemsUpdate"} => DOMAIN a.row = Columns("systems")
  /\ a.op \in {"TalkgroupsCreate", "TalkgroupsUpdate"} => DOMAIN a.row = Columns("talkgroups")
  /\ a.op \in {"UnitsCreate", "UnitsUpdate"} => DOMAIN a.row = Columns("units")
  /\ a.op \in {"LabelsCreate", "LabelsUpdate", "LabelsDelete", "LabelsImport", "ImportLabels"} => a.kind \in Kinds
  /\ a.op = "TalkgroupsDelete" => a.ids \in Seq(Int) /\ a.ids # <<>>
  /\ a.op \in TalkgroupImports =>
       /\ a.mode \in {"fill", "overwrite"} /\ a.rows # <<>>
       /\ a.rows \in Seq([num : Int, label : STRING, group : STRING, tag : STRING])
  /\ a.op = "ImportConfig" => Database(a.file.db)

\* A file that is a backup of some database: it has no rows of the tables it
\* does not carry, one row for each natural key, and, if it lists systems, the
\* talkgroup of each folder monitor is in one of them.
Backup(f) ==
  /\ Database(f.db) /\ \A t \in Tables \ f.has : DOMAIN f.db[t] = {}
  /\ \A t \in IdTables : \A i, j \in DOMAIN f.db[t] : UniqueKey(t, f.db[t][i]) = UniqueKey(t, f.db[t][j]) => i = j
  /\ "systems" \in f.has =>
       \A m \in DOMAIN f.db.monitors : LET tg == f.db.monitors[m].tg IN
         tg \in DOMAIN f.db.talkgroups => f.db.talkgroups[tg].sys \in DOMAIN f.db.systems
FilesAreBackups == \A a \in Asks : a.op = "ImportConfig" => Backup(a.file)

ASSUME CatalogAssumption ==
  /\ IsFiniteSet(Listeners) /\ QueueCap \in Nat /\ MaxFaults \in Nat
  /\ Schema(FirstDb) /\ \A a \in Asks : WellFormed(a)
  /\ \A load \in Loads : load.work \in Nat /\ load.connected \subseteq Listeners

VARIABLES db,           \* the tables
          requests,     \* the requests being served
          channel,      \* Hub.broadcast, configuration frames only
          listeners,    \* the listeners' connections
          snapshot,     \* the latest backup taken before a restore
          work,         \* requests to come
          faults

vars == <<db, requests, channel, listeners, snapshot, work, faults>>

-----------------------------------------------------------------------------
(* The configuration a listener is sent.                                   *)

Hears(grants, s) == grants = {AllSystems} \/ s \in grants

buildCFGPayload(d, grants) ==
  LET entry(g) == <<d.talkgroups[g].num, d.talkgroups[g].label,
                    LabelText(d, "groups", d.talkgroups[g].group), LabelText(d, "tags", d.talkgroups[g].tag)>>
  IN  {<<s, d.systems[s].num, d.systems[s].label, {entry(g) : g \in TalkgroupsOf(d, {s})}>> :
         s \in {x \in DOMAIN d.systems : Hears(grants, x)}}

Restricted == {l \in Listeners : Grants[l] # {AllSystems}}
Config(l) == buildCFGPayload(db, Grants[l])

-----------------------------------------------------------------------------
(* A request: what it was asked and where it is; what it read at its start *)
(* and about the row in hand; the rows left; the labels it knows of; the   *)
(* frames it built and where the broadcast returns to; and, for the        *)
(* properties, whether it changed what listeners see without having told   *)
(* them, and the facts others wrote while it ran.                          *)

Opened(a, pc) ==
  [ask |-> a, pc |-> pc, read |-> <<>>, found |-> {}, left |-> <<>>, known |-> <<>>,
   frames |-> <<>>, after |-> "done", untold |-> FALSE, missed |-> {}]
Idle == Opened([op |-> "none"], "idle")

At(r, op, pc) == requests[r].pc = pc /\ requests[r].ask.op = op
AtOneOf(r, ops, pc) == requests[r].pc = pc /\ requests[r].ask.op \in ops
Become(r, q) == requests' = [requests EXCEPT ![r] = q]
Rest == <<channel, listeners, snapshot, work, faults>>

\* What an admin would miss if it went: a talkgroup's label and what it is the
\* label of, a blocked number.
LabelFact(g, tg) == <<"label", g, tg.sys, tg.num, tg.label>>
Facts(d) ==
  {LabelFact(g, d.talkgroups[g]) : g \in {x \in DOMAIN d.talkgroups : d.talkgroups[x].label # ""}}
    \union UNION {{<<"block", s, n>> : n \in d.systems[s].blocked} : s \in DOMAIN d.systems}

\* A statement that changes the tables to d; q is the request after it.
Write(r, d, q) ==
  LET everything(x) == buildCFGPayload(x, {AllSystems}) IN
  /\ db' = d
  /\ requests' = [x \in Requests |->
       IF requests[x].pc = "idle" \/ (x = r /\ q = Idle) THEN Idle
       ELSE IF x = r THEN [q EXCEPT !.untold = @ \/ everything(d) # everything(db)]
       ELSE [requests[x] EXCEPT !.missed = @ \union (Facts(d) \ Facts(db))]]

\* Who is still to be told of what the request changed.
Uninformed(q) ==
  IF ~q.untold THEN {} ELSE IF q.pc \in {"scoped", "deliver"} THEN q.found ELSE Listeners
Excuse(ls) == listeners' = [l \in Listeners |->
  IF l \in ls THEN [listeners[l] EXCEPT !.excuse = TRUE] ELSE listeners[l]]

\* The request returns, whether it answers or fails; d is what its last
\* statement made of the tables.
Stop(r, d) ==
  /\ Write(r, d, Idle)
  /\ Excuse(Uninformed(requests[r]))
  /\ UNCHANGED <<channel, snapshot, work, faults>>
Return(r) == Stop(r, db)

Exists(t, id) == id \in DOMAIN db[t]

\* Whether the schema lets row be inserted (id = NoId) or written over row id,
\* and the tables then.  An update of a row that is gone changes nothing.
Allowed(d, t, id, row) ==
  id \in DOMAIN d[t] \union {NoId} => Matches(d, t, row) \subseteq {id} /\ References(d, t, row)
Put(d, t, id, row) ==
  IF id = NoId THEN Insert(d, t, row) ELSE IF id \in DOMAIN d[t] THEN [d EXCEPT ![t][id] = row] ELSE d

-----------------------------------------------------------------------------
(* Beginning: the checks that refuse a request, and what it reads.         *)

Numbered(n) == {s \in DOMAIN db.systems : db.systems[s].num = n}

Accepted(a) ==
  CASE a.op \in {"SystemsUpdate", "SystemsDelete", "SystemsBlock", "SystemsUnblock"} -> Exists("systems", a.id)
    [] a.op = "TalkgroupsCreate" -> Exists("systems", a.row.sys) /\ LabelsIn(db, a.row)
    [] a.op = "TalkgroupsUpdate" -> Exists("talkgroups", a.id) /\ LabelsIn(db, a.row)
    [] a.op = "TalkgroupsBulk" -> a.group \in DOMAIN db.groups \union {NoId}
    [] a.op \in {"UnitsUpdate", "UnitsDelete"} -> Exists("units", a.id)
    [] a.op = "LabelsUpdate" -> Exists(a.kind, a.id)
    [] a.op = "LabelsDelete" -> Exists(a.kind, a.id) /\ (UsersOf(db, a.kind, {a.id}) # {} => a.reassign)
    [] a.op \in TalkgroupImports \union UnitImports -> Exists("systems", a.sys)
    [] a.op = "Undo" -> snapshot.has # {}
    [] a.op = "Upload" -> \A s \in Numbered(a.num) : a.row.num \notin db.systems[s].blocked
    [] OTHER -> TRUE

\* The snapshot, as whoever asks restores it.
OfSnapshot(spared) == [mode |-> snapshot.mode, has |-> snapshot.has, db |-> snapshot.db, spared |-> spared]

First(a) ==
  CASE a.op \in {"SystemsBlock", "SystemsUnblock"} -> [Opened(a, "write") EXCEPT !.read = db.systems[a.id].blocked]
    [] a.op = "LabelsDelete" -> Opened(a, IF UsersOf(db, a.kind, {a.id}) = {} THEN "write" ELSE "move")
    [] a.op \in {"TalkgroupsDelete", "TalkgroupsBulk"} -> [Opened(a, "rows") EXCEPT !.left = a.ids]
    [] a.op = "LabelsImport" ->
         [Opened(a, "rows") EXCEPT !.left = a.labels, !.read = {db[a.kind][i].label : i \in DOMAIN db[a.kind]}]
    [] a.op = "ImportLabels" -> [Opened(a, "rows") EXCEPT !.left = a.labels]
    [] a.op \in TalkgroupImports \union UnitImports ->
         [Opened(a, "rows") EXCEPT !.left = a.rows, !.known = [k \in Kinds |-> db[k]]]
    [] a.op = "ImportConfig" -> [Opened(a, "save") EXCEPT !.read = a.file]
    [] a.op = "Undo" -> [Opened(a, "save") EXCEPT !.read = OfSnapshot(a.spared)]
    [] a.op = "Upload" ->
         IF Numbered(a.num) = {} THEN Opened(a, "newSystem")
         ELSE LET s == CHOOSE x \in Numbered(a.num) : TRUE
              IN  [Opened(a, "find") EXCEPT !.read = [sys |-> s, auto |-> db.systems[s].auto]]
    [] OTHER -> Opened(a, "write")

Begin(r, a) ==
  /\ requests[r].pc = "idle" /\ work > 0 /\ Accepted(a)
  /\ work' = work - 1
  /\ Become(r, First(a))
  /\ UNCHANGED <<db, channel, listeners, snapshot, faults>>

\* Inserts or updates one row, if the schema allows it; the row is then read
\* back.
Save(r, t, id, row) ==
  IF ~Allowed(db, t, id, row) THEN Return(r)
  ELSE /\ Write(r, Put(db, t, id, row),
                [requests[r] EXCEPT !.pc = "fetch", !.read = <<t, IF id = NoId THEN db.seq[t] + 1 ELSE id>>])
       /\ UNCHANGED Rest

\* A row that is gone by then fails the request; units are no part of what
\* listeners are sent.
Refetch(r) ==
  LET q == requests[r] IN
  /\ q.pc = "fetch"
  /\ IF Exists(q.read[1], q.read[2]) /\ q.read[1] # "units"
     THEN Become(r, [q EXCEPT !.pc = "cfg"]) /\ UNCHANGED db /\ UNCHANGED Rest
     ELSE Return(r)

-----------------------------------------------------------------------------
(* Systems.                                                                *)

SystemsCreate(r) ==
  At(r, "SystemsCreate", "write") /\ Save(r, "systems", NoId, requests[r].ask.row)

SystemsUpdate(r) ==
  At(r, "SystemsUpdate", "write") /\ LET a == requests[r].ask IN Save(r, "systems", a.id, a.row)

\* A folder monitor that points at the system, or at one of its talkgroups,
\* makes the delete fail.
SystemsDelete(r) ==
  LET s == requests[r].ask.id IN
  /\ At(r, "SystemsDelete", "write")
  /\ IF Exists("systems", s) /\ ~MayDropSystems(db, {s}) THEN Return(r)
     ELSE Write(r, DropSystems(db, {s}), [requests[r] EXCEPT !.pc = "cfg"]) /\ UNCHANGED Rest

\* The whole list is written, as it was read at the start with the one number
\* put in or taken out.
setBlocked(r) ==
  LET q == requests[r]
      s == q.ask.id
      next == IF q.ask.op = "SystemsBlock" THEN q.read \union {q.ask.num} ELSE q.read \ {q.ask.num}
  IN
  /\ AtOneOf(r, {"SystemsBlock", "SystemsUnblock"}, "write")
  /\ Stop(r, IF Exists("systems", s) THEN [db EXCEPT !.systems[s].blocked = next] ELSE db)

-----------------------------------------------------------------------------
(* Talkgroups.                                                             *)

TalkgroupsCreate(r) ==
  At(r, "TalkgroupsCreate", "write") /\ Save(r, "talkgroups", NoId, requests[r].ask.row)

\* An update leaves a talkgroup, or a unit, in its system.
InItsSystem(t, id, row) == IF Exists(t, id) THEN [row EXCEPT !.sys = db[t][id].sys] ELSE row

TalkgroupsUpdate(r) ==
  /\ At(r, "TalkgroupsUpdate", "write")
  /\ LET a == requests[r].ask IN Save(r, "talkgroups", a.id, InItsSystem("talkgroups", a.id, a.row))

NextOr(q, pc) == [q EXCEPT !.left = Tail(@), !.pc = IF Len(q.left) > 1 THEN "rows" ELSE pc]

\* One talkgroup after the other; one that a monitor points at ends the
\* request where it stands, and so does one that is gone if it is the only one.
TalkgroupsDelete(r) ==
  LET q == requests[r] g == Head(q.left) IN
  /\ At(r, "TalkgroupsDelete", "rows")
  /\ IF IF Exists("talkgroups", g) THEN Monitored(db, "talkgroups", g) ELSE Len(q.ask.ids) = 1
     THEN Return(r)
     ELSE Write(r, Drop(db, "talkgroups", {g}), NextOr(q, "cfg")) /\ UNCHANGED Rest

TalkgroupsBulk(r) ==
  LET q == requests[r]
      g == Head(q.left)
      row == [db.talkgroups[g] EXCEPT !.group = q.ask.group]
  IN
  /\ At(r, "TalkgroupsBulk", "rows")
  /\ IF Exists("talkgroups", g) /\ ~Allowed(db, "talkgroups", g, row) THEN Return(r)
     ELSE /\ Write(r, IF Exists("talkgroups", g) THEN Put(db, "talkgroups", g, row) ELSE db, NextOr(q, "cfg"))
          /\ UNCHANGED Rest

-----------------------------------------------------------------------------
(* Groups and tags, which differ in nothing but the column talkgroups keep *)
(* them in.                                                                *)

LabelsCreate(r) ==
  At(r, "LabelsCreate", "write") /\ LET a == requests[r].ask IN Save(r, a.kind, NoId, [label |-> a.label])

LabelsUpdate(r) ==
  At(r, "LabelsUpdate", "write") /\ LET a == requests[r].ask IN Save(r, a.kind, a.id, [label |-> a.label])

\* The talkgroups move first, if the count found any; where to is looked up
\* only then.
MoveBeforeDelete(r) ==
  LET q == requests[r] a == q.ask IN
  /\ At(r, "LabelsDelete", "move")
  /\ IF a.to # NoId /\ (a.to = a.id \/ ~Exists(a.kind, a.to)) THEN Return(r)
     ELSE Write(r, MoveTalkgroups(db, a.kind, {a.id}, a.to), [q EXCEPT !.pc = "write"]) /\ UNCHANGED Rest

\* A talkgroup that came to use the label since makes the delete fail.
LabelsDelete(r) ==
  LET q == requests[r] a == q.ask IN
  /\ At(r, "LabelsDelete", "write")
  /\ IF UsersOf(db, a.kind, {a.id}) # {} THEN Return(r)
     ELSE Write(r, Drop(db, a.kind, {a.id}), [q EXCEPT !.pc = "cfg"]) /\ UNCHANGED Rest

-----------------------------------------------------------------------------
(* Units.                                                                  *)

UnitsCreate(r) ==
  At(r, "UnitsCreate", "write") /\ Save(r, "units", NoId, requests[r].ask.row)

UnitsUpdate(r) ==
  /\ At(r, "UnitsUpdate", "write")
  /\ LET a == requests[r].ask IN Save(r, "units", a.id, InItsSystem("units", a.id, a.row))

UnitsDelete(r) ==
  At(r, "UnitsDelete", "write") /\ Stop(r, Drop(db, "units", {requests[r].ask.id}))

-----------------------------------------------------------------------------
(* Imports, row by row and without a transaction.                          *)

\* A label by its name, created when there is none: the tables after, and the
\* primary key.  "" names no label.
Resolve(d, kind, label) ==
  LET row == [label |-> label] IN
  IF label = "" THEN [db |-> d, id |-> NoId]
  ELSE IF Matches(d, kind, row) # {} THEN [db |-> d, id |-> IdOf(d, kind, row)]
  ELSE [db |-> Insert(d, kind, row), id |-> d.seq[kind] + 1]

\* Both labels of a row of a file.
ResolveBoth(d, group, tag) ==
  LET g == Resolve(d, "groups", group) t == Resolve(g.db, "tags", tag)
  IN  [db |-> t.db, group |-> g.id, tag |-> t.id]

\* The wizard looks labels up in the lists it read at the start, to which it
\* adds what it creates; a name that someone else created since fails it.
groupFor(w, kind, label) ==
  LET has == {i \in DOMAIN w.known[kind] : w.known[kind][i].label = label}
      id == w.db.seq[kind] + 1
  IN  IF label = "" THEN w
      ELSE IF has # {} THEN [w EXCEPT ![LabelColumn(kind)] = CHOOSE i \in has : TRUE]
      ELSE IF Matches(w.db, kind, [label |-> label]) # {} THEN [w EXCEPT !.ok = FALSE]
      ELSE [w EXCEPT !.db = Insert(@, kind, [label |-> label]), ![LabelColumn(kind)] = id,
                     !.known[kind] = [i \in DOMAIN @ \union {id} |-> IF i = id THEN [label |-> label] ELSE @[i]]]

\* Mutant: what the other side names always wins.
TakeTheNew(old, new, blank, overwrite) == IF new # blank THEN new ELSE old

\* Fill takes from the file what a row lacks, Overwrite all the file has;
\* neither clears a field the file leaves blank.
Pick(old, new, blank, overwrite) == IF new # blank /\ (overwrite \/ old = blank) THEN new ELSE old

\* Reads what the next row of the file matches: its primary key and the row.
FindRow(r) ==
  LET q == requests[r]
      t == IF q.ask.op \in UnitImports THEN "units" ELSE "talkgroups"
  IN
  /\ AtOneOf(r, TalkgroupImports \union UnitImports, "rows")
  /\ Become(r, [q EXCEPT !.pc = "row", !.found =
       {<<i, db[t][i]>> : i \in Matches(db, t, [sys |-> q.ask.sys, num |-> Head(q.left).num])}])
  /\ UNCHANGED db /\ UNCHANGED Rest

FoundId(q) == IF q.found = {} THEN NoId ELSE (CHOOSE p \in q.found : TRUE)[1]
NewTalkgroup(sys, num) == [sys |-> sys, num |-> num, label |-> "", group |-> NoId, tag |-> NoId]
FoundRow(q, new) == IF q.found = {} THEN new ELSE (CHOOSE p \in q.found : TRUE)[2]

\* The wizard.  A row it found is written whole, as it was read with the
\* file's fields put in, unless that changes nothing.
TalkgroupsImport(r) ==
  LET q == requests[r]
      row == Head(q.left)
      over == q.ask.mode = "overwrite"
      old == FoundRow(q, NewTalkgroup(q.ask.sys, row.num))
      label(x, k) == IF x.ok /\ (over \/ old[LabelColumn(k)] = NoId) THEN groupFor(x, k, row[LabelColumn(k)]) ELSE x
      start == [db |-> db, known |-> q.known, group |-> NoId, tag |-> NoId, ok |-> TRUE]
      w == label(label(start, "groups"), "tags")
      next == [old EXCEPT !.label = Pick(@, row.label, "", over), !.group = Pick(@, w.group, NoId, over),
                          !.tag = Pick(@, w.tag, NoId, over)]
      same == q.found # {} /\ next = old
  IN
  /\ At(r, "TalkgroupsImport", "row")
  /\ IF ~w.ok \/ (~same /\ ~Allowed(w.db, "talkgroups", FoundId(q), next)) THEN Stop(r, w.db)
     ELSE /\ Write(r, IF same THEN w.db ELSE Put(w.db, "talkgroups", FoundId(q), next),
                   [NextOr(q, "cfg") EXCEPT !.known = w.known])
          /\ UNCHANGED Rest

\* Radio Reference only completes talkgroups that exist, skips a row that
\* fails or has nothing to say, and tells no one.
RadioReferenceApply(r) ==
  LET q == requests[r]
      row == Head(q.left)
      old == FoundRow(q, NewTalkgroup(q.ask.sys, row.num))
      offer(f, blank) == IF q.found # {} /\ (q.ask.mode = "overwrite" \/ old[f] = blank) THEN row[f] ELSE ""
      w == ResolveBoth(db, offer("group", NoId), offer("tag", NoId))
      next == [old EXCEPT !.label = Pick(@, offer("label", ""), "", TRUE), !.group = Pick(@, w.group, NoId, TRUE),
                          !.tag = Pick(@, w.tag, NoId, TRUE)]
      skip == offer("label", "") = "" /\ w.group = NoId /\ w.tag = NoId
      d == IF skip \/ ~Allowed(w.db, "talkgroups", FoundId(q), next) THEN w.db
           ELSE Put(w.db, "talkgroups", FoundId(q), next)
  IN
  /\ At(r, "RadioReferenceApply", "row")
  /\ Write(r, d, NextOr(q, "silent")) /\ UNCHANGED Rest

\* The import of the REST surface writes the file's row over all columns, the
\* blank ones included, or skips a talkgroup that is there; it tells no one
\* either.
ImportTalkgroups(r) ==
  LET q == requests[r]
      row == Head(q.left)
      skip == q.found # {} /\ q.ask.mode = "fill"
      w == IF skip THEN [db |-> db, group |-> NoId, tag |-> NoId] ELSE ResolveBoth(db, row.group, row.tag)
      next == [sys |-> q.ask.sys, num |-> row.num, label |-> row.label, group |-> w.group, tag |-> w.tag]
      there == Matches(db, "talkgroups", next)
      id == IF there = {} THEN NoId ELSE IdOf(db, "talkgroups", next)
  IN
  /\ At(r, "ImportTalkgroups", "row")
  /\ IF ~skip /\ ~Allowed(w.db, "talkgroups", id, next) THEN Stop(r, w.db)
     ELSE Write(r, IF skip THEN db ELSE Put(w.db, "talkgroups", id, next), NextOr(q, "silent")) /\ UNCHANGED Rest

\* Units: the wizard fills or overwrites the row it read.
UnitsImport(r) ==
  LET q == requests[r]
      row == Head(q.left)
      old == FoundRow(q, [sys |-> q.ask.sys, num |-> row.num, label |-> ""])
      next == [old EXCEPT !.label = Pick(@, row.label, "", q.ask.mode = "overwrite")]
      same == q.found # {} /\ next = old
  IN
  /\ At(r, "UnitsImport", "row")
  /\ IF ~same /\ ~Allowed(db, "units", FoundId(q), next) THEN Return(r)
     ELSE /\ Write(r, IF same THEN db ELSE Put(db, "units", FoundId(q), next), NextOr(q, "silent"))
          /\ UNCHANGED Rest

\* The REST import puts the label in whatever is there now.
ImportUnits(r) ==
  LET q == requests[r]
      row == [sys |-> q.ask.sys, num |-> Head(q.left).num, label |-> Head(q.left).label]
      there == Matches(db, "units", row)
      id == IF there = {} THEN NoId ELSE IdOf(db, "units", row)
      next == IF there # {} /\ row.label = "" THEN db.units[id] ELSE row
      skip == q.found # {} /\ q.ask.mode = "fill"
  IN
  /\ At(r, "ImportUnits", "row")
  /\ IF ~skip /\ ~Allowed(db, "units", id, next) THEN Return(r)
     ELSE Write(r, IF skip THEN db ELSE Put(db, "units", id, next), NextOr(q, "silent")) /\ UNCHANGED Rest

\* Labels that were not there at the start are created; one that is by now
\* ends the import.
labelsImport(r) ==
  LET q == requests[r] label == Head(q.left) kind == q.ask.kind row == [label |-> label] IN
  /\ At(r, "LabelsImport", "rows")
  /\ IF label \notin q.read /\ Matches(db, kind, row) # {} THEN Return(r)
     ELSE /\ Write(r, IF label \in q.read THEN db ELSE Insert(db, kind, row),
                   [NextOr(q, "silent") EXCEPT !.read = @ \union {label}])
          /\ UNCHANGED Rest

\* The REST import looks each label up as it comes to it.
importLabelOnly(r) ==
  LET q == requests[r] row == [label |-> Head(q.left)] IN
  /\ At(r, "ImportLabels", "rows")
  /\ Write(r, IF Matches(db, q.ask.kind, row) # {} THEN db ELSE Insert(db, q.ask.kind, row), NextOr(q, "silent"))
  /\ UNCHANGED Rest

\* An import that sends no configuration ends here.
EndImport(r) == requests[r].pc = "silent" /\ Return(r)

-----------------------------------------------------------------------------
(* An upload, up to its talkgroup: what it does not find it adds, and what *)
(* the talkgroup lacks it fills in.  Module Ingest goes on from there.     *)

NewSystem(r) ==
  LET q == requests[r] row == [num |-> q.ask.num, label |-> q.ask.system, auto |-> TRUE, blocked |-> {}] IN
  /\ At(r, "Upload", "newSystem")
  /\ IF ~Allowed(db, "systems", NoId, row) THEN Return(r)
     ELSE /\ Write(r, Insert(db, "systems", row),
                   [q EXCEPT !.pc = "cfg", !.after = "find", !.read = [sys |-> db.seq.systems + 1, auto |-> TRUE]])
          /\ UNCHANGED Rest

needsBackfill(tg, row) ==
  \/ tg.label = "" /\ row.label # ""
  \/ tg.group = NoId /\ row.group # ""
  \/ tg.tag = NoId /\ row.tag # ""

FindTalkgroup(r) ==
  LET q == requests[r]
      row == q.ask.row
      match == Matches(db, "talkgroups", [sys |-> q.read.sys, num |-> row.num])
  IN
  /\ At(r, "Upload", "find")
  /\ IF IF match = {} THEN ~q.read.auto ELSE \A g \in match : ~needsBackfill(db.talkgroups[g], row)
     THEN Return(r)
     ELSE /\ Become(r, [q EXCEPT !.pc = "resolve", !.found = {<<g, db.talkgroups[g]>> : g \in match}])
          /\ UNCHANGED db /\ UNCHANGED Rest

\* The labels of the upload, looked up or created where the row has none.
ResolveLabels(r) ==
  LET q == requests[r]
      old == FoundRow(q, NewTalkgroup(q.read.sys, q.ask.row.num))
      w == ResolveBoth(db, IF old.group = NoId THEN q.ask.row.group ELSE "", IF old.tag = NoId THEN q.ask.row.tag ELSE "")
  IN
  /\ At(r, "Upload", "resolve")
  /\ Write(r, w.db, [q EXCEPT !.pc = "save", !.known = <<w.group, w.tag>>]) /\ UNCHANGED Rest

\* The row is written whole: a new one, or the one that was read with its
\* blanks filled.
Backfilled(q) ==
  LET old == FoundRow(q, NewTalkgroup(q.read.sys, q.ask.row.num))
  IN  [old EXCEPT !.label = Pick(@, q.ask.row.label, "", FALSE), !.group = Pick(@, q.known[1], NoId, FALSE),
                  !.tag = Pick(@, q.known[2], NoId, FALSE)]

SaveTalkgroup(r) ==
  LET q == requests[r] row == Backfilled(q) IN
  /\ At(r, "Upload", "save")
  /\ IF ~Allowed(db, "talkgroups", FoundId(q), row) THEN Return(r)
     ELSE /\ Write(r, Put(db, "talkgroups", FoundId(q), row), [q EXCEPT !.pc = "cfg", !.after = "done"])
          /\ UNCHANGED Rest

-----------------------------------------------------------------------------
(* Restoring a backup: the configuration as it is goes to a file first,    *)
(* then the transaction runs.                                              *)

writePreRestoreSnapshot(r) ==
  /\ AtOneOf(r, {"ImportConfig", "Undo"}, "save")
  /\ snapshot' = exportConfigData(db)
  /\ Become(r, [requests[r] EXCEPT !.pc = "restore"])
  /\ UNCHANGED <<db, channel, listeners, work, faults>>

RestoreBackup(r) ==
  LET q == requests[r] out == ImportConfig(db, q.read) IN
  /\ AtOneOf(r, {"ImportConfig", "Undo"}, "restore")
  /\ IF ~out.ok THEN Return(r) ELSE Write(r, out.db, [q EXCEPT !.pc = "cfg"]) /\ UNCHANGED Rest

-----------------------------------------------------------------------------
(* Hub.BroadcastCFG, in the request that calls it.                         *)

Build(r) ==
  /\ requests[r].pc = "cfg"
  /\ Become(r, [requests[r] EXCEPT !.pc = "send", !.frames = buildCFGPayload(db, {AllSystems})])
  /\ UNCHANGED db /\ UNCHANGED Rest

\* Mutant: the listeners with restricted grants are left out.
SendToUnrestricted(r) ==
  /\ requests[r].pc = "send"
  /\ IF Len(channel) < QueueCap
     THEN channel' = Append(channel, requests[r].frames) /\ UNCHANGED listeners
     ELSE Excuse(Listeners \ Restricted) /\ UNCHANGED channel
  /\ Become(r, [requests[r] EXCEPT !.pc = "scoped", !.frames = <<>>, !.found = {}])
  /\ UNCHANGED <<db, snapshot, work, faults>>

\* Into the channel if it has room.
Send(r) ==
  /\ requests[r].pc = "send"
  /\ IF Len(channel) < QueueCap
     THEN channel' = Append(channel, requests[r].frames) /\ UNCHANGED listeners
     ELSE Excuse(Listeners \ Restricted) /\ UNCHANGED channel
  /\ Become(r, [requests[r] EXCEPT !.pc = "scoped", !.frames = <<>>,
                  !.found = {l \in Restricted : listeners[l].at = "in"}])
  /\ UNCHANGED <<db, snapshot, work, faults>>

\* One frame for each set of grants among the restricted listeners that were
\* connected.
BuildScoped(r) ==
  LET q == requests[r] IN
  /\ q.pc = "scoped"
  /\ Become(r, [q EXCEPT !.pc = "deliver", !.frames = [l \in q.found |-> Config(l)]])
  /\ UNCHANGED db /\ UNCHANGED Rest

\* Client.trySend: a full buffer loses the frame.  One that comes when the
\* tables have changed again is an excuse, unless a request other than by is
\* still going to send a newer one.
TrySend(frames, lost, by) ==
  LET told(l) == \A r \in Requests \ by : requests[r].pc # "idle" => l \notin Uninformed(requests[r]) IN
  /\ faults + Cardinality(lost) <= MaxFaults
  /\ faults' = faults + Cardinality(lost)
  /\ listeners' = [l \in Listeners |->
       IF l \notin DOMAIN frames THEN listeners[l]
       ELSE IF l \in lost THEN [listeners[l] EXCEPT !.excuse = TRUE]
       ELSE [listeners[l] EXCEPT !.seen = frames[l], !.excuse = frames[l] # Config(l) /\ told(l)]]

Deliver(r) ==
  LET q == requests[r] IN
  /\ q.pc = "deliver"
  /\ \E lost \in SUBSET q.found : TrySend(q.frames, lost, {r})
  /\ Become(r, IF q.after = "done" THEN Idle ELSE [q EXCEPT !.pc = q.after, !.frames = <<>>, !.found = {}, !.untold = FALSE])
  /\ UNCHANGED <<db, channel, snapshot, work>>

\* Hub.Run hands the next frame to everyone without restrictions.
HubRun ==
  LET hearers == {l \in Listeners \ Restricted : listeners[l].at = "in"} IN
  /\ channel # <<>>
  /\ \E lost \in SUBSET hearers : TrySend([l \in hearers |-> Head(channel)], lost, {})
  /\ channel' = Tail(channel)
  /\ UNCHANGED <<db, requests, snapshot, work>>

-----------------------------------------------------------------------------
(* A listener connects: it is sent the configuration before the hub knows  *)
(* of it.                                                                  *)

sendWelcome(l) ==
  /\ listeners[l].at = "out"
  /\ listeners' = [listeners EXCEPT ![l] = [at |-> "welcomed", seen |-> Config(l), excuse |-> FALSE]]
  /\ UNCHANGED <<db, requests, channel, snapshot, work, faults>>

Register(l) ==
  /\ listeners[l].at = "welcomed"
  /\ listeners' = [listeners EXCEPT ![l].at = "in", ![l].excuse = listeners[l].seen # Config(l)]
  /\ UNCHANGED <<db, requests, channel, snapshot, work, faults>>

\* The database fails a request, or whoever asked goes away and its context
\* with them.
Fail(r) ==
  /\ requests[r].pc # "idle" /\ faults < MaxFaults
  /\ faults' = faults + 1
  /\ Become(r, Idle)
  /\ Excuse(Uninformed(requests[r]))
  /\ UNCHANGED <<db, channel, snapshot, work>>

-----------------------------------------------------------------------------
Init ==
  /\ db = FirstDb
  /\ requests = [r \in Requests |-> Idle]
  /\ channel = <<>>
  /\ \E load \in Loads :
       /\ work = load.work
       /\ listeners = [l \in Listeners |->
            IF l \in load.connected
            THEN [at |-> "in", seen |-> buildCFGPayload(FirstDb, Grants[l]), excuse |-> FALSE]
            ELSE [at |-> "out", seen |-> {}, excuse |-> FALSE]]
  /\ snapshot = [mode |-> "replace", has |-> {}, db |-> FirstDb, spared |-> {}]
  /\ faults = 0

Next ==
  \/ \E r \in Requests, a \in Asks : Begin(r, a)
  \/ \E r \in Requests :
       \/ SystemsCreate(r) \/ SystemsUpdate(r) \/ SystemsDelete(r) \/ setBlocked(r)
       \/ TalkgroupsCreate(r) \/ TalkgroupsUpdate(r) \/ TalkgroupsDelete(r) \/ TalkgroupsBulk(r)
       \/ LabelsCreate(r) \/ LabelsUpdate(r) \/ MoveBeforeDelete(r) \/ LabelsDelete(r)
       \/ UnitsCreate(r) \/ UnitsUpdate(r) \/ UnitsDelete(r)
       \/ FindRow(r) \/ TalkgroupsImport(r) \/ RadioReferenceApply(r) \/ ImportTalkgroups(r)
       \/ UnitsImport(r) \/ ImportUnits(r) \/ labelsImport(r) \/ importLabelOnly(r) \/ EndImport(r)
       \/ NewSystem(r) \/ FindTalkgroup(r) \/ ResolveLabels(r) \/ SaveTalkgroup(r)
       \/ writePreRestoreSnapshot(r) \/ RestoreBackup(r)
       \/ Refetch(r) \/ Build(r) \/ Send(r) \/ BuildScoped(r) \/ Deliver(r) \/ Fail(r)
  \/ \E l \in Listeners : sendWelcome(l) \/ Register(l)
  \/ HubRun

Spec == Init /\ [][Next]_vars

-----------------------------------------------------------------------------
(* Properties.                                                             *)

TypeOK ==
  /\ Schema(db)
  /\ \A r \in Requests : requests[r].pc # "idle" => requests[r].ask \in Asks /\ requests[r].untold \in BOOLEAN
  /\ Len(channel) <= QueueCap
  /\ \A l \in Listeners : listeners[l].at \in {"out", "welcomed", "in"} /\ listeners[l].excuse \in BOOLEAN
  /\ work \in Nat /\ faults \in 0..MaxFaults

\* Once every request has returned and the hub has nothing left to send, each
\* listener has the configuration its grants show of the tables as they are,
\* whatever the requests did to each other (Hub.BroadcastCFG).  excuse marks
\* the listeners for whom the code promises less: a frame was dropped for
\* want of room or came after the tables had changed again, a request changed
\* what they see and ended without sending it, or they were connecting.
ConfigReachesListeners ==
  channel = <<>> /\ (\A r \in Requests : requests[r].pc = "idle") =>
    \A l \in Listeners : listeners[l].at = "in" => listeners[l].seen = Config(l) \/ listeners[l].excuse

\* The tables are whole and the listeners up to date.
CatalogInv == TypeOK /\ ConfigReachesListeners

\* The request that takes this step.
Steps(r) ==
  /\ requests[r].pc # "idle"
  /\ \/ requests'[r].pc # requests[r].pc
     \/ requests'[r].left # requests[r].left

\* What a request was asked to put in the place of a fact.
AskedToUndo(a, fact) ==
  \/ a.op \in {"ImportConfig", "Undo"}
  \/ /\ fact[1] = "block"
     /\ \/ a.op \in {"SystemsUpdate", "SystemsDelete"} /\ a.id = fact[2]
        \/ a.op = "SystemsUnblock" /\ a.id = fact[2] /\ a.num = fact[3]
  \/ /\ fact[1] = "label"
     /\ \/ a.op = "TalkgroupsUpdate" /\ a.id = fact[2]
        \/ a.op = "TalkgroupsDelete" /\ \E i \in DOMAIN a.ids : a.ids[i] = fact[2]
        \/ a.op = "SystemsDelete" /\ a.id = fact[3]
        \/ /\ a.op \in TalkgroupImports /\ a.mode = "overwrite" /\ a.sys = fact[3]
           /\ \E i \in DOMAIN a.rows : a.rows[i].num = fact[4]

\* A talkgroup's label and a blocked number go only by a request that was
\* asked to change them, or by one that was under way when they were written:
\* uploads, imports and label changes write rows whole from what they read,
\* and must not undo what was there when they came.
OnlyOverlapUndoes ==
  [][\A fact \in Facts(db) \ Facts(db') :
       \E r \in Requests : Steps(r) /\ (AskedToUndo(requests[r].ask, fact) \/ fact \in requests[r].missed)]_vars

\* The restore of file f commits in this step.
Restores(r) ==
  AtOneOf(r, {"ImportConfig", "Undo"}, "restore") /\ requests'[r].pc = "cfg"

\* Tables whose rows can be told apart: talkgroups and units need the systems
\* of their file.
Readable(f, t) == t \in f.has /\ (t \in {"talkgroups", "units"} => "systems" \in f.has)

\* What view g says, where view f says nothing.
Over(f, g) == [k \in DOMAIN f \union DOMAIN g |-> IF k \in DOMAIN f THEN f[k] ELSE g[k]]

\* Where a monitor puts its calls, by numbers.
Place(d, m) ==
  LET at == d.monitors[m] IN
  <<IF at.sys \in DOMAIN d.systems THEN SystemNumber(d, at.sys) ELSE NoId,
    IF at.tg \in DOMAIN d.talkgroups THEN RowKey(d, "talkgroups", at.tg) ELSE <<>> >>

\* After Replace the tables the file has say what the file says, and after
\* Merge the rows the file has do and the others what they said before; a key
\* opens the systems of the file it opened where the file comes from, if there
\* is one, and monitors point where they pointed there: whatever primary keys
\* the two databases use (ImportConfig).  A restore of the snapshot taken
\* before another undoes it.  Two things are not claimed, as the code does not
\* do what is said of it.  A key that opened only systems the file does not
\* list opens every system afterwards: its list comes out empty, which
\* operations.go:229 calls dropping the grant and grants.go:22 reads as no
\* restriction.  And of users it is only claimed that the accounts of who
\* asked and of the first admin stay as they were, because the grants of the
\* others keep the file's primary keys (imports.go:296, 311), though
\* operations.go:226 has them rewritten too.
RestoredIsTheFile ==
  [][\A r \in Requests : Restores(r) =>
       LET f == requests[r].read IN
       /\ \A t \in Tables \ {"users"} : Readable(f, t) =>
            View(db', t) = IF f.mode = "replace" THEN View(f.db, t) ELSE Over(View(f.db, t), View(db, t))
       /\ {"systems", "keys"} \subseteq f.has =>
            \A k \in DOMAIN f.db.keys : LET reach == Reach(f.db, f.db.keys[k]) IN
              reach # {} => Reach(db', db'.keys[k]) = reach
       /\ {"systems", "talkgroups", "monitors"} \subseteq f.has =>
            \A m \in DOMAIN f.db.monitors : Place(db', m) = Place(f.db, m)
       /\ \A n \in f.spared \intersect DOMAIN db.users : n \in DOMAIN db'.users /\ db'.users[n] = db.users[n]]_vars

\* The accounts spared of which the file says something else, and that it has
\* not.
SparedIn(d, f) ==
  IF "users" \in f.has
  THEN {n \in f.spared \intersect DOMAIN d.users \intersect DOMAIN f.db.users : d.users[n] # f.db.users[n]} ELSE {}
SparedOut(d, f) == IF "users" \in f.has THEN (f.spared \intersect DOMAIN d.users) \ DOMAIN f.db.users ELSE {}

\* What the review says a restore adds, changes and removes is what it then
\* does (previewBackup, removeAbsent's counts), except that it counts among
\* the changes and the removals the accounts a restore leaves alone.  Changes
\* of keys and monitors are left out: the review does not look at a key's
\* grants nor at what a monitor points at, which the restore rewrites
\* (imports.go:322, 376), though backup.go:129 has it look at all that a
\* restore would write; of the other tables a row's text is the whole row.
\* Talkgroups and units of a file that lists no systems are no part of the
\* claim, nor is what leaves with a system when the file does not carry its
\* table.
ReviewMatches ==
  [][\A r \in Requests : Restores(r) =>
       LET f == requests[r].read
           said == Review(db, f)
           out == ImportConfig(db, f)
           both(t) == DOMAIN View(db, t) \intersect DOMAIN View(db', t)
           did(t) == IF t \in {"keys", "monitors"} THEN {}
                     ELSE {k \in both(t) : View(db, t)[k] # View(db', t)[k]}
           changed == Total(f, [t \in Tables |-> did(t)])
       IN  (\A t \in f.has : Readable(f, t)) =>
             /\ said.added = out.created
             /\ said.changed = changed + Cardinality(SparedIn(db, f))
             /\ f.mode = "replace" /\ ("systems" \in f.has => {"talkgroups", "units"} \subseteq f.has) =>
                  said.removed = out.removed + Cardinality(SparedOut(db, f))]_vars
=============================================================================
