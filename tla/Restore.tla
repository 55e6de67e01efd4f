------------------------------ MODULE Restore ------------------------------
(***************************************************************************)
(* A configuration backup and what restoring one does to the database      *)
(* (admin/imports.go, admin/backup.go).  A backup is the tables of some    *)
(* database, with that database's primary keys; the restore matches its    *)
(* rows with the live ones by the keys that survive a move (a system's     *)
(* number, a label, a directory) and rewrites every reference to a primary *)
(* key on the way.  The operators here are pure: module Catalog runs them  *)
(* as the transaction they are.                                            *)
(*                                                                         *)
(* A database is a record of tables.  systems, groups, tags, talkgroups    *)
(* and units map primary keys to rows; keys, users and monitors, which     *)
(* nothing refers to by primary key, map their natural key to a row.  seq  *)
(* is the last primary key each table gave out.                            *)
(*                                                                         *)
(* A restore is handed a backup: what to do with the rows it lacks (mode), *)
(* the tables it carries (has) and their rows (db), and with it the names  *)
(* of the accounts a restore leaves alone, the caller's own and the first  *)
(* admin's (spared).                                                       *)
(***************************************************************************)
EXTENDS Integers, FiniteSetsExt, Sequences, TLC

NoId == 0                  \* a NULL reference
AllSystems == -1          \* grants without a restriction are {AllSystems}

Kinds == {"groups", "tags"}
IdTables == Kinds \union {"systems", "talkgroups", "units"}
Tables == IdTables \union {"keys", "users", "monitors"}

-----------------------------------------------------------------------------
(* Rows of one table.                                                      *)

Insert(d, t, row) ==
  LET id == d.seq[t] + 1
  IN  [d EXCEPT ![t] = [i \in DOMAIN @ \union {id} |-> IF i = id THEN row ELSE @[i]],
                !.seq[t] = id]

Drop(d, t, ids) == [d EXCEPT ![t] = [i \in DOMAIN @ \ ids |-> @[i]]]

\* The columns of each table that the schema keeps unique.
UniqueKey(t, row) ==
  CASE t = "systems" -> row.num
    [] t \in Kinds -> row.label
    [] OTHER -> <<row.sys, row.num>>

Matches(d, t, row) == {i \in DOMAIN d[t] : UniqueKey(t, d[t][i]) = UniqueKey(t, row)}
IdOf(d, t, row) == CHOOSE i \in Matches(d, t, row) : TRUE

TalkgroupsOf(d, systems) == {g \in DOMAIN d.talkgroups : d.talkgroups[g].sys \in systems}
UnitsOf(d, systems) == {u \in DOMAIN d.units : d.units[u].sys \in systems}

\* Foreign keys: a folder monitor holds its system and talkgroup in place,
\* and a system takes its talkgroups and units with it.
Monitored(d, t, id) ==
  \E m \in DOMAIN d.monitors : id = IF t = "systems" THEN d.monitors[m].sys ELSE d.monitors[m].tg
MayDropSystems(d, systems) ==
  /\ \A s \in systems : ~Monitored(d, "systems", s)
  /\ \A g \in TalkgroupsOf(d, systems) : ~Monitored(d, "talkgroups", g)
DropSystems(d, systems) ==
  Drop(Drop(Drop(d, "talkgroups", TalkgroupsOf(d, systems)), "units", UnitsOf(d, systems)), "systems", systems)

LabelColumn(kind) == IF kind = "groups" THEN "group" ELSE "tag"
UsersOf(d, kind, ids) == {g \in DOMAIN d.talkgroups : d.talkgroups[g][LabelColumn(kind)] \in ids}
MoveTalkgroups(d, kind, ids, to) ==
  [d EXCEPT !.talkgroups = [g \in DOMAIN @ |->
     IF g \in UsersOf(d, kind, ids) THEN [@[g] EXCEPT ![LabelColumn(kind)] = to] ELSE @[g]]]

-----------------------------------------------------------------------------
(* Merge.  acc is the work so far: the database, for each table the live   *)
(* primary key of every row of the file, and how many rows were added.     *)

Mapped(acc, t, id) == IF id \in DOMAIN acc.map[t] THEN acc.map[t][id] ELSE NoId
IsMapped(acc, t, id) == id \in DOMAIN acc.map[t]

\* A row of the file with its references rewritten.
Translate(acc, t, row) ==
  CASE t = "talkgroups" -> [row EXCEPT !.sys = Mapped(acc, "systems", @),
                                       !.group = Mapped(acc, "groups", @),
                                       !.tag = Mapped(acc, "tags", @)]
    [] t = "units" -> [row EXCEPT !.sys = Mapped(acc, "systems", @)]
    [] OTHER -> row

Orphan(acc, t, row) ==
  t \in {"talkgroups", "units"} /\ ~IsMapped(acc, "systems", row.sys)

RestoreRow(acc, t, i, row) ==
  LET r == Translate(acc, t, row)
      new == Matches(acc.db, t, r) = {}
      d == IF new THEN Insert(acc.db, t, r)
                  ELSE [acc.db EXCEPT ![t][IdOf(acc.db, t, r)] = r]
  IN  [acc EXCEPT !.db = d,
                  !.map[t] = [j \in DOMAIN @ \union {i} |-> IF j = i THEN IdOf(d, t, r) ELSE @[j]],
                  !.created = IF new THEN @ + 1 ELSE @]

\* The rows of the file in the order of their primary keys.
RestoreTable(acc, f, t) ==
  LET after[n \in 0..f.db.seq[t]] ==
        IF n = 0 THEN acc
        ELSE IF n \notin DOMAIN f.db[t] \/ Orphan(after[n - 1], t, f.db[t][n]) THEN after[n - 1]
        ELSE RestoreRow(after[n - 1], t, n, f.db[t][n])
  IN  IF t \notin f.has THEN acc ELSE after[f.db.seq[t]]

\* Mutant: the file's primary keys are kept.
RemapNothing(acc, grants) == grants

\* Grants name systems by primary key; one the file does not list is dropped,
\* and a list that comes out empty reads as every system.
RemapGrants(acc, grants) ==
  IF grants = {AllSystems} THEN grants
  ELSE LET kept == {acc.map["systems"][s] : s \in grants \intersect DOMAIN acc.map["systems"]}
       IN  IF kept = {} THEN {AllSystems} ELSE kept

\* Tables matched by a natural key of their own; the rows of users keep their
\* grants as the file has them, and accounts spared stay as they are.
RestoreNamed(acc, f, t) ==
  LET row(n) == LET r == f.db[t][n]
                IN  CASE t = "keys" -> RemapGrants(acc, r)
                      [] t = "users" -> IF n \in f.spared \intersect DOMAIN acc.db[t] THEN acc.db[t][n] ELSE r
                      [] OTHER -> [sys |-> Mapped(acc, "systems", r.sys),
                                   tg |-> Mapped(acc, "talkgroups", r.tg)]
      names == DOMAIN f.db[t]
  IN  IF t \notin f.has THEN acc
      ELSE [acc EXCEPT !.db[t] = [n \in DOMAIN @ \union names |-> IF n \in names THEN row(n) ELSE @[n]],
                       !.created = @ + Cardinality(names \ DOMAIN acc.db[t])]

Start(d) == [db |-> d, map |-> [t \in IdTables |-> <<>>], created |-> 0, removed |-> 0, ok |-> TRUE]

Merge(d, f) ==
  LET labels == RestoreTable(RestoreTable(Start(d), f, "groups"), f, "tags")
      rows == RestoreTable(RestoreTable(RestoreTable(labels, f, "systems"), f, "talkgroups"), f, "units")
  IN  RestoreNamed(RestoreNamed(RestoreNamed(rows, f, "users"), f, "keys"), f, "monitors")

-----------------------------------------------------------------------------
(* Replace: after the merge, the rows the file does not have go, table by  *)
(* table.  A foreign key that stands in the way fails the whole restore.   *)

Kept(acc, t) == {acc.map[t][i] : i \in DOMAIN acc.map[t]}

Removal(acc, d, n, ok) == [acc EXCEPT !.db = d, !.removed = @ + n, !.ok = @ /\ ok]

RemoveRows(acc, f, t) ==
  LET gone == {i \in DOMAIN acc.db[t] \ Kept(acc, t) : acc.db[t][i].sys \in Kept(acc, "systems")}
  IN  IF ~{t, "systems"} \subseteq f.has THEN acc
      ELSE Removal(acc, Drop(acc.db, t, gone), Cardinality(gone),
                   t = "talkgroups" => \A g \in gone : ~Monitored(acc.db, t, g))

RemoveLabels(acc, f, kind) ==
  LET gone == DOMAIN acc.db[kind] \ Kept(acc, kind)
  IN  IF kind \notin f.has THEN acc
      ELSE Removal(acc, Drop(MoveTalkgroups(acc.db, kind, gone, NoId), kind, gone), Cardinality(gone), TRUE)

\* A monitor of a system that is about to go is left to a cascade the schema
\* does not have; an account spared stays.
RemoveNamed(acc, f, t) ==
  LET leftToCascade(n) == /\ t = "monitors" /\ "systems" \in f.has
                          /\ acc.db[t][n].sys \notin Kept(acc, "systems") \union {NoId}
      stays(n) == t = "users" /\ n \in f.spared
      gone == {n \in DOMAIN acc.db[t] \ DOMAIN f.db[t] : ~leftToCascade(n) /\ ~stays(n)}
  IN  IF t \notin f.has THEN acc ELSE Removal(acc, Drop(acc.db, t, gone), Cardinality(gone), TRUE)

\* Mutant: what goes with a system is not counted.
RemoveSystemsUncounted(acc, f) ==
  LET gone == DOMAIN acc.db.systems \ Kept(acc, "systems")
  IN  IF "systems" \notin f.has THEN acc
      ELSE Removal(acc, DropSystems(acc.db, gone), Cardinality(gone), MayDropSystems(acc.db, gone))

RemoveSystems(acc, f) ==
  LET gone == DOMAIN acc.db.systems \ Kept(acc, "systems")
      count == Cardinality(gone) + Cardinality(TalkgroupsOf(acc.db, gone)) + Cardinality(UnitsOf(acc.db, gone))
  IN  IF "systems" \notin f.has THEN acc
      ELSE Removal(acc, DropSystems(acc.db, gone), count, MayDropSystems(acc.db, gone))

removeAbsent(acc, f) ==
  LET rows == RemoveRows(RemoveRows(acc, f, "talkgroups"), f, "units")
      labels == RemoveLabels(RemoveLabels(rows, f, "groups"), f, "tags")
      named == RemoveNamed(RemoveNamed(RemoveNamed(labels, f, "users"), f, "keys"), f, "monitors")
  IN  RemoveSystems(named, f)

\* The transaction: its outcome, and whether it commits.
ImportConfig(d, f) == IF f.mode = "replace" THEN removeAbsent(Merge(d, f), f) ELSE Merge(d, f)

-----------------------------------------------------------------------------
(* What a table says without primary keys: a set of rows that reads the    *)
(* same in every database.  The review counts differences between views.   *)

SystemNumber(d, s) == d.systems[s].num
LabelText(d, kind, id) == IF id \in DOMAIN d[kind] THEN d[kind][id].label ELSE ""

\* The reach of a grant: the numbers of the systems it opens.
Reach(d, grants) ==
  IF grants = {AllSystems} THEN {AllSystems}
  ELSE {SystemNumber(d, s) : s \in grants \intersect DOMAIN d.systems}

RowKey(d, t, i) ==
  IF t \in {"talkgroups", "units"} THEN <<SystemNumber(d, d[t][i].sys), d[t][i].num>>
  ELSE IF t \in IdTables THEN UniqueKey(t, d[t][i]) ELSE i

RowText(d, t, i) ==
  CASE t = "talkgroups" -> <<d[t][i].label, LabelText(d, "groups", d[t][i].group),
                             LabelText(d, "tags", d[t][i].tag)>>
    [] t = "systems" -> <<d[t][i].label, d[t][i].auto, d[t][i].blocked>>
    [] t = "units" -> <<d[t][i].label>>
    [] t = "users" -> <<d[t][i]>>
    [] OTHER -> <<>>

\* Rows of a file whose system it does not list are not part of what it says.
Stated(d, t) ==
  {i \in DOMAIN d[t] : t \in {"talkgroups", "units"} => d[t][i].sys \in DOMAIN d.systems}
View(d, t) == [k \in {RowKey(d, t, i) : i \in Stated(d, t)} |->
                 RowText(d, t, CHOOSE i \in Stated(d, t) : RowKey(d, t, i) = k)]

\* The rows counted, over the tables of file f.
Total(f, counted) ==
  LET n(t) == IF t \in f.has THEN Cardinality(counted[t]) ELSE 0
  IN  n("groups") + n("tags") + n("systems") + n("talkgroups") + n("units")
        + n("users") + n("keys") + n("monitors")

Review(d, f) ==
  LET of(t) == DOMAIN View(f.db, t)
      now(t) == DOMAIN View(d, t)
      differ(t) == {k \in of(t) \intersect now(t) : View(d, t)[k] # View(f.db, t)[k]}
  IN  [added |-> Total(f, [t \in Tables |-> of(t) \ now(t)]),
       changed |-> Total(f, [t \in Tables |-> differ(t)]),
       removed |-> Total(f, [t \in Tables |-> now(t) \ of(t)])]

\* A backup of the whole configuration: every table as it is.
exportConfigData(d) == [mode |-> "replace", has |-> Tables, db |-> d, spared |-> {}]
=============================================================================
