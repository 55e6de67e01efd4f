---------------------------- MODULE Catalog_proof ----------------------------
(***************************************************************************)
(* Proofs about Catalog and the restore it runs, for every database that   *)
(* keeps the schema, every file and every set of requests and listeners.   *)
(* Each change of the tables keeps the schema, the transaction of a        *)
(* restore included; each step of a request or of the hub keeps a listener *)
(* up to date, or leaves someone who will tell it.                         *)
(***************************************************************************)
EXTENDS Catalog, FiniteSetTheorems, WellFoundedInduction, SequenceTheorems, TLAPS

-----------------------------------------------------------------------------
(* The tables, one change at a time.                                       *)

\* What a table is after a change, whichever it was.
LEMMA TableNames ==
  /\ Kinds = {"groups", "tags"} /\ IdTables = {"groups", "tags", "systems", "talkgroups", "units"}
  /\ Tables = {"groups", "tags", "systems", "talkgroups", "units", "keys", "users", "monitors"}
  /\ "seq" \notin Tables /\ IdTables \subseteq Tables
BY DEF Kinds, IdTables, Tables

LEMMA Inserts ==
  ASSUME NEW d, Database(d), NEW t \in IdTables, NEW row, NEW e, e = Insert(d, t, row)
  PROVE  /\ DOMAIN e = DOMAIN d /\ \A u \in Tables : u # t => e[u] = d[u]
         /\ d.seq[t] \in Nat /\ d.seq[t] + 1 \notin DOMAIN d[t]
         /\ e[t] = [i \in DOMAIN d[t] \union {d.seq[t] + 1} |-> IF i = d.seq[t] + 1 THEN row ELSE d[t][i]]
         /\ DOMAIN e.seq = IdTables /\ e.seq[t] = d.seq[t] + 1
         /\ \A u \in IdTables : u # t => e.seq[u] = d.seq[u]
<1>1. /\ DOMAIN d = Tables \union {"seq"} /\ DOMAIN d.seq = IdTables
      /\ d.seq[t] \in Nat /\ DOMAIN d[t] \subseteq 1..d.seq[t] /\ t # "seq"
  BY TableNames DEF Database
<1>2. /\ DOMAIN e = DOMAIN d /\ \A u \in Tables : u # t => e[u] = d[u]
      /\ e[t] = [i \in DOMAIN d[t] \union {d.seq[t] + 1} |-> IF i = d.seq[t] + 1 THEN row ELSE d[t][i]]
      /\ e.seq = [d.seq EXCEPT ![t] = d.seq[t] + 1]
  BY <1>1, TableNames DEF Insert
<1> QED BY <1>1, <1>2

LEMMA Overwrites ==
  ASSUME NEW d, DOMAIN d = Tables \union {"seq"}, NEW t \in Tables, NEW id, NEW row, NEW e, e = [d EXCEPT ![t][id] = row]
  PROVE  /\ DOMAIN e = DOMAIN d /\ \A u \in Tables : u # t => e[u] = d[u]
         /\ DOMAIN e[t] = DOMAIN d[t] /\ \A i \in DOMAIN d[t] : e[t][i] = IF i = id THEN row ELSE d[t][i]
         /\ e.seq = d.seq
BY TableNames

\* Rows with one key are one row.
LEMMA SameKey ==
  ASSUME NEW d, Schema(d), NEW t \in IdTables, NEW i \in DOMAIN d[t], NEW j \in DOMAIN d[t],
         UniqueKey(t, d[t][i]) = UniqueKey(t, d[t][j])
  PROVE  i = j
BY DEF Schema, Matches

\* The schema, unfolded: what is to be shown of a database after a change.
LEMMA IsSchema ==
  ASSUME NEW d, DOMAIN d = Tables \union {"seq"}, DOMAIN d.seq = IdTables,
         \A t \in IdTables : d.seq[t] \in Nat /\ DOMAIN d[t] \subseteq 1..d.seq[t],
         \A t \in Tables \ IdTables : IsFiniteSet(DOMAIN d[t]),
         \A t \in IdTables : \A i \in DOMAIN d[t] : DOMAIN d[t][i] = Columns(t),
         \A t \in IdTables : \A i, j \in DOMAIN d[t] : UniqueKey(t, d[t][i]) = UniqueKey(t, d[t][j]) => i = j,
         \A t \in {"talkgroups", "units"} : \A i \in DOMAIN d[t] : d[t][i].sys \in DOMAIN d.systems,
         \A g \in DOMAIN d.talkgroups : LabelsIn(d, d.talkgroups[g]),
         \A m \in DOMAIN d.monitors : /\ DOMAIN d.monitors[m] = {"sys", "tg"}
                                      /\ d.monitors[m].sys \in DOMAIN d.systems \union {NoId}
                                      /\ d.monitors[m].tg \in DOMAIN d.talkgroups \union {NoId}
  PROVE  Schema(d)
<1>1. Database(d)
  BY DEF Database
<1>2. \A t \in IdTables : \A i \in DOMAIN d[t] : Matches(d, t, d[t][i]) = {i} /\ References(d, t, d[t][i])
  BY TableNames DEF Matches, References
<1> QED BY <1>1, <1>2 DEF Schema

LEMMA SchemaIs ==
  ASSUME NEW d, Schema(d)
  PROVE  /\ Database(d) /\ DOMAIN d = Tables \union {"seq"} /\ DOMAIN d.seq = IdTables
         /\ \A t \in IdTables : d.seq[t] \in Nat /\ DOMAIN d[t] \subseteq 1..d.seq[t]
         /\ \A t \in IdTables : NoId \notin DOMAIN d[t]
         /\ \A t \in Tables \ IdTables : IsFiniteSet(DOMAIN d[t])
         /\ \A t \in IdTables : \A i \in DOMAIN d[t] : DOMAIN d[t][i] = Columns(t)
         /\ \A t \in IdTables : \A i, j \in DOMAIN d[t] : UniqueKey(t, d[t][i]) = UniqueKey(t, d[t][j]) => i = j
         /\ \A t \in {"talkgroups", "units"} : \A i \in DOMAIN d[t] : d[t][i].sys \in DOMAIN d.systems
         /\ \A g \in DOMAIN d.talkgroups : LabelsIn(d, d.talkgroups[g])
         /\ \A m \in DOMAIN d.monitors : /\ DOMAIN d.monitors[m] = {"sys", "tg"}
                                         /\ d.monitors[m].sys \in DOMAIN d.systems \union {NoId}
                                         /\ d.monitors[m].tg \in DOMAIN d.talkgroups \union {NoId}
<1>1. \A t \in IdTables : \A i, j \in DOMAIN d[t] : UniqueKey(t, d[t][i]) = UniqueKey(t, d[t][j]) => i = j
  BY SameKey
<1>2. \A t \in {"talkgroups", "units"} : \A i \in DOMAIN d[t] : d[t][i].sys \in DOMAIN d.systems
  BY TableNames DEF Schema, References
<1>3. \A g \in DOMAIN d.talkgroups : LabelsIn(d, d.talkgroups[g])
  BY TableNames DEF Schema, References
<1>4. \A t \in IdTables : NoId \notin DOMAIN d[t]
  BY DEF Schema, Database, NoId
<1> QED BY <1>1, <1>2, <1>3, <1>4 DEF Schema, Database

-----------------------------------------------------------------------------
(* Each change keeps the schema, if the check before it lets it through.   *)

LEMMA InsertKeeps ==
  ASSUME NEW d, Schema(d), NEW t \in IdTables, NEW row, DOMAIN row = Columns(t),
         Matches(d, t, row) = {}, References(d, t, row)
  PROVE  Schema(Insert(d, t, row))
<1> DEFINE e == Insert(d, t, row)
           new == d.seq[t] + 1
<1>1. /\ DOMAIN e = DOMAIN d /\ \A u \in Tables : u # t => e[u] = d[u]
      /\ d.seq[t] \in Nat /\ new \notin DOMAIN d[t]
      /\ e[t] = [i \in DOMAIN d[t] \union {new} |-> IF i = new THEN row ELSE d[t][i]]
      /\ DOMAIN e.seq = IdTables /\ e.seq[t] = d.seq[t] + 1
      /\ \A u \in IdTables : u # t => e.seq[u] = d.seq[u]
  <2>1. Database(d)
    BY SchemaIs
  <2> QED BY <2>1, Inserts
<1> HIDE DEF e
<1>2. \A u \in IdTables : DOMAIN d[u] \subseteq DOMAIN e[u] /\ \A i \in DOMAIN d[u] : e[u][i] = d[u][i]
  BY <1>1, TableNames
<1>3. \A u \in IdTables : \A i \in DOMAIN e[u] : (u = t /\ i = new /\ e[u][i] = row) \/ i \in DOMAIN d[u]
  BY <1>1, TableNames
<1>4. DOMAIN e = Tables \union {"seq"} /\ DOMAIN e.seq = IdTables
  BY <1>1, SchemaIs
<1>5. \A u \in IdTables : e.seq[u] \in Nat /\ DOMAIN e[u] \subseteq 1..e.seq[u]
  <2>1. TAKE u \in IdTables
  <2>2. CASE u = t
    <3>1. \A i \in DOMAIN d[t] : i \in 1..d.seq[t]
      BY SchemaIs
    <3> QED BY <1>1, <2>2, <3>1
  <2>3. CASE u # t
    BY <1>1, <2>3, SchemaIs, TableNames
  <2> QED BY <2>2, <2>3
<1>6. \A u \in IdTables : \A i \in DOMAIN e[u] : DOMAIN e[u][i] = Columns(u)
  BY <1>2, <1>3, SchemaIs
<1>7. \A u \in IdTables : \A i, j \in DOMAIN e[u] : UniqueKey(u, e[u][i]) = UniqueKey(u, e[u][j]) => i = j
  <2>1. \A i \in DOMAIN d[t] : UniqueKey(t, d[t][i]) # UniqueKey(t, row)
    BY DEF Matches
  <2> QED BY <1>2, <1>3, <2>1, SchemaIs
<1>8. \A u \in {"talkgroups", "units"} : \A i \in DOMAIN e[u] : e[u][i].sys \in DOMAIN e.systems
  <2>1. TAKE u \in {"talkgroups", "units"}
  <2>2. TAKE i \in DOMAIN e[u]
  <2>3. u \in IdTables /\ DOMAIN d.systems \subseteq DOMAIN e.systems
    BY <1>2, TableNames
  <2>4. CASE i \in DOMAIN d[u]
    BY <1>2, <2>3, <2>4, SchemaIs
  <2>5. CASE u = t /\ i = new /\ e[u][i] = row
    BY <2>3, <2>5 DEF References
  <2> QED BY <1>3, <2>3, <2>4, <2>5
<1>9. \A g \in DOMAIN e.talkgroups : LabelsIn(e, e.talkgroups[g])
  BY <1>2, <1>3, SchemaIs, TableNames DEF References, LabelsIn
<1>10. e.monitors = d.monitors
  BY <1>1, TableNames
<1>11. \A m \in DOMAIN e.monitors : /\ DOMAIN e.monitors[m] = {"sys", "tg"}
                                    /\ e.monitors[m].sys \in DOMAIN e.systems \union {NoId}
                                    /\ e.monitors[m].tg \in DOMAIN e.talkgroups \union {NoId}
  BY <1>2, <1>10, SchemaIs, TableNames
<1>12. \A u \in Tables \ IdTables : IsFiniteSet(DOMAIN e[u])
  BY <1>1, SchemaIs
<1> QED BY <1>4, <1>5, <1>6, <1>7, <1>8, <1>9, <1>11, <1>12, IsSchema DEF e

LEMMA OverwriteKeeps ==
  ASSUME NEW d, Schema(d), NEW t \in IdTables, NEW id \in DOMAIN d[t], NEW row, DOMAIN row = Columns(t),
         Matches(d, t, row) \subseteq {id}, References(d, t, row)
  PROVE  Schema([d EXCEPT ![t][id] = row])
<1> DEFINE e == [d EXCEPT ![t][id] = row]
<1>1. /\ DOMAIN e = DOMAIN d /\ \A u \in Tables : u # t => e[u] = d[u]
      /\ DOMAIN e[t] = DOMAIN d[t] /\ \A i \in DOMAIN d[t] : e[t][i] = IF i = id THEN row ELSE d[t][i]
      /\ e.seq = d.seq
  BY Overwrites, SchemaIs, TableNames
<1> HIDE DEF e
<1>2. \A u \in IdTables : DOMAIN e[u] = DOMAIN d[u]
  BY <1>1, TableNames
<1>3. \A u \in IdTables : \A i \in DOMAIN d[u] : (u = t /\ i = id /\ e[u][i] = row) \/ (e[u][i] = d[u][i] /\ (u # t \/ i # id))
  BY <1>1, TableNames
<1>4. \A u \in IdTables : \A i \in DOMAIN e[u] : DOMAIN e[u][i] = Columns(u)
  BY <1>2, <1>3, SchemaIs
<1>5. \A u \in IdTables : \A i, j \in DOMAIN e[u] : UniqueKey(u, e[u][i]) = UniqueKey(u, e[u][j]) => i = j
  <2>1. \A i \in DOMAIN d[t] : UniqueKey(t, d[t][i]) = UniqueKey(t, row) => i = id
    BY DEF Matches
  <2> QED BY <1>2, <1>3, <2>1, SchemaIs
<1>6. \A u \in {"talkgroups", "units"} : \A i \in DOMAIN e[u] : e[u][i].sys \in DOMAIN e.systems
  BY <1>2, <1>3, SchemaIs, TableNames DEF References
<1>7. \A g \in DOMAIN e.talkgroups : LabelsIn(e, e.talkgroups[g])
  BY <1>2, <1>3, SchemaIs, TableNames DEF References, LabelsIn
<1>8. e.monitors = d.monitors
  BY <1>1, TableNames
<1>9. \A m \in DOMAIN e.monitors : /\ DOMAIN e.monitors[m] = {"sys", "tg"}
                                   /\ e.monitors[m].sys \in DOMAIN e.systems \union {NoId}
                                   /\ e.monitors[m].tg \in DOMAIN e.talkgroups \union {NoId}
  BY <1>2, <1>8, SchemaIs, TableNames
<1>10. DOMAIN e = Tables \union {"seq"} /\ DOMAIN e.seq = IdTables /\ \A u \in IdTables : e.seq[u] \in Nat /\ DOMAIN e[u] \subseteq 1..e.seq[u]
  BY <1>1, <1>2, SchemaIs
<1>11. \A u \in Tables \ IdTables : IsFiniteSet(DOMAIN e[u])
  BY <1>1, SchemaIs
<1> QED BY <1>4, <1>5, <1>6, <1>7, <1>9, <1>10, <1>11, IsSchema DEF e

\* The one change a request makes to a row.
LEMMA PutKeeps ==
  ASSUME NEW d, Schema(d), NEW t \in IdTables, NEW id, NEW row, DOMAIN row = Columns(t), Allowed(d, t, id, row)
  PROVE  Schema(Put(d, t, id, row))
<1>1. CASE id = NoId
  <2>1. Matches(d, t, row) = {}
    BY <1>1, SchemaIs DEF Allowed, Matches
  <2> QED BY <1>1, <2>1, InsertKeeps DEF Allowed, Put
<1>2. CASE id # NoId /\ id \in DOMAIN d[t]
  BY <1>2, OverwriteKeeps DEF Allowed, Put
<1>3. CASE id # NoId /\ id \notin DOMAIN d[t]
  BY <1>3 DEF Put
<1> QED BY <1>1, <1>2, <1>3

\* Rows may go that nothing refers to; e has the tables of d without some.
LEMMA FewerRows ==
  ASSUME NEW d, Schema(d), NEW e, DOMAIN e = DOMAIN d, e.seq = d.seq, e.monitors = d.monitors,
         \A t \in Tables \ IdTables : e[t] = d[t],
         \A t \in IdTables : DOMAIN e[t] \subseteq DOMAIN d[t] /\ \A i \in DOMAIN e[t] : e[t][i] = d[t][i],
         \A t \in {"talkgroups", "units"} : \A i \in DOMAIN e[t] : e[t][i].sys \in DOMAIN e.systems,
         \A g \in DOMAIN e.talkgroups : LabelsIn(e, e.talkgroups[g]),
         \A m \in DOMAIN e.monitors : /\ e.monitors[m].sys \in DOMAIN e.systems \union {NoId}
                                      /\ e.monitors[m].tg \in DOMAIN e.talkgroups \union {NoId}
  PROVE  Schema(e)
<1>1. \A t \in IdTables : e.seq[t] \in Nat /\ DOMAIN e[t] \subseteq 1..e.seq[t]
  BY SchemaIs
<1>2. \A t \in IdTables : \A i \in DOMAIN e[t] : DOMAIN e[t][i] = Columns(t)
  BY SchemaIs
<1>3. \A t \in IdTables : \A i, j \in DOMAIN e[t] : UniqueKey(t, e[t][i]) = UniqueKey(t, e[t][j]) => i = j
  BY SchemaIs
<1>4. DOMAIN e = Tables \union {"seq"} /\ DOMAIN e.seq = IdTables
  BY SchemaIs
<1>5. \A m \in DOMAIN e.monitors : DOMAIN e.monitors[m] = {"sys", "tg"}
  BY SchemaIs
<1>6. \A t \in Tables \ IdTables : IsFiniteSet(DOMAIN e[t])
  BY SchemaIs
<1> QED BY <1>1, <1>2, <1>3, <1>4, <1>5, <1>6, IsSchema

LEMMA Drops ==
  ASSUME NEW d, Schema(d), NEW t \in Tables, NEW ids, NEW e, e = Drop(d, t, ids)
  PROVE  /\ DOMAIN e = DOMAIN d /\ \A u \in Tables : u # t => e[u] = d[u]
         /\ e[t] = [i \in DOMAIN d[t] \ ids |-> d[t][i]] /\ e.seq = d.seq
<1>1. DOMAIN d = Tables \union {"seq"} /\ t # "seq"
  BY SchemaIs, TableNames
<1> QED BY <1>1, TableNames DEF Drop

LEMMA DropTalkgroupsKeeps ==
  ASSUME NEW d, Schema(d), NEW ids, \A g \in ids \intersect DOMAIN d.talkgroups : ~Monitored(d, "talkgroups", g)
  PROVE  Schema(Drop(d, "talkgroups", ids))
<1> DEFINE e == Drop(d, "talkgroups", ids)
<1>1. /\ DOMAIN e = DOMAIN d /\ \A u \in Tables : u # "talkgroups" => e[u] = d[u]
      /\ e["talkgroups"] = [i \in DOMAIN d["talkgroups"] \ ids |-> d["talkgroups"][i]] /\ e.seq = d.seq
  BY Drops, TableNames
<1> HIDE DEF e
<1>2. \A t \in IdTables : DOMAIN e[t] \subseteq DOMAIN d[t] /\ \A i \in DOMAIN e[t] : e[t][i] = d[t][i]
  BY <1>1, TableNames
<1>3. e.monitors = d.monitors /\ e.systems = d.systems /\ e.groups = d.groups /\ e.tags = d.tags
  BY <1>1, TableNames
<1>4. \A t \in {"talkgroups", "units"} : \A i \in DOMAIN e[t] : e[t][i].sys \in DOMAIN e.systems
  BY <1>2, <1>3, SchemaIs, TableNames
<1>5. \A g \in DOMAIN e.talkgroups : LabelsIn(e, e.talkgroups[g])
  BY <1>2, <1>3, SchemaIs, TableNames DEF LabelsIn
<1>6. \A m \in DOMAIN d.monitors : d.monitors[m].sys \in DOMAIN e.systems \union {NoId}
  BY <1>3, SchemaIs
<1>7. \A m \in DOMAIN d.monitors : d.monitors[m].tg \in DOMAIN e.talkgroups \union {NoId}
  <2>1. TAKE m \in DOMAIN d.monitors
  <2>2. d.monitors[m].tg \in DOMAIN d.talkgroups \union {NoId}
    BY SchemaIs
  <2>3. d.monitors[m].tg \in DOMAIN d.talkgroups => d.monitors[m].tg \notin ids
    BY DEF Monitored
  <2> QED BY <1>1, <2>2, <2>3
<1>8. \A u \in Tables \ IdTables : e[u] = d[u]
  BY <1>1, TableNames
<1> QED BY <1>1, <1>2, <1>3, <1>4, <1>5, <1>6, <1>7, <1>8, FewerRows DEF e

LEMMA DropUnitsKeeps ==
  ASSUME NEW d, Schema(d), NEW ids
  PROVE  Schema(Drop(d, "units", ids))
<1> DEFINE e == Drop(d, "units", ids)
<1>1. /\ DOMAIN e = DOMAIN d /\ \A u \in Tables : u # "units" => e[u] = d[u]
      /\ e["units"] = [i \in DOMAIN d["units"] \ ids |-> d["units"][i]] /\ e.seq = d.seq
  BY Drops, TableNames
<1> HIDE DEF e
<1>2. \A t \in IdTables : DOMAIN e[t] \subseteq DOMAIN d[t] /\ \A i \in DOMAIN e[t] : e[t][i] = d[t][i]
  BY <1>1, TableNames
<1>3. /\ e.monitors = d.monitors /\ e.systems = d.systems /\ e.groups = d.groups /\ e.tags = d.tags
      /\ e.talkgroups = d.talkgroups
  BY <1>1, TableNames
<1>4. \A t \in {"talkgroups", "units"} : \A i \in DOMAIN e[t] : e[t][i].sys \in DOMAIN e.systems
  BY <1>2, <1>3, SchemaIs, TableNames
<1>5. \A g \in DOMAIN e.talkgroups : LabelsIn(e, e.talkgroups[g])
  BY <1>2, <1>3, SchemaIs, TableNames DEF LabelsIn
<1>6. \A m \in DOMAIN e.monitors : /\ e.monitors[m].sys \in DOMAIN e.systems \union {NoId}
                                   /\ e.monitors[m].tg \in DOMAIN e.talkgroups \union {NoId}
  BY <1>3, SchemaIs
<1>7. \A u \in Tables \ IdTables : e[u] = d[u]
  BY <1>1, TableNames
<1> QED BY <1>1, <1>2, <1>3, <1>4, <1>5, <1>6, <1>7, FewerRows DEF e

LEMMA DropLabelsKeeps ==
  ASSUME NEW d, Schema(d), NEW kind \in Kinds, NEW ids, UsersOf(d, kind, ids \ {NoId}) = {}
  PROVE  Schema(Drop(d, kind, ids))
<1> DEFINE e == Drop(d, kind, ids)
<1>1. /\ DOMAIN e = DOMAIN d /\ \A u \in Tables : u # kind => e[u] = d[u]
      /\ e[kind] = [i \in DOMAIN d[kind] \ ids |-> d[kind][i]] /\ e.seq = d.seq
  <2>1. kind \in Tables
    BY TableNames
  <2> QED BY <2>1, Drops
<1> HIDE DEF e
<1>2. \A t \in IdTables : DOMAIN e[t] \subseteq DOMAIN d[t] /\ \A i \in DOMAIN e[t] : e[t][i] = d[t][i]
  BY <1>1, TableNames
<1>3. /\ e.monitors = d.monitors /\ e.systems = d.systems /\ e.units = d.units /\ e.talkgroups = d.talkgroups
      /\ kind = "groups" => e.tags = d.tags
      /\ kind = "tags" => e.groups = d.groups
  BY <1>1, TableNames
<1>4. \A t \in {"talkgroups", "units"} : \A i \in DOMAIN e[t] : e[t][i].sys \in DOMAIN e.systems
  BY <1>2, <1>3, SchemaIs, TableNames
<1>5. \A g \in DOMAIN e.talkgroups : LabelsIn(e, e.talkgroups[g])
  <2>1. TAKE g \in DOMAIN e.talkgroups
  <2>2. LabelsIn(d, d.talkgroups[g]) /\ d.talkgroups[g][LabelColumn(kind)] \notin ids \ {NoId}
    BY <1>3, SchemaIs DEF UsersOf
  <2>3. CASE kind = "groups"
    BY <1>1, <1>3, <2>2, <2>3 DEF LabelsIn, LabelColumn
  <2>4. CASE kind = "tags"
    BY <1>1, <1>3, <2>2, <2>4 DEF LabelsIn, LabelColumn
  <2> QED BY <2>3, <2>4, TableNames
<1>6. \A m \in DOMAIN e.monitors : /\ e.monitors[m].sys \in DOMAIN e.systems \union {NoId}
                                   /\ e.monitors[m].tg \in DOMAIN e.talkgroups \union {NoId}
  BY <1>3, SchemaIs
<1>7. \A u \in Tables \ IdTables : e[u] = d[u]
  BY <1>1, TableNames
<1> QED BY <1>1, <1>2, <1>3, <1>4, <1>5, <1>6, <1>7, FewerRows DEF e

\* Systems go with their talkgroups and units.
LEMMA DropSystemsKeeps ==
  ASSUME NEW d, Schema(d), NEW systems, MayDropSystems(d, systems \intersect DOMAIN d.systems)
  PROVE  Schema(DropSystems(d, systems))
<1> DEFINE b == Drop(d, "talkgroups", TalkgroupsOf(d, systems))
           c == Drop(b, "units", UnitsOf(d, systems))
           e == Drop(c, "systems", systems)
<1>1. \A g \in TalkgroupsOf(d, systems) \intersect DOMAIN d.talkgroups : ~Monitored(d, "talkgroups", g)
  BY SchemaIs DEF MayDropSystems, TalkgroupsOf
<1>2. Schema(b)
  BY <1>1, DropTalkgroupsKeeps
<1>3. Schema(c)
  BY <1>2, DropUnitsKeeps
<1>4. /\ DOMAIN b = DOMAIN d /\ \A u \in Tables : u # "talkgroups" => b[u] = d[u]
      /\ b["talkgroups"] = [i \in DOMAIN d["talkgroups"] \ TalkgroupsOf(d, systems) |-> d["talkgroups"][i]] /\ b.seq = d.seq
  BY Drops, TableNames
<1>5. /\ DOMAIN c = DOMAIN b /\ \A u \in Tables : u # "units" => c[u] = b[u]
      /\ c["units"] = [i \in DOMAIN b["units"] \ UnitsOf(d, systems) |-> b["units"][i]] /\ c.seq = b.seq
  <2>1. "units" \in Tables
    BY TableNames
  <2> HIDE DEF b
  <2> QED BY <1>2, <2>1, Drops
<1>6. /\ DOMAIN e = DOMAIN c /\ \A u \in Tables : u # "systems" => e[u] = c[u]
      /\ e["systems"] = [i \in DOMAIN c["systems"] \ systems |-> c["systems"][i]] /\ e.seq = c.seq
  <2>1. "systems" \in Tables
    BY TableNames
  <2> HIDE DEF c
  <2> QED BY <1>3, <2>1, Drops
<1>7. e = DropSystems(d, systems)
  BY DEF DropSystems
<1> HIDE DEF b, c, e
<1>8. \A t \in IdTables : DOMAIN e[t] \subseteq DOMAIN c[t] /\ \A i \in DOMAIN e[t] : e[t][i] = c[t][i]
  BY <1>6, TableNames
<1>9. /\ e.monitors = d.monitors /\ e.units = c.units /\ e.groups = c.groups /\ e.tags = c.tags
      /\ e.talkgroups = c.talkgroups /\ c.systems = d.systems /\ c.monitors = d.monitors
      /\ c.talkgroups = [i \in DOMAIN d.talkgroups \ TalkgroupsOf(d, systems) |-> d.talkgroups[i]]
      /\ c.units = [i \in DOMAIN d.units \ UnitsOf(d, systems) |-> d.units[i]]
      /\ e.systems = [i \in DOMAIN d.systems \ systems |-> d.systems[i]]
  BY <1>4, <1>5, <1>6, TableNames
<1>10. \A g \in DOMAIN c.talkgroups : c.talkgroups[g].sys \in DOMAIN e.systems
  BY <1>9, SchemaIs DEF TalkgroupsOf
<1>11. \A g \in DOMAIN c.units : c.units[g].sys \in DOMAIN e.systems
  BY <1>9, SchemaIs DEF UnitsOf
<1>12. \A t \in {"talkgroups", "units"} : \A i \in DOMAIN e[t] : e[t][i].sys \in DOMAIN e.systems
  BY <1>9, <1>10, <1>11
<1>13. \A g \in DOMAIN e.talkgroups : LabelsIn(e, e.talkgroups[g])
  BY <1>3, <1>9, SchemaIs DEF LabelsIn
<1>14. \A m \in DOMAIN e.monitors : /\ e.monitors[m].sys \in DOMAIN e.systems \union {NoId}
                                    /\ e.monitors[m].tg \in DOMAIN e.talkgroups \union {NoId}
  <2>1. TAKE m \in DOMAIN e.monitors
  <2>2. e.monitors[m].tg \in DOMAIN e.talkgroups \union {NoId}
    BY <1>3, <1>9, SchemaIs
  <2>3. d.monitors[m].sys \in DOMAIN d.systems \union {NoId}
    BY <1>9, SchemaIs
  <2>4. d.monitors[m].sys \in DOMAIN d.systems => d.monitors[m].sys \notin systems
    BY <1>9 DEF MayDropSystems, Monitored
  <2> QED BY <1>9, <2>2, <2>3, <2>4
<1>15. DOMAIN e = DOMAIN c /\ e.seq = c.seq /\ e.monitors = c.monitors
  BY <1>6, <1>9
<1>16. \A u \in Tables \ IdTables : e[u] = c[u]
  BY <1>6, TableNames
<1>17. Schema(e)
  BY <1>3, <1>8, <1>12, <1>13, <1>14, <1>15, <1>16, FewerRows
<1> QED BY <1>7, <1>17

LEMMA DropNamedKeeps ==
  ASSUME NEW d, Schema(d), NEW t \in Tables \ IdTables, NEW names
  PROVE  Schema(Drop(d, t, names))
<1> DEFINE e == Drop(d, t, names)
<1>1. /\ DOMAIN e = DOMAIN d /\ \A u \in Tables : u # t => e[u] = d[u]
      /\ e[t] = [i \in DOMAIN d[t] \ names |-> d[t][i]] /\ e.seq = d.seq
  BY Drops
<1> HIDE DEF e
<1>2. \A u \in IdTables : e[u] = d[u]
  BY <1>1, TableNames
<1>3. DOMAIN e.monitors \subseteq DOMAIN d.monitors /\ \A m \in DOMAIN e.monitors : e.monitors[m] = d.monitors[m]
  <2>1. CASE t = "monitors"
    BY <1>1, <2>1
  <2>2. CASE t # "monitors"
    BY <1>1, <2>2, TableNames
  <2> QED BY <2>1, <2>2
<1>4. /\ e.systems = d.systems /\ e.groups = d.groups /\ e.tags = d.tags /\ e.talkgroups = d.talkgroups
  BY <1>2, TableNames
<1>5. \A m \in DOMAIN e.monitors : /\ DOMAIN e.monitors[m] = {"sys", "tg"}
                                   /\ e.monitors[m].sys \in DOMAIN e.systems \union {NoId}
                                   /\ e.monitors[m].tg \in DOMAIN e.talkgroups \union {NoId}
  BY <1>3, <1>4, SchemaIs
<1>6. \A u \in IdTables : e.seq[u] \in Nat /\ DOMAIN e[u] \subseteq 1..e.seq[u]
  BY <1>1, <1>2, SchemaIs
<1>7. \A u \in IdTables : \A i \in DOMAIN e[u] : DOMAIN e[u][i] = Columns(u)
  BY <1>2, SchemaIs
<1>8. \A u \in IdTables : \A i, j \in DOMAIN e[u] : UniqueKey(u, e[u][i]) = UniqueKey(u, e[u][j]) => i = j
  BY <1>2, SchemaIs
<1>9. \A u \in {"talkgroups", "units"} : \A i \in DOMAIN e[u] : e[u][i].sys \in DOMAIN e.systems
  BY <1>2, <1>4, SchemaIs, TableNames
<1>10. \A g \in DOMAIN e.talkgroups : LabelsIn(e, e.talkgroups[g])
  BY <1>4, SchemaIs DEF LabelsIn
<1>11. DOMAIN e = Tables \union {"seq"} /\ DOMAIN e.seq = IdTables
  BY <1>1, SchemaIs
<1>12. \A u \in Tables \ IdTables : IsFiniteSet(DOMAIN e[u])
  <2>1. DOMAIN e[t] \subseteq DOMAIN d[t]
    BY <1>1
  <2>2. IsFiniteSet(DOMAIN e[t])
    BY <2>1, SchemaIs, FS_Subset
  <2> QED BY <1>1, <2>2, SchemaIs
<1> QED BY <1>5, <1>6, <1>7, <1>8, <1>9, <1>10, <1>11, <1>12, IsSchema DEF e

LEMMA ColumnsOf ==
  /\ Columns("systems") = {"num", "label", "auto", "blocked"}
  /\ Columns("talkgroups") = {"sys", "num", "label", "group", "tag"}
  /\ Columns("units") = {"sys", "num", "label"}
  /\ Columns("groups") = {"label"} /\ Columns("tags") = {"label"}
BY DEF Columns

\* A change of rows that keeps their keys and systems.
LEMMA RowsAnew ==
  ASSUME NEW d, Schema(d), NEW e, DOMAIN e = DOMAIN d, e.seq = d.seq, NEW t \in {"systems", "talkgroups"},
         \A u \in Tables : u # t => e[u] = d[u], DOMAIN e[t] = DOMAIN d[t],
         \A i \in DOMAIN d[t] : /\ DOMAIN e[t][i] = Columns(t) /\ e[t][i].num = d[t][i].num
                                /\ t = "talkgroups" => e[t][i].sys = d[t][i].sys /\ LabelsIn(d, e[t][i])
  PROVE  Schema(e)
<1>1. t \in IdTables /\ \A u \in IdTables : DOMAIN e[u] = DOMAIN d[u] /\ (u # t => e[u] = d[u])
  BY TableNames
<1>2. \A u \in IdTables : \A i \in DOMAIN d[u] : UniqueKey(u, e[u][i]) = UniqueKey(u, d[u][i])
  <2>1. \A i \in DOMAIN d[t] : UniqueKey(t, e[t][i]) = UniqueKey(t, d[t][i])
    <3>1. CASE t = "systems"
      BY <3>1 DEF UniqueKey, Kinds
    <3>2. CASE t = "talkgroups"
      BY <3>2 DEF UniqueKey, Kinds
    <3> QED BY <3>1, <3>2
  <2> QED BY <1>1, <2>1
<1>3. \A u \in IdTables : \A i, j \in DOMAIN e[u] : UniqueKey(u, e[u][i]) = UniqueKey(u, e[u][j]) => i = j
  BY <1>1, <1>2, SchemaIs
<1>4. \A u \in IdTables : \A i \in DOMAIN e[u] : DOMAIN e[u][i] = Columns(u)
  BY <1>1, SchemaIs
<1>5. DOMAIN e.systems = DOMAIN d.systems /\ e.groups = d.groups /\ e.tags = d.tags /\ e.monitors = d.monitors /\ DOMAIN e.talkgroups = DOMAIN d.talkgroups
  BY <1>1, TableNames
<1>6. \A u \in {"talkgroups", "units"} : \A i \in DOMAIN e[u] : e[u][i].sys \in DOMAIN e.systems
  <2>1. TAKE u \in {"talkgroups", "units"}
  <2>2. \A i \in DOMAIN d[u] : d[u][i].sys \in DOMAIN e.systems
    BY <1>5, SchemaIs
  <2>3. u \in Tables
    BY TableNames
  <2> QED BY <2>2, <2>3
<1>7. \A g \in DOMAIN e.talkgroups : LabelsIn(e, e.talkgroups[g])
  <2>1. \A g \in DOMAIN d.talkgroups : LabelsIn(d, e.talkgroups[g])
    <3>1. CASE t = "talkgroups"
      BY <3>1
    <3>2. CASE t # "talkgroups"
      BY <3>2, SchemaIs, TableNames
    <3> QED BY <3>1, <3>2
  <2> QED BY <1>5, <2>1 DEF LabelsIn
<1>8. \A m \in DOMAIN e.monitors : /\ DOMAIN e.monitors[m] = {"sys", "tg"}
                                   /\ e.monitors[m].sys \in DOMAIN e.systems \union {NoId}
                                   /\ e.monitors[m].tg \in DOMAIN e.talkgroups \union {NoId}
  BY <1>5, SchemaIs
<1>9. \A u \in IdTables : e.seq[u] \in Nat /\ DOMAIN e[u] \subseteq 1..e.seq[u]
  BY <1>1, SchemaIs
<1>10. DOMAIN e = Tables \union {"seq"} /\ DOMAIN e.seq = IdTables
  BY SchemaIs
<1>11. \A u \in Tables \ IdTables : IsFiniteSet(DOMAIN e[u])
  BY SchemaIs, TableNames
<1> QED BY <1>3, <1>4, <1>6, <1>7, <1>8, <1>9, <1>10, <1>11, IsSchema

LEMMA Moves ==
  ASSUME NEW d, Schema(d), NEW kind \in Kinds, NEW ids, NEW to, NEW e, e = MoveTalkgroups(d, kind, ids, to)
  PROVE  /\ DOMAIN e = DOMAIN d /\ e.seq = d.seq /\ \A u \in Tables : u # "talkgroups" => e[u] = d[u]
         /\ DOMAIN e.talkgroups = DOMAIN d.talkgroups
         /\ \A g \in DOMAIN d.talkgroups :
              e.talkgroups[g] = IF g \in UsersOf(d, kind, ids) THEN [d.talkgroups[g] EXCEPT ![LabelColumn(kind)] = to]
                                ELSE d.talkgroups[g]
<1>1. DOMAIN d = Tables \union {"seq"}
  BY SchemaIs
<1> QED BY <1>1, TableNames DEF MoveTalkgroups

LEMMA MoveKeeps ==
  ASSUME NEW d, Schema(d), NEW kind \in Kinds, NEW ids, NEW to \in DOMAIN d[kind] \union {NoId}
  PROVE  Schema(MoveTalkgroups(d, kind, ids, to))
<1> DEFINE e == MoveTalkgroups(d, kind, ids, to)
<1>1. /\ DOMAIN e = DOMAIN d /\ e.seq = d.seq /\ \A u \in Tables : u # "talkgroups" => e[u] = d[u]
      /\ DOMAIN e.talkgroups = DOMAIN d.talkgroups
      /\ \A g \in DOMAIN d.talkgroups :
           e.talkgroups[g] = IF g \in UsersOf(d, kind, ids) THEN [d.talkgroups[g] EXCEPT ![LabelColumn(kind)] = to]
                             ELSE d.talkgroups[g]
  BY Moves
<1> HIDE DEF e
<1>2. \A i \in DOMAIN d["talkgroups"] : /\ DOMAIN e["talkgroups"][i] = Columns("talkgroups") /\ e["talkgroups"][i].num = d["talkgroups"][i].num
                                /\ e["talkgroups"][i].sys = d["talkgroups"][i].sys /\ LabelsIn(d, e["talkgroups"][i])
  <2>1. TAKE i \in DOMAIN d["talkgroups"]
  <2> DEFINE row == d.talkgroups[i]
  <2>2. DOMAIN row = {"sys", "num", "label", "group", "tag"} /\ LabelsIn(d, row)
    BY SchemaIs, TableNames, ColumnsOf
  <2>3. e.talkgroups[i] = row \/ e.talkgroups[i] = [row EXCEPT ![LabelColumn(kind)] = to]
    BY <1>1
  <2> HIDE DEF row
  <2>4. [row EXCEPT ![LabelColumn(kind)] = to].num = row.num /\ [row EXCEPT ![LabelColumn(kind)] = to].sys = row.sys
    BY <2>2 DEF LabelColumn
  <2>5. LabelsIn(d, [row EXCEPT ![LabelColumn(kind)] = to])
    <3>1. CASE kind = "groups"
      BY <2>2, <3>1 DEF LabelColumn, LabelsIn
    <3>2. CASE kind = "tags"
      BY <2>2, <3>2 DEF LabelColumn, LabelsIn
    <3> QED BY <3>1, <3>2, TableNames
  <2> QED BY <2>2, <2>3, <2>4, <2>5, ColumnsOf DEF row
<1> QED BY <1>1, <1>2, RowsAnew DEF e

LEMMA BlockKeeps ==
  ASSUME NEW d, Schema(d), NEW s \in DOMAIN d.systems, NEW blocked
  PROVE  Schema([d EXCEPT !.systems[s].blocked = blocked])
<1> DEFINE e == [d EXCEPT !.systems[s].blocked = blocked]
<1>1. DOMAIN d = Tables \union {"seq"} /\ "systems" \in Tables
  BY SchemaIs, TableNames
<1>2. /\ DOMAIN e = DOMAIN d /\ e.seq = d.seq /\ \A u \in Tables : u # "systems" => e[u] = d[u]
      /\ DOMAIN e.systems = DOMAIN d.systems
      /\ \A i \in DOMAIN d.systems : e.systems[i] = IF i = s THEN [d.systems[s] EXCEPT !.blocked = blocked] ELSE d.systems[i]
  BY <1>1, TableNames
<1> HIDE DEF e
<1>3. \A i \in DOMAIN d.systems : DOMAIN d.systems[i] = Columns("systems")
  BY SchemaIs, TableNames
<1>4. \A i \in DOMAIN d["systems"] : DOMAIN e["systems"][i] = Columns("systems") /\ e["systems"][i].num = d["systems"][i].num
  BY <1>2, <1>3, ColumnsOf
<1> QED BY <1>2, <1>4, RowsAnew DEF e

-----------------------------------------------------------------------------
(* Labels that are looked up or created.                                   *)

LEMMA NewLabelKeeps ==
  ASSUME NEW d, Schema(d), NEW kind \in Kinds, NEW label, Matches(d, kind, [label |-> label]) = {}
  PROVE  Schema(Insert(d, kind, [label |-> label]))
<1>1. kind \in IdTables /\ DOMAIN [label |-> label] = Columns(kind)
  BY TableNames, ColumnsOf
<1>2. References(d, kind, [label |-> label])
  BY TableNames DEF References
<1> QED BY <1>1, <1>2, InsertKeeps

LEMMA ResolveKeeps ==
  ASSUME NEW d, Schema(d), NEW kind \in Kinds, NEW label
  PROVE  Schema(Resolve(d, kind, label).db)
<1>1. CASE label = ""
  BY <1>1 DEF Resolve
<1>2. CASE label # "" /\ Matches(d, kind, [label |-> label]) # {}
  BY <1>2 DEF Resolve
<1>3. CASE label # "" /\ Matches(d, kind, [label |-> label]) = {}
  BY <1>3, NewLabelKeeps DEF Resolve
<1> QED BY <1>1, <1>2, <1>3

LEMMA ResolveBothKeeps ==
  ASSUME NEW d, Schema(d), NEW group, NEW tag
  PROVE  Schema(ResolveBoth(d, group, tag).db)
<1> DEFINE g == Resolve(d, "groups", group)
<1>1. Schema(g.db)
  BY ResolveKeeps, TableNames
<1>2. Schema(Resolve(g.db, "tags", tag).db)
  <2> HIDE DEF g
  <2> QED BY <1>1, ResolveKeeps, TableNames
<1> QED BY <1>2 DEF ResolveBoth

\* The wizard's work on one row.
Wizard == {"db", "known", "group", "tag", "ok"}
WizardOK(w) == DOMAIN w = Wizard /\ w.ok \in BOOLEAN /\ Schema(w.db)

LEMMA GroupForKeeps ==
  ASSUME NEW w, WizardOK(w), NEW kind \in Kinds, NEW label
  PROVE  WizardOK(groupFor(w, kind, label))
<1> DEFINE has == {i \in DOMAIN w.known[kind] : w.known[kind][i].label = label}
           row == [label |-> label]
           id == w.db.seq[kind] + 1
           c == LabelColumn(kind)
           k == [i \in DOMAIN w.known[kind] \union {id} |-> IF i = id THEN row ELSE w.known[kind][i]]
<1>1. c \in {"group", "tag"}
  BY DEF LabelColumn
<1>2. CASE label = ""
  BY <1>2 DEF groupFor
<1>3. CASE label # "" /\ has # {}
  <2>1. groupFor(w, kind, label) = [w EXCEPT ![c] = CHOOSE i \in has : TRUE]
    BY <1>3 DEF groupFor
  <2> HIDE DEF c, has
  <2> QED BY <1>1, <2>1 DEF WizardOK, Wizard
<1>4. CASE label # "" /\ has = {} /\ Matches(w.db, kind, row) # {}
  <2>1. groupFor(w, kind, label) = [w EXCEPT !.ok = FALSE]
    BY <1>4 DEF groupFor
  <2> QED BY <2>1 DEF WizardOK, Wizard
<1>5. CASE label # "" /\ has = {} /\ Matches(w.db, kind, row) = {}
  <2>1. groupFor(w, kind, label) = [w EXCEPT !.db = Insert(w.db, kind, row), ![c] = id, !.known[kind] = k]
    BY <1>5 DEF groupFor
  <2>2. Schema(Insert(w.db, kind, row))
    BY <1>5, NewLabelKeeps DEF WizardOK
  <2> HIDE DEF c, id, k, row
  <2> QED BY <1>1, <2>1, <2>2 DEF WizardOK, Wizard
<1> QED BY <1>2, <1>3, <1>4, <1>5

-----------------------------------------------------------------------------
(* Recursion over the natural numbers, for the rows of a table in order.   *)

LEMMA LeastNat ==
  ASSUME NEW S, S \subseteq Nat, S # {}
  PROVE  \E m \in S : \A k \in S : m <= k
<1> DEFINE R == {p \in Nat \X Nat : p[1] < p[2]}
<1>1. IsWellFoundedOn(R, Nat)
  BY NatLessThanWellFounded DEF OpToRel
<1>2. \A k, m \in Nat : k < m => <<k, m>> \in R
  OBVIOUS
<1> HIDE DEF R
<1>3. \E m \in S : \A k \in S : ~ (<<k, m>> \in R)
  BY <1>1, WFMin
<1>4. PICK m \in S : \A k \in S : ~ (<<k, m>> \in R)
  BY <1>3
<1>5. \A k \in S : ~(k < m)
  BY <1>2, <1>4
<1> QED BY <1>4, <1>5

LEMMA Inductive ==
  ASSUME NEW S, 0 \in S, \A n \in Nat : n \in S => n + 1 \in S
  PROVE  \A n \in Nat : n \in S
<1> SUFFICES ASSUME NEW n \in Nat, n \notin S PROVE FALSE
  OBVIOUS
<1>1. PICK m \in Nat \ S : \A k \in Nat \ S : m <= k
  BY LeastNat
<1>2. m # 0 /\ m - 1 \in Nat /\ m - 1 \in S
  BY <1>1
<1> QED BY <1>1, <1>2

-----------------------------------------------------------------------------
(* The restore of a file, whatever the file's references.                  *)

Work == {"db", "map", "created", "removed", "ok"}
MergeOK(acc) ==
  /\ DOMAIN acc = Work /\ acc.ok = TRUE /\ Schema(acc.db) /\ DOMAIN acc.map = IdTables
  /\ \A t \in IdTables : \A i \in DOMAIN acc.map[t] : acc.map[t][i] \in DOMAIN acc.db[t]

LEMMA MappedExists ==
  ASSUME NEW acc, MergeOK(acc), NEW t \in IdTables, NEW i
  PROVE  /\ Mapped(acc, t, i) \in DOMAIN acc.db[t] \union {NoId}
         /\ IsMapped(acc, t, i) => Mapped(acc, t, i) \in DOMAIN acc.db[t]
BY DEF MergeOK, Mapped, IsMapped

LEMMA Translates ==
  ASSUME NEW acc, MergeOK(acc), NEW t \in IdTables, NEW row, DOMAIN row = Columns(t), ~Orphan(acc, t, row)
  PROVE  DOMAIN Translate(acc, t, row) = Columns(t) /\ References(acc.db, t, Translate(acc, t, row))
<1> DEFINE r == Translate(acc, t, row)
<1>1. CASE t = "talkgroups"
  <2> DEFINE s == Mapped(acc, "systems", row.sys)
             g == Mapped(acc, "groups", row.group)
             k == Mapped(acc, "tags", row.tag)
  <2>1. s \in DOMAIN acc.db.systems /\ g \in DOMAIN acc.db.groups \union {NoId} /\ k \in DOMAIN acc.db.tags \union {NoId}
    BY <1>1, MappedExists, TableNames DEF Orphan
  <2>2. r = [row EXCEPT !.sys = s, !.group = g, !.tag = k]
    BY <1>1 DEF Translate
  <2> HIDE DEF s, g, k, r
  <2>3. DOMAIN row = {"sys", "num", "label", "group", "tag"}
    BY <1>1, ColumnsOf
  <2>4. DOMAIN r = DOMAIN row /\ r.sys = s /\ r.group = g /\ r.tag = k
    BY <2>2, <2>3
  <2> QED BY <1>1, <2>1, <2>4 DEF References, LabelsIn, r
<1>2. CASE t = "units"
  <2> DEFINE s == Mapped(acc, "systems", row.sys)
  <2>1. s \in DOMAIN acc.db.systems
    BY <1>2, MappedExists, TableNames DEF Orphan
  <2>2. r = [row EXCEPT !.sys = s]
    BY <1>2 DEF Translate
  <2> HIDE DEF s, r
  <2>3. DOMAIN row = {"sys", "num", "label"}
    BY <1>2, ColumnsOf
  <2>4. DOMAIN r = DOMAIN row /\ r.sys = s
    BY <2>2, <2>3
  <2> QED BY <1>2, <2>1, <2>4 DEF References, r
<1>3. CASE t \notin {"talkgroups", "units"}
  BY <1>3 DEF Translate, References
<1> QED BY <1>1, <1>2, <1>3

LEMMA IdOfMatches ==
  ASSUME NEW d, Schema(d), NEW t \in IdTables, NEW row, Matches(d, t, row) # {}
  PROVE  IdOf(d, t, row) \in DOMAIN d[t] /\ Matches(d, t, row) = {IdOf(d, t, row)}
<1>1. IdOf(d, t, row) \in Matches(d, t, row)
  BY DEF IdOf
<1>2. \A i, j \in Matches(d, t, row) : i = j
  BY SchemaIs DEF Matches
<1>3. IdOf(d, t, row) \in DOMAIN d[t]
  BY <1>1 DEF Matches
<1> QED BY <1>1, <1>2, <1>3

LEMMA RestoreRowKeeps ==
  ASSUME NEW acc, MergeOK(acc), NEW t \in IdTables, NEW i, NEW row, DOMAIN row = Columns(t), ~Orphan(acc, t, row)
  PROVE  MergeOK(RestoreRow(acc, t, i, row))
<1> DEFINE r == Translate(acc, t, row)
           new == Matches(acc.db, t, r) = {}
           old == IdOf(acc.db, t, r)
           d == IF new THEN Insert(acc.db, t, r) ELSE [acc.db EXCEPT ![t][old] = r]
           id == IdOf(d, t, r)
           m == [j \in DOMAIN acc.map[t] \union {i} |-> IF j = i THEN id ELSE acc.map[t][j]]
           n == IF new THEN acc.created + 1 ELSE acc.created
           out == [acc EXCEPT !.db = d, !.map[t] = m, !.created = n]
<1>1. RestoreRow(acc, t, i, row) = out
  BY DEF RestoreRow
<1>2. DOMAIN r = Columns(t) /\ References(acc.db, t, r)
  BY Translates
<1>3. Schema(acc.db)
  BY DEF MergeOK
<1> HIDE DEF r
<1>4. Schema(d) /\ (\A u \in IdTables : DOMAIN acc.db[u] \subseteq DOMAIN d[u]) /\ \E j \in DOMAIN d[t] : d[t][j] = r
  <2>1. CASE new
    <3>1. Schema(Insert(acc.db, t, r)) /\ Database(acc.db)
      BY <1>2, <1>3, <2>1, InsertKeeps, SchemaIs
    <3> DEFINE e == Insert(acc.db, t, r)
               k == acc.db.seq[t] + 1
    <3>2. /\ \A u \in Tables : u # t => e[u] = acc.db[u]
          /\ e[t] = [h \in DOMAIN acc.db[t] \union {k} |-> IF h = k THEN r ELSE acc.db[t][h]]
      BY <3>1, Inserts
    <3> HIDE DEF e, k
    <3>3. \A u \in IdTables : DOMAIN acc.db[u] \subseteq DOMAIN e[u]
      BY <3>2, TableNames
    <3>4. k \in DOMAIN e[t] /\ e[t][k] = r
      BY <3>2
    <3> QED BY <2>1, <3>1, <3>3, <3>4 DEF e
  <2>2. CASE ~new
    <3>1. old \in DOMAIN acc.db[t] /\ Matches(acc.db, t, r) = {old}
      BY <1>3, <2>2, IdOfMatches
    <3> DEFINE e == [acc.db EXCEPT ![t][old] = r]
    <3> HIDE DEF old
    <3>2. Schema(e)
      BY <1>2, <1>3, <3>1, OverwriteKeeps
    <3>3. /\ \A u \in Tables : u # t => e[u] = acc.db[u]
          /\ DOMAIN e[t] = DOMAIN acc.db[t] /\ \A h \in DOMAIN acc.db[t] : e[t][h] = IF h = old THEN r ELSE acc.db[t][h]
      <4>1. DOMAIN acc.db = Tables \union {"seq"} /\ t \in Tables
        BY <1>3, SchemaIs, TableNames
      <4> QED BY <4>1, Overwrites
    <3>4. d = e
      BY <2>2
    <3> HIDE DEF e, d
    <3>5. \A u \in IdTables : DOMAIN acc.db[u] \subseteq DOMAIN e[u]
      BY <3>3, TableNames
    <3> QED BY <3>1, <3>2, <3>3, <3>4, <3>5
  <2> QED BY <2>1, <2>2
<1> HIDE DEF d
<1>5. id \in DOMAIN d[t]
  <2>1. Matches(d, t, r) # {}
    BY <1>4 DEF Matches
  <2> QED BY <1>4, <2>1, IdOfMatches
<1> HIDE DEF id, n
<1>6. /\ DOMAIN acc = Work /\ acc.ok = TRUE /\ DOMAIN acc.map = IdTables
      /\ \A u \in IdTables : \A j \in DOMAIN acc.map[u] : acc.map[u][j] \in DOMAIN acc.db[u]
  BY DEF MergeOK
<1>7. DOMAIN m = DOMAIN acc.map[t] \union {i} /\ \A j \in DOMAIN m : m[j] \in DOMAIN d[t]
  BY <1>4, <1>5, <1>6
<1> HIDE DEF m
<1>8. DOMAIN out = Work /\ out.ok = TRUE /\ out.db = d /\ out.map = [acc.map EXCEPT ![t] = m]
  BY <1>6 DEF Work
<1> HIDE DEF out
<1>9. DOMAIN out.map = IdTables /\ \A u \in IdTables : \A j \in DOMAIN out.map[u] : out.map[u][j] \in DOMAIN out.db[u]
  BY <1>4, <1>6, <1>7, <1>8
<1> QED BY <1>1, <1>4, <1>8, <1>9 DEF MergeOK

\* One row of the file more.
NextRow(a, f, t, n) ==
  IF n \notin DOMAIN f.db[t] \/ Orphan(a, t, f.db[t][n]) THEN a ELSE RestoreRow(a, t, n, f.db[t][n])

\* The recursion of RestoreTable: there is a function that satisfies it.
LEMMA RestoreTableIs ==
  ASSUME NEW acc, NEW f, NEW t, f.db.seq[t] \in Nat, t \in f.has
  PROVE  \E g : /\ g[0] = acc /\ \A n \in 0..f.db.seq[t] : n # 0 => g[n] = NextRow(g[n - 1], f, t, n)
                /\ RestoreTable(acc, f, t) = g[f.db.seq[t]]
<1> DEFINE N == f.db.seq[t]
           Rec(g, n) == IF n = 0 THEN acc ELSE NextRow(g[n - 1], f, t, n)
           Good(g) == g = [n \in 0..N |-> Rec(g, n)]
           Below == {n \in Nat : n <= N => \E g : DOMAIN g = 0..n /\ \A k \in 0..n : g[k] = Rec(g, k)}
<1>1. 0 \in Below
  <2> DEFINE g == [k \in 0..0 |-> acc]
  <2>1. DOMAIN g = 0..0 /\ \A k \in 0..0 : g[k] = Rec(g, k)
    OBVIOUS
  <2> QED BY <2>1
<1>2. ASSUME NEW n \in Nat, n \in Below PROVE n + 1 \in Below
  <2> SUFFICES ASSUME n + 1 <= N PROVE \E g : DOMAIN g = 0..(n + 1) /\ \A k \in 0..(n + 1) : g[k] = Rec(g, k)
    OBVIOUS
  <2>1. n <= N
    OBVIOUS
  <2>2. PICK g : DOMAIN g = 0..n /\ \A k \in 0..n : g[k] = Rec(g, k)
    BY <1>2, <2>1
  <2> DEFINE h == [k \in 0..(n + 1) |-> IF k = n + 1 THEN NextRow(g[n], f, t, n + 1) ELSE g[k]]
  <2>3. \A k \in 0..(n + 1) : h[k] = Rec(h, k)
    <3>1. TAKE k \in 0..(n + 1)
    <3>2. CASE k = n + 1
      <4>1. h[n] = g[n] /\ k # 0 /\ k - 1 = n
        BY <3>2
      <4> QED BY <3>2, <4>1
    <3>3. CASE k = 0
      <4>1. h[k] = g[0] /\ g[0] = acc
        BY <2>2, <3>3
      <4> QED BY <3>3, <4>1
    <3>4. CASE k # n + 1 /\ k # 0
      <4>1. k \in 0..n /\ k - 1 \in 0..n /\ k - 1 \in 0..(n + 1) /\ k - 1 # n + 1
        BY <3>4
      <4>2. h[k] = g[k] /\ h[k - 1] = g[k - 1]
        BY <3>4, <4>1
      <4> HIDE DEF h
      <4>3. g[k] = NextRow(g[k - 1], f, t, k)
        BY <2>2, <3>4, <4>1
      <4> QED BY <3>4, <4>2, <4>3
    <3> QED BY <3>2, <3>3, <3>4
  <2>4. DOMAIN h = 0..(n + 1)
    OBVIOUS
  <2> HIDE DEF h
  <2> QED BY <2>3, <2>4
<1>3. N \in Below
  <2> HIDE DEF Below
  <2>1. \A n \in Nat : n \in Below
    BY <1>1, <1>2, Inductive
  <2> QED BY <2>1
<1>4. PICK g : DOMAIN g = 0..N /\ \A k \in 0..N : g[k] = Rec(g, k)
  BY <1>3
<1> DEFINE after == CHOOSE h : Good(h)
<1>5. RestoreTable(acc, f, t) = after[N]
  BY DEF RestoreTable, NextRow
<1>6. Good(after)
  <2> DEFINE h == [n \in 0..N |-> g[n]]
  <2>1. \A n \in 0..N : h[n] = Rec(h, n)
    <3>1. TAKE n \in 0..N
    <3>2. CASE n = 0
      BY <1>4, <3>2
    <3>3. CASE n # 0
      <4>1. n - 1 \in 0..N
        BY <3>3
      <4>2. h[n] = g[n] /\ h[n - 1] = g[n - 1]
        BY <4>1
      <4> HIDE DEF h
      <4>3. g[n] = NextRow(g[n - 1], f, t, n)
        BY <1>4, <3>3
      <4> QED BY <3>3, <4>2, <4>3
    <3> QED BY <3>2, <3>3
  <2>2. h = [n \in 0..N |-> h[n]]
    OBVIOUS
  <2>3. h = [n \in 0..N |-> Rec(h, n)]
    <3> HIDE DEF h, Rec, N
    <3> QED BY <2>1, <2>2
  <2>4. Good(h)
    BY <2>3
  <2> HIDE DEF Good, h
  <2> QED BY <2>4
<1> HIDE DEF after
<1>7. \A n \in 0..N : after[n] = Rec(after, n)
  <2> HIDE DEF Rec, N
  <2> QED BY <1>6
<1> QED BY <1>5, <1>7

LEMMA RestoreTableKeeps ==
  ASSUME NEW acc, MergeOK(acc), NEW f, Database(f.db), NEW t \in IdTables
  PROVE  MergeOK(RestoreTable(acc, f, t))
<1>1. CASE t \notin f.has
  BY <1>1 DEF RestoreTable
<1>2. CASE t \in f.has
  <2>1. f.db.seq[t] \in Nat
    BY DEF Database
  <2>2. PICK g : /\ g[0] = acc /\ \A n \in 0..f.db.seq[t] : n # 0 => g[n] = NextRow(g[n - 1], f, t, n)
                 /\ RestoreTable(acc, f, t) = g[f.db.seq[t]]
    BY <1>2, <2>1, RestoreTableIs
  <2> DEFINE S == {n \in Nat : n <= f.db.seq[t] => MergeOK(g[n])}
  <2>3. 0 \in S
    BY <2>2
  <2>4. ASSUME NEW n \in Nat, n \in S PROVE n + 1 \in S
    <3> SUFFICES ASSUME n + 1 <= f.db.seq[t] PROVE MergeOK(g[n + 1])
      OBVIOUS
    <3>1. n <= f.db.seq[t] /\ n + 1 \in 0..f.db.seq[t] /\ n + 1 # 0 /\ (n + 1) - 1 = n
      BY <2>1
    <3>2. MergeOK(g[n])
      BY <2>4, <3>1
    <3>3. g[n + 1] = NextRow(g[n], f, t, n + 1)
      BY <2>2, <3>1
    <3>4. CASE n + 1 \notin DOMAIN f.db[t] \/ Orphan(g[n], t, f.db[t][n + 1])
      BY <3>2, <3>3, <3>4 DEF NextRow
    <3>5. CASE n + 1 \in DOMAIN f.db[t] /\ ~Orphan(g[n], t, f.db[t][n + 1])
      <4>1. g[n + 1] = RestoreRow(g[n], t, n + 1, f.db[t][n + 1])
        BY <3>3, <3>5 DEF NextRow
      <4>2. DOMAIN f.db[t][n + 1] = Columns(t)
        BY <3>5 DEF Database
      <4> QED BY <3>2, <3>5, <4>1, <4>2, RestoreRowKeeps
    <3> QED BY <3>4, <3>5
  <2>5. \A n \in Nat : n \in S
    <3> HIDE DEF S
    <3> QED BY <2>3, <2>4, Inductive
  <2> QED BY <2>1, <2>2, <2>5
<1> QED BY <1>1, <1>2

LEMMA RestoreNamedKeeps ==
  ASSUME NEW acc, MergeOK(acc), NEW f, Database(f.db), NEW t \in Tables \ IdTables
  PROVE  MergeOK(RestoreNamed(acc, f, t))
<1>1. CASE t \notin f.has
  BY <1>1 DEF RestoreNamed
<1>2. CASE t \in f.has
  <2> DEFINE row(n) == LET r == f.db[t][n]
                       IN  CASE t = "keys" -> RemapGrants(acc, r)
                             [] t = "users" -> IF n \in f.spared \intersect DOMAIN acc.db[t] THEN acc.db[t][n] ELSE r
                             [] OTHER -> [sys |-> Mapped(acc, "systems", r.sys),
                                          tg |-> Mapped(acc, "talkgroups", r.tg)]
             names == DOMAIN f.db[t]
             table == [n \in DOMAIN acc.db[t] \union names |-> IF n \in names THEN row(n) ELSE acc.db[t][n]]
             d == [acc.db EXCEPT ![t] = table]
             count == acc.created + Cardinality(names \ DOMAIN acc.db[t])
  <2>1. RestoreNamed(acc, f, t) = [acc EXCEPT !.db[t] = table, !.created = count]
    BY <1>2 DEF RestoreNamed
  <2>2. /\ DOMAIN acc = Work /\ acc.ok = TRUE /\ Schema(acc.db) /\ DOMAIN acc.map = IdTables
        /\ \A u \in IdTables : \A i \in DOMAIN acc.map[u] : acc.map[u][i] \in DOMAIN acc.db[u]
    BY DEF MergeOK
  <2>3. DOMAIN acc.db = Tables \union {"seq"}
    BY <2>2, SchemaIs
  <2>4. t = "monitors" => \A n : /\ DOMAIN row(n) = {"sys", "tg"} /\ row(n).sys \in DOMAIN acc.db.systems \union {NoId}
                                 /\ row(n).tg \in DOMAIN acc.db.talkgroups \union {NoId}
    <3> SUFFICES ASSUME t = "monitors", NEW n
                 PROVE /\ DOMAIN row(n) = {"sys", "tg"} /\ row(n).sys \in DOMAIN acc.db.systems \union {NoId}
                       /\ row(n).tg \in DOMAIN acc.db.talkgroups \union {NoId}
      OBVIOUS
    <3>1. row(n) = [sys |-> Mapped(acc, "systems", f.db[t][n].sys), tg |-> Mapped(acc, "talkgroups", f.db[t][n].tg)]
      OBVIOUS
    <3>2. /\ Mapped(acc, "systems", f.db[t][n].sys) \in DOMAIN acc.db.systems \union {NoId}
          /\ Mapped(acc, "talkgroups", f.db[t][n].tg) \in DOMAIN acc.db.talkgroups \union {NoId}
      BY MappedExists, TableNames
    <3> HIDE DEF row
    <3> QED BY <3>1, <3>2
  <2> HIDE DEF row
  <2>5. DOMAIN d = Tables \union {"seq"} /\ d.seq = acc.db.seq /\ \A u \in Tables : u # t => d[u] = acc.db[u]
    <3> HIDE DEF table
    <3> QED BY <2>3, TableNames
  <2>6. t = "monitors" => d.monitors = table
    <3> HIDE DEF table
    <3> QED BY <2>3, TableNames
  <2> HIDE DEF d
  <2>7. \A u \in IdTables : d[u] = acc.db[u]
    BY <2>5, TableNames
  <2>8. d.systems = acc.db.systems /\ d.groups = acc.db.groups /\ d.tags = acc.db.tags /\ d.talkgroups = acc.db.talkgroups
    BY <2>7, TableNames
  <2>9. \A m \in DOMAIN d.monitors : /\ DOMAIN d.monitors[m] = {"sys", "tg"}
                                     /\ d.monitors[m].sys \in DOMAIN d.systems \union {NoId}
                                     /\ d.monitors[m].tg \in DOMAIN d.talkgroups \union {NoId}
    <3>1. \A m \in DOMAIN acc.db.monitors : /\ DOMAIN acc.db.monitors[m] = {"sys", "tg"}
                                            /\ acc.db.monitors[m].sys \in DOMAIN d.systems \union {NoId}
                                            /\ acc.db.monitors[m].tg \in DOMAIN d.talkgroups \union {NoId}
      BY <2>2, <2>8, SchemaIs
    <3>2. CASE t = "monitors"
      BY <2>4, <2>6, <2>8, <3>1, <3>2
    <3>3. CASE t # "monitors"
      BY <2>5, <3>1, <3>3, TableNames
    <3> QED BY <3>2, <3>3
  <2>10. \A u \in IdTables : d.seq[u] \in Nat /\ DOMAIN d[u] \subseteq 1..d.seq[u]
    BY <2>2, <2>5, <2>7, SchemaIs
  <2>11. \A u \in IdTables : \A i \in DOMAIN d[u] : DOMAIN d[u][i] = Columns(u)
    BY <2>2, <2>7, SchemaIs
  <2>12. \A u \in IdTables : \A i, j \in DOMAIN d[u] : UniqueKey(u, d[u][i]) = UniqueKey(u, d[u][j]) => i = j
    BY <2>2, <2>7, SchemaIs
  <2>13. \A u \in {"talkgroups", "units"} : \A i \in DOMAIN d[u] : d[u][i].sys \in DOMAIN d.systems
    BY <2>2, <2>7, <2>8, SchemaIs, TableNames
  <2>14. \A g \in DOMAIN d.talkgroups : LabelsIn(d, d.talkgroups[g])
    BY <2>2, <2>8, SchemaIs DEF LabelsIn
  <2>15. DOMAIN d.seq = IdTables
    BY <2>2, <2>5, SchemaIs
  <2>16. Schema(d)
    <3>1. IsFiniteSet(names) /\ IsFiniteSet(DOMAIN acc.db[t])
      BY <2>2, SchemaIs DEF Database
    <3>2. IsFiniteSet(DOMAIN d[t])
      <4>1. d[t] = table
        <5> HIDE DEF table
        <5> QED BY <2>3 DEF d
      <4>2. IsFiniteSet(DOMAIN acc.db[t] \union names)
        BY <3>1, FS_Union
      <4> QED BY <4>1, <4>2
    <3>3. \A u \in Tables \ IdTables : IsFiniteSet(DOMAIN d[u])
      BY <2>2, <2>5, <3>2, SchemaIs
    <3> QED BY <2>5, <2>9, <2>10, <2>11, <2>12, <2>13, <2>14, <2>15, <3>3, IsSchema
  <2> DEFINE out == [acc EXCEPT !.db[t] = table, !.created = count]
  <2>17. DOMAIN out = Work /\ out.ok = TRUE /\ out.db = d /\ out.map = acc.map
    <3> HIDE DEF table, count
    <3> QED BY <2>2 DEF Work, d
  <2> HIDE DEF out
  <2> QED BY <2>1, <2>2, <2>7, <2>16, <2>17 DEF MergeOK, out
<1> QED BY <1>1, <1>2

LEMMA StartOK ==
  ASSUME NEW d, Schema(d)
  PROVE  MergeOK(Start(d))
<1> DEFINE m == [t \in IdTables |-> <<>>]
<1>1. DOMAIN m = IdTables /\ \A t \in IdTables : m[t] = <<>>
  OBVIOUS
<1>2. \A t \in IdTables : DOMAIN m[t] = {}
  BY <1>1
<1> HIDE DEF m
<1>3. Start(d) = [db |-> d, map |-> m, created |-> 0, removed |-> 0, ok |-> TRUE]
  BY DEF Start, m
<1> QED BY <1>1, <1>2, <1>3 DEF MergeOK, Work

LEMMA MergeKeeps ==
  ASSUME NEW d, Schema(d), NEW f, Database(f.db)
  PROVE  MergeOK(Merge(d, f))
<1> DEFINE a == RestoreTable(Start(d), f, "groups")
           b == RestoreTable(a, f, "tags")
           c == RestoreTable(b, f, "systems")
           e == RestoreTable(c, f, "talkgroups")
           g == RestoreTable(e, f, "units")
           h == RestoreNamed(g, f, "users")
           i == RestoreNamed(h, f, "keys")
           j == RestoreNamed(i, f, "monitors")
<1>1. Merge(d, f) = j
  BY DEF Merge
<1>2. MergeOK(a)
  BY StartOK, RestoreTableKeeps, TableNames
<1> HIDE DEF a
<1>3. MergeOK(b)
  BY <1>2, RestoreTableKeeps, TableNames
<1> HIDE DEF b
<1>4. MergeOK(c)
  BY <1>3, RestoreTableKeeps, TableNames
<1> HIDE DEF c
<1>5. MergeOK(e)
  BY <1>4, RestoreTableKeeps, TableNames
<1> HIDE DEF e
<1>6. MergeOK(g)
  BY <1>5, RestoreTableKeeps, TableNames
<1> HIDE DEF g
<1>7. MergeOK(h)
  BY <1>6, RestoreNamedKeeps, TableNames
<1> HIDE DEF h
<1>8. MergeOK(i)
  BY <1>7, RestoreNamedKeeps, TableNames
<1> HIDE DEF i
<1>9. MergeOK(j)
  BY <1>8, RestoreNamedKeeps, TableNames
<1> QED BY <1>1, <1>9

\* What is left after each removal is whole, if the transaction goes on.
RemoveOK(acc) == DOMAIN acc = Work /\ acc.ok \in BOOLEAN /\ (acc.ok = TRUE => Schema(acc.db))

LEMMA RemovalKeeps ==
  ASSUME NEW acc, RemoveOK(acc), NEW d, NEW n, NEW ok \in BOOLEAN, acc.ok = TRUE /\ ok = TRUE => Schema(d)
  PROVE  RemoveOK(Removal(acc, d, n, ok))
<1> DEFINE out == Removal(acc, d, n, ok)
<1>1. DOMAIN out = Work /\ out.db = d /\ out.ok = (acc.ok /\ ok)
  BY DEF Removal, RemoveOK, Work
<1> HIDE DEF out
<1> QED BY <1>1 DEF RemoveOK, out

LEMMA RemoveRowsKeeps ==
  ASSUME NEW acc, RemoveOK(acc), NEW f, NEW t \in {"talkgroups", "units"}
  PROVE  RemoveOK(RemoveRows(acc, f, t))
<1> DEFINE gone == {i \in DOMAIN acc.db[t] \ Kept(acc, t) : acc.db[t][i].sys \in Kept(acc, "systems")}
           ok == t = "talkgroups" => \A g \in gone : ~Monitored(acc.db, t, g)
<1>1. CASE ~{t, "systems"} \subseteq f.has
  BY <1>1 DEF RemoveRows
<1>2. CASE {t, "systems"} \subseteq f.has
  <2>1. RemoveRows(acc, f, t) = Removal(acc, Drop(acc.db, t, gone), Cardinality(gone), ok)
    BY <1>2 DEF RemoveRows
  <2>2. ASSUME acc.ok = TRUE, ok = TRUE PROVE Schema(Drop(acc.db, t, gone))
    <3>1. Schema(acc.db)
      BY <2>2 DEF RemoveOK
    <3>2. CASE t = "talkgroups"
      <4>1. \A g \in gone : ~Monitored(acc.db, "talkgroups", g)
        BY <2>2, <3>2
      <4> HIDE DEF gone
      <4> QED BY <3>1, <3>2, <4>1, DropTalkgroupsKeeps
    <3>3. CASE t = "units"
      <4> HIDE DEF gone
      <4> QED BY <3>1, <3>3, DropUnitsKeeps
    <3> QED BY <3>2, <3>3
  <2>3. ok \in BOOLEAN
    OBVIOUS
  <2> HIDE DEF ok, gone
  <2> QED BY <2>1, <2>2, <2>3, RemovalKeeps
<1> QED BY <1>1, <1>2

LEMMA RemoveLabelsKeeps ==
  ASSUME NEW acc, RemoveOK(acc), NEW f, NEW kind \in Kinds
  PROVE  RemoveOK(RemoveLabels(acc, f, kind))
<1> DEFINE gone == DOMAIN acc.db[kind] \ Kept(acc, kind)
           d == MoveTalkgroups(acc.db, kind, gone, NoId)
<1>1. CASE kind \notin f.has
  BY <1>1 DEF RemoveLabels
<1>2. CASE kind \in f.has
  <2>1. RemoveLabels(acc, f, kind) = Removal(acc, Drop(d, kind, gone), Cardinality(gone), TRUE)
    BY <1>2 DEF RemoveLabels
  <2>2. ASSUME acc.ok = TRUE PROVE Schema(Drop(d, kind, gone))
    <3>1. Schema(acc.db)
      BY <2>2 DEF RemoveOK
    <3>2. Schema(d)
      BY <3>1, MoveKeeps
    <3>3. UsersOf(d, kind, gone \ {NoId}) = {}
      <4>1. /\ DOMAIN d.talkgroups = DOMAIN acc.db.talkgroups
            /\ \A g \in DOMAIN acc.db.talkgroups :
                 d.talkgroups[g] = IF g \in UsersOf(acc.db, kind, gone) THEN [acc.db.talkgroups[g] EXCEPT ![LabelColumn(kind)] = NoId]
                                   ELSE acc.db.talkgroups[g]
        <5> HIDE DEF gone
        <5> QED BY <3>1, Moves
      <4>2. \A g \in DOMAIN acc.db.talkgroups : LabelColumn(kind) \in DOMAIN acc.db.talkgroups[g]
        <5>1. \A g \in DOMAIN acc.db.talkgroups : DOMAIN acc.db.talkgroups[g] = {"sys", "num", "label", "group", "tag"}
          BY <3>1, SchemaIs, TableNames, ColumnsOf
        <5> QED BY <5>1 DEF LabelColumn
      <4> HIDE DEF d, gone
      <4> QED BY <4>1, <4>2 DEF UsersOf
    <3> HIDE DEF d, gone
    <3> QED BY <3>2, <3>3, DropLabelsKeeps
  <2> HIDE DEF d, gone
  <2> QED BY <2>1, <2>2, RemovalKeeps
<1> QED BY <1>1, <1>2

LEMMA RemoveNamedKeeps ==
  ASSUME NEW acc, RemoveOK(acc), NEW f, NEW t \in Tables \ IdTables
  PROVE  RemoveOK(RemoveNamed(acc, f, t))
<1> DEFINE leftToCascade(n) == /\ t = "monitors" /\ "systems" \in f.has
                               /\ acc.db[t][n].sys \notin Kept(acc, "systems") \union {NoId}
           stays(n) == t = "users" /\ n \in f.spared
           gone == {n \in DOMAIN acc.db[t] \ DOMAIN f.db[t] : ~leftToCascade(n) /\ ~stays(n)}
<1>1. CASE t \notin f.has
  BY <1>1 DEF RemoveNamed
<1>2. CASE t \in f.has
  <2>1. RemoveNamed(acc, f, t) = Removal(acc, Drop(acc.db, t, gone), Cardinality(gone), TRUE)
    BY <1>2 DEF RemoveNamed
  <2> HIDE DEF gone
  <2>2. ASSUME acc.ok = TRUE PROVE Schema(Drop(acc.db, t, gone))
    BY <2>2, DropNamedKeeps DEF RemoveOK
  <2> QED BY <2>1, <2>2, RemovalKeeps
<1> QED BY <1>1, <1>2

LEMMA RemoveSystemsKeeps ==
  ASSUME NEW acc, RemoveOK(acc), NEW f
  PROVE  RemoveOK(RemoveSystems(acc, f))
<1> DEFINE gone == DOMAIN acc.db.systems \ Kept(acc, "systems")
           count == Cardinality(gone) + Cardinality(TalkgroupsOf(acc.db, gone)) + Cardinality(UnitsOf(acc.db, gone))
<1>1. CASE "systems" \notin f.has
  BY <1>1 DEF RemoveSystems
<1>2. CASE "systems" \in f.has
  <2>1. RemoveSystems(acc, f) = Removal(acc, DropSystems(acc.db, gone), count, MayDropSystems(acc.db, gone))
    BY <1>2 DEF RemoveSystems
  <2>2. MayDropSystems(acc.db, gone) \in BOOLEAN
    BY DEF MayDropSystems
  <2>3. ASSUME acc.ok = TRUE, MayDropSystems(acc.db, gone) = TRUE PROVE Schema(DropSystems(acc.db, gone))
    <3>1. gone \intersect DOMAIN acc.db.systems = gone
      OBVIOUS
    <3> HIDE DEF gone
    <3> QED BY <2>3, <3>1, DropSystemsKeeps DEF RemoveOK
  <2> HIDE DEF gone, count
  <2> QED BY <2>1, <2>2, <2>3, RemovalKeeps
<1> QED BY <1>1, <1>2

LEMMA ImportKeeps ==
  ASSUME NEW d, Schema(d), NEW f, Database(f.db)
  PROVE  RemoveOK(ImportConfig(d, f))
<1> DEFINE a == Merge(d, f)
           b == RemoveRows(a, f, "talkgroups")
           c == RemoveRows(b, f, "units")
           e == RemoveLabels(c, f, "groups")
           g == RemoveLabels(e, f, "tags")
           h == RemoveNamed(g, f, "users")
           i == RemoveNamed(h, f, "keys")
           j == RemoveNamed(i, f, "monitors")
           k == RemoveSystems(j, f)
<1>1. MergeOK(a)
  BY MergeKeeps
<1>2. CASE f.mode # "replace"
  BY <1>1, <1>2 DEF ImportConfig, MergeOK, RemoveOK
<1>3. CASE f.mode = "replace"
  <2>1. ImportConfig(d, f) = k
    BY <1>3 DEF ImportConfig, removeAbsent
  <2>2. RemoveOK(a)
    BY <1>1 DEF MergeOK, RemoveOK
  <2> HIDE DEF a
  <2>3. RemoveOK(b)
    BY <2>2, RemoveRowsKeeps
  <2> HIDE DEF b
  <2>4. RemoveOK(c)
    BY <2>3, RemoveRowsKeeps
  <2> HIDE DEF c
  <2>5. RemoveOK(e)
    BY <2>4, RemoveLabelsKeeps, TableNames
  <2> HIDE DEF e
  <2>6. RemoveOK(g)
    BY <2>5, RemoveLabelsKeeps, TableNames
  <2> HIDE DEF g
  <2>7. RemoveOK(h)
    BY <2>6, RemoveNamedKeeps, TableNames
  <2> HIDE DEF h
  <2>8. RemoveOK(i)
    BY <2>7, RemoveNamedKeeps, TableNames
  <2> HIDE DEF i
  <2>9. RemoveOK(j)
    BY <2>8, RemoveNamedKeeps, TableNames
  <2> HIDE DEF j
  <2>10. RemoveOK(k)
    BY <2>9, RemoveSystemsKeeps
  <2> QED BY <2>1, <2>10
<1> QED BY <1>2, <1>3

-----------------------------------------------------------------------------
(* What the listeners are sent.                                            *)

\* The frame of one grant is the part of the whole that it opens.
LEMMA PayloadOf ==
  ASSUME NEW d, NEW grants
  PROVE  buildCFGPayload(d, grants) = {e \in buildCFGPayload(d, {AllSystems}) : Hears(grants, e[1])}
<1> DEFINE rows(s) == {<<d.talkgroups[g].num, d.talkgroups[g].label,
                         LabelText(d, "groups", d.talkgroups[g].group), LabelText(d, "tags", d.talkgroups[g].tag)>> :
                           g \in TalkgroupsOf(d, {s})}
           row(s) == <<s, d.systems[s].num, d.systems[s].label, rows(s)>>
<1>1. \A x : Hears({AllSystems}, x)
  BY DEF Hears
<1>2. \A g : buildCFGPayload(d, g) = {row(s) : s \in {x \in DOMAIN d.systems : Hears(g, x)}}
  BY DEF buildCFGPayload
<1>3. \A s : row(s)[1] = s
  OBVIOUS
<1> HIDE DEF row
<1>4. buildCFGPayload(d, {AllSystems}) = {row(s) : s \in DOMAIN d.systems}
  BY <1>1, <1>2
<1> DEFINE Mine == {x \in DOMAIN d.systems : Hears(grants, x)}
           Part == {e \in buildCFGPayload(d, {AllSystems}) : Hears(grants, e[1])}
<1>5. buildCFGPayload(d, grants) = {row(s) : s \in Mine}
  BY <1>2
<1>6. \A e : e \in Part <=> \E s \in Mine : e = row(s)
  BY <1>3, <1>4
<1> HIDE DEF Mine, Part
<1>7. buildCFGPayload(d, grants) = Part
  BY <1>5, <1>6
<1> QED BY <1>7 DEF Part

LEMMA SamePayload ==
  ASSUME NEW d, NEW e, buildCFGPayload(d, {AllSystems}) = buildCFGPayload(e, {AllSystems}), NEW grants
  PROVE  buildCFGPayload(d, grants) = buildCFGPayload(e, grants)
<1>1. buildCFGPayload(d, grants) = {x \in buildCFGPayload(d, {AllSystems}) : Hears(grants, x[1])}
  BY PayloadOf
<1>2. buildCFGPayload(e, grants) = {x \in buildCFGPayload(e, {AllSystems}) : Hears(grants, x[1])}
  BY PayloadOf
<1> QED BY <1>1, <1>2

\* It is made of systems, talkgroups and the labels these refer to.
LEMMA PayloadMadeOf ==
  ASSUME NEW d, Schema(d), NEW e, DOMAIN e.systems = DOMAIN d.systems, e.talkgroups = d.talkgroups,
         \A s \in DOMAIN d.systems : e.systems[s].num = d.systems[s].num /\ e.systems[s].label = d.systems[s].label,
         \A kind \in Kinds : NoId \notin DOMAIN e[kind] /\ \A i \in DOMAIN d[kind] : i \in DOMAIN e[kind] /\ e[kind][i] = d[kind][i]
  PROVE  buildCFGPayload(d, {AllSystems}) = buildCFGPayload(e, {AllSystems})
<1> DEFINE entry(b, g) == <<b.talkgroups[g].num, b.talkgroups[g].label,
                            LabelText(b, "groups", b.talkgroups[g].group), LabelText(b, "tags", b.talkgroups[g].tag)>>
           rows(b, s) == {entry(b, g) : g \in TalkgroupsOf(b, {s})}
           row(b, s) == <<s, b.systems[s].num, b.systems[s].label, rows(b, s)>>
<1>1. /\ buildCFGPayload(d, {AllSystems}) = {row(d, s) : s \in {x \in DOMAIN d.systems : Hears({AllSystems}, x)}}
      /\ buildCFGPayload(e, {AllSystems}) = {row(e, s) : s \in {x \in DOMAIN e.systems : Hears({AllSystems}, x)}}
  BY DEF buildCFGPayload
<1>2. \A g \in DOMAIN d.talkgroups : entry(d, g) = entry(e, g)
  <2>1. TAKE g \in DOMAIN d.talkgroups
  <2>2. LabelsIn(d, d.talkgroups[g])
    BY SchemaIs
  <2>3. NoId \notin DOMAIN d.groups /\ NoId \notin DOMAIN d.tags
    BY SchemaIs, TableNames
  <2>4. LabelText(d, "groups", d.talkgroups[g].group) = LabelText(e, "groups", d.talkgroups[g].group)
    BY <2>2, <2>3, TableNames DEF LabelText, LabelsIn
  <2>5. LabelText(d, "tags", d.talkgroups[g].tag) = LabelText(e, "tags", d.talkgroups[g].tag)
    BY <2>2, <2>3, TableNames DEF LabelText, LabelsIn
  <2> QED BY <2>4, <2>5
<1>3. \A s : TalkgroupsOf(d, {s}) = TalkgroupsOf(e, {s}) /\ TalkgroupsOf(d, {s}) \subseteq DOMAIN d.talkgroups
  BY DEF TalkgroupsOf
<1>4. \A s : rows(d, s) = rows(e, s)
  <2>1. TAKE s
  <2> DEFINE T == TalkgroupsOf(d, {s})
  <2>2. T = TalkgroupsOf(e, {s}) /\ \A g \in T : entry(d, g) = entry(e, g)
    BY <1>2, <1>3
  <2> HIDE DEF entry, T
  <2>3. {entry(d, g) : g \in T} = {entry(e, g) : g \in T}
    BY <2>2
  <2> QED BY <2>2, <2>3 DEF T
<1> HIDE DEF rows
<1>5. \A s \in DOMAIN d.systems : row(d, s) = row(e, s)
  BY <1>4
<1>6. {x \in DOMAIN d.systems : Hears({AllSystems}, x)} = DOMAIN d.systems
  BY DEF Hears
<1> HIDE DEF row
<1>7. {row(d, s) : s \in DOMAIN d.systems} = {row(e, s) : s \in DOMAIN d.systems}
  BY <1>5
<1>8. buildCFGPayload(e, {AllSystems}) = {row(e, s) : s \in DOMAIN d.systems}
  BY <1>1, <1>6, Zenon
<1>9. buildCFGPayload(d, {AllSystems}) = {row(d, s) : s \in DOMAIN d.systems}
  BY <1>1, <1>6, Zenon
<1> QED BY <1>7, <1>8, <1>9, Zenon

LEMMA NewLabelUnheard ==
  ASSUME NEW d, Schema(d), NEW kind \in Kinds, NEW row
  PROVE  buildCFGPayload(d, {AllSystems}) = buildCFGPayload(Insert(d, kind, row), {AllSystems})
<1> DEFINE e == Insert(d, kind, row)
           new == d.seq[kind] + 1
<1>1. kind \in IdTables /\ Database(d)
  BY SchemaIs, TableNames
<1>2. /\ \A u \in Tables : u # kind => e[u] = d[u]
      /\ d.seq[kind] \in Nat /\ new \notin DOMAIN d[kind]
      /\ e[kind] = [i \in DOMAIN d[kind] \union {new} |-> IF i = new THEN row ELSE d[kind][i]]
  BY <1>1, Inserts
<1>3. new # NoId
  BY <1>2 DEF NoId
<1> HIDE DEF e, new
<1>4. e.systems = d.systems /\ e.talkgroups = d.talkgroups
  BY <1>2, TableNames
<1>5. \A k \in Kinds : NoId \notin DOMAIN d[k]
  BY SchemaIs, TableNames
<1>6. \A k \in Kinds : NoId \notin DOMAIN e[k] /\ \A i \in DOMAIN d[k] : i \in DOMAIN e[k] /\ e[k][i] = d[k][i]
  BY <1>2, <1>3, <1>5, TableNames
<1> QED BY <1>4, <1>6, PayloadMadeOf DEF e

LEMMA UnitsUnheard ==
  ASSUME NEW d, Schema(d), NEW ids
  PROVE  buildCFGPayload(d, {AllSystems}) = buildCFGPayload(Drop(d, "units", ids), {AllSystems})
<1> DEFINE e == Drop(d, "units", ids)
<1>1. /\ DOMAIN e = DOMAIN d /\ \A u \in Tables : u # "units" => e[u] = d[u]
      /\ e["units"] = [i \in DOMAIN d["units"] \ ids |-> d["units"][i]] /\ e.seq = d.seq
  BY Drops, TableNames
<1> HIDE DEF e
<1>2. e.systems = d.systems /\ e.talkgroups = d.talkgroups /\ \A k \in Kinds : e[k] = d[k] /\ NoId \notin DOMAIN d[k]
  BY <1>1, SchemaIs, TableNames
<1> QED BY <1>2, PayloadMadeOf DEF e

LEMMA BlockUnheard ==
  ASSUME NEW d, Schema(d), NEW s \in DOMAIN d.systems, NEW blocked
  PROVE  buildCFGPayload(d, {AllSystems}) = buildCFGPayload([d EXCEPT !.systems[s].blocked = blocked], {AllSystems})
<1> DEFINE e == [d EXCEPT !.systems[s].blocked = blocked]
<1>1. DOMAIN d = Tables \union {"seq"} /\ "systems" \in Tables
  BY SchemaIs, TableNames
<1>2. /\ \A u \in Tables : u # "systems" => e[u] = d[u]
      /\ DOMAIN e.systems = DOMAIN d.systems
      /\ \A i \in DOMAIN d.systems : e.systems[i] = IF i = s THEN [d.systems[s] EXCEPT !.blocked = blocked] ELSE d.systems[i]
  BY <1>1, TableNames
<1> HIDE DEF e
<1>3. \A i \in DOMAIN d.systems : e.systems[i].num = d.systems[i].num /\ e.systems[i].label = d.systems[i].label
  <2>1. DOMAIN d.systems[s] = {"num", "label", "auto", "blocked"}
    BY SchemaIs, TableNames, ColumnsOf
  <2> QED BY <1>2, <2>1
<1>4. e.talkgroups = d.talkgroups /\ \A k \in Kinds : e[k] = d[k] /\ NoId \notin DOMAIN d[k]
  BY <1>2, SchemaIs, TableNames
<1> QED BY <1>2, <1>3, <1>4, PayloadMadeOf DEF e

LEMMA ResolveUnheard ==
  ASSUME NEW d, Schema(d), NEW kind \in Kinds, NEW label
  PROVE  buildCFGPayload(d, {AllSystems}) = buildCFGPayload(Resolve(d, kind, label).db, {AllSystems})
<1>1. CASE label = ""
  BY <1>1 DEF Resolve
<1>2. CASE label # "" /\ Matches(d, kind, [label |-> label]) # {}
  BY <1>2 DEF Resolve
<1>3. CASE label # "" /\ Matches(d, kind, [label |-> label]) = {}
  BY <1>3, NewLabelUnheard DEF Resolve
<1> QED BY <1>1, <1>2, <1>3

LEMMA ResolveBothUnheard ==
  ASSUME NEW d, Schema(d), NEW group, NEW tag
  PROVE  buildCFGPayload(d, {AllSystems}) = buildCFGPayload(ResolveBoth(d, group, tag).db, {AllSystems})
<1> DEFINE g == Resolve(d, "groups", group)
<1>1. Schema(g.db) /\ buildCFGPayload(d, {AllSystems}) = buildCFGPayload(g.db, {AllSystems})
  BY ResolveKeeps, ResolveUnheard, TableNames
<1>2. buildCFGPayload(g.db, {AllSystems}) = buildCFGPayload(Resolve(g.db, "tags", tag).db, {AllSystems})
  <2> HIDE DEF g
  <2> QED BY <1>1, ResolveUnheard, TableNames
<1> QED BY <1>1, <1>2 DEF ResolveBoth

LEMMA GroupForUnheard ==
  ASSUME NEW w, WizardOK(w), NEW kind \in Kinds, NEW label
  PROVE  buildCFGPayload(w.db, {AllSystems}) = buildCFGPayload(groupFor(w, kind, label).db, {AllSystems})
<1> DEFINE has == {i \in DOMAIN w.known[kind] : w.known[kind][i].label = label}
           row == [label |-> label]
           id == w.db.seq[kind] + 1
           c == LabelColumn(kind)
           k == [i \in DOMAIN w.known[kind] \union {id} |-> IF i = id THEN row ELSE w.known[kind][i]]
<1>1. c \in {"group", "tag"}
  BY DEF LabelColumn
<1>2. CASE label = ""
  BY <1>2 DEF groupFor
<1>3. CASE label # "" /\ has # {}
  <2>1. groupFor(w, kind, label) = [w EXCEPT ![c] = CHOOSE i \in has : TRUE]
    BY <1>3 DEF groupFor
  <2> HIDE DEF c, has
  <2>2. groupFor(w, kind, label).db = w.db
    BY <1>1, <2>1
  <2> QED BY <2>2
<1>4. CASE label # "" /\ has = {} /\ Matches(w.db, kind, row) # {}
  <2>1. groupFor(w, kind, label) = [w EXCEPT !.ok = FALSE]
    BY <1>4 DEF groupFor
  <2> QED BY <2>1
<1>5. CASE label # "" /\ has = {} /\ Matches(w.db, kind, row) = {}
  <2>1. groupFor(w, kind, label) = [w EXCEPT !.db = Insert(w.db, kind, row), ![c] = id, !.known[kind] = k]
    BY <1>5 DEF groupFor
  <2> HIDE DEF c, id, k, row
  <2>2. groupFor(w, kind, label).db = Insert(w.db, kind, row)
    BY <1>1, <2>1 DEF WizardOK, Wizard
  <2> QED BY <2>2, NewLabelUnheard DEF WizardOK
<1> QED BY <1>2, <1>3, <1>4, <1>5

-----------------------------------------------------------------------------
(* The invariant.                                                          *)

\* The rows a request found are rows of a table.
RowsOf(found, t) == \A p \in found : DOMAIN p[2] = Columns(t)

Fields == {"ask", "pc", "read", "found", "left", "known", "frames", "after", "untold", "missed"}

RequestOK(q) ==
  /\ DOMAIN q = Fields /\ q.untold \in BOOLEAN /\ q.after \in {"done", "find"}
  /\ q.pc = "idle" => q = Idle
  /\ q.pc # "idle" => q.ask \in Asks
  /\ q.pc = "row" /\ q.ask.op \in TalkgroupImports => RowsOf(q.found, "talkgroups")
  /\ q.pc = "row" /\ q.ask.op \in UnitImports => RowsOf(q.found, "units")
  /\ q.pc \in {"resolve", "save"} /\ q.ask.op = "Upload" => RowsOf(q.found, "talkgroups")
  /\ q.pc \in {"save", "restore"} /\ q.ask.op \in {"ImportConfig", "Undo"} => Database(q.read.db)
  /\ q.pc \in {"scoped", "deliver"} => q.found \subseteq Restricted
  /\ q.pc = "deliver" => DOMAIN q.frames = q.found

ListenerOK(c) == DOMAIN c = {"at", "seen", "excuse"} /\ c.at \in {"out", "welcomed", "in"} /\ c.excuse \in BOOLEAN

\* A listener that is behind has a frame coming or a request still to send one.
Due(l) ==
  listeners[l].at = "in" /\ listeners[l].excuse = FALSE =>
    \/ listeners[l].seen = Config(l)
    \/ l \notin Restricted /\ channel # <<>>
    \/ \E r \in Requests : l \in Uninformed(requests[r])

Inv ==
  /\ Schema(db) /\ Database(snapshot.db)
  /\ DOMAIN requests = Requests /\ \A r \in Requests : RequestOK(requests[r])
  /\ Len(channel) <= QueueCap /\ \E S : channel \in Seq(S)
  /\ DOMAIN listeners = Listeners /\ \A l \in Listeners : ListenerOK(listeners[l])
  /\ work \in Nat /\ faults \in 0..MaxFaults
  /\ \A l \in Listeners : Due(l)

LEMMA IdleIs ==
  /\ DOMAIN Idle = Fields /\ Idle.pc = "idle" /\ Idle.untold = FALSE /\ Idle.after = "done" /\ Idle.ask = [op |-> "none"]
  /\ Uninformed(Idle) = {} /\ RequestOK(Idle)
<1>1. /\ DOMAIN Idle = Fields /\ Idle.pc = "idle" /\ Idle.untold = FALSE /\ Idle.after = "done" /\ Idle.ask = [op |-> "none"]
  BY DEF Idle, Opened, Fields
<1> QED BY <1>1 DEF Uninformed, RequestOK

LEMMA InvImplies == Inv => CatalogInv
<1> SUFFICES ASSUME Inv PROVE CatalogInv
  OBVIOUS
<1>1. TypeOK
  BY DEF Inv, TypeOK, RequestOK, ListenerOK
<1>2. ConfigReachesListeners
  <2> SUFFICES ASSUME channel = <<>>, \A r \in Requests : requests[r].pc = "idle",
                      NEW l \in Listeners, listeners[l].at = "in", ~listeners[l].excuse
               PROVE listeners[l].seen = Config(l)
    BY DEF ConfigReachesListeners
  <2>1. \A r \in Requests : Uninformed(requests[r]) = {}
    BY IdleIs DEF Inv, RequestOK
  <2>2. Due(l) /\ listeners[l].excuse = FALSE
    BY DEF Inv, ListenerOK
  <2> QED BY <2>1, <2>2 DEF Due
<1> QED BY <1>1, <1>2 DEF CatalogInv

LEMMA InitKeeps == Init => Inv
<1> SUFFICES ASSUME Init PROVE Inv
  OBVIOUS
<1>1. Schema(db) /\ db = FirstDb
  BY CatalogAssumption DEF Init
<1>2. Database(snapshot.db)
  BY <1>1, SchemaIs DEF Init
<1>3. DOMAIN requests = Requests /\ \A r \in Requests : RequestOK(requests[r])
  BY IdleIs DEF Init
<1>4. Len(channel) <= QueueCap /\ channel \in Seq({}) /\ faults \in 0..MaxFaults
  BY CatalogAssumption DEF Init
<1>5. PICK load \in Loads :
        /\ work = load.work
        /\ listeners = [l \in Listeners |->
             IF l \in load.connected
             THEN [at |-> "in", seen |-> buildCFGPayload(FirstDb, Grants[l]), excuse |-> FALSE]
             ELSE [at |-> "out", seen |-> {}, excuse |-> FALSE]]
  BY DEF Init
<1>6. DOMAIN listeners = Listeners /\ work \in Nat
  BY <1>5, CatalogAssumption
<1>7. \A l \in Listeners : ListenerOK(listeners[l]) /\ Due(l)
  <2>1. TAKE l \in Listeners
  <2>2. CASE l \in load.connected
    <3>1. listeners[l] = [at |-> "in", seen |-> buildCFGPayload(FirstDb, Grants[l]), excuse |-> FALSE]
      BY <1>5, <2>2
    <3> QED BY <1>1, <3>1 DEF ListenerOK, Due, Config
  <2>3. CASE l \notin load.connected
    <3>1. listeners[l] = [at |-> "out", seen |-> {}, excuse |-> FALSE]
      BY <1>5, <2>3
    <3> QED BY <3>1 DEF ListenerOK, Due
  <2> QED BY <2>2, <2>3
<1> QED BY <1>1, <1>2, <1>3, <1>4, <1>6, <1>7 DEF Inv

-----------------------------------------------------------------------------
(* What a step does to the invariant, whichever request takes it.          *)

\* The listeners are left alone: what they have to be told of is told of by
\* the requests after the step if it was by those before.
LEMMA QuietStep ==
  ASSUME Inv, NEW r \in Requests, DOMAIN requests' = Requests, \A x \in Requests : RequestOK(requests'[x]),
         \A x \in Requests : x # r => Uninformed(requests'[x]) = Uninformed(requests[x]),
         \/ Uninformed(requests'[r]) = Listeners
         \/ /\ Uninformed(requests[r]) \subseteq Uninformed(requests'[r])
            /\ buildCFGPayload(db', {AllSystems}) = buildCFGPayload(db, {AllSystems}),
         Schema(db'), Database(snapshot'.db), work' \in Nat, channel' = channel, listeners' = listeners, faults' = faults
  PROVE  Inv'
<1>1. \A l \in Listeners : Due(l)'
  <2> SUFFICES ASSUME NEW l \in Listeners, listeners'[l].at = "in" /\ listeners'[l].excuse = FALSE
               PROVE \/ listeners'[l].seen = Config(l)'
                     \/ l \notin Restricted /\ channel' # <<>>
                     \/ \E x \in Requests : l \in Uninformed(requests'[x])
    BY DEF Due, Restricted, Uninformed
  <2>1. CASE Uninformed(requests'[r]) = Listeners
    BY <2>1
  <2>2. CASE /\ Uninformed(requests[r]) \subseteq Uninformed(requests'[r])
             /\ buildCFGPayload(db', {AllSystems}) = buildCFGPayload(db, {AllSystems})
    <3>1. Config(l)' = Config(l)
      BY <2>2, SamePayload DEF Config
    <3>2. \/ listeners[l].seen = Config(l)
          \/ l \notin Restricted /\ channel # <<>>
          \/ \E x \in Requests : l \in Uninformed(requests[x])
      BY DEF Inv, Due
    <3> QED BY <2>2, <3>1, <3>2
  <2> QED BY <2>1, <2>2
<1>2. \A x \in Requests : RequestOK(requests[x])'
  BY DEF RequestOK, Restricted
<1>3. \A l \in Listeners : ListenerOK(listeners[l])'
  BY DEF Inv, ListenerOK
<1>4. Len(channel') <= QueueCap /\ (\E S : channel' \in Seq(S)) /\ DOMAIN listeners' = Listeners /\ faults' \in 0..MaxFaults
  BY DEF Inv
<1>5. Schema(db)' /\ Database(snapshot.db)'
  BY DEF Schema, Database, Matches, References, LabelsIn
<1> QED BY <1>1, <1>2, <1>3, <1>4, <1>5 DEF Inv

\* A request that ends excuses those it leaves uninformed.
LEMMA LastStep ==
  ASSUME Inv, NEW r \in Requests, DOMAIN requests' = Requests, requests'[r] = Idle,
         \A x \in Requests : RequestOK(requests'[x]),
         \A x \in Requests : x # r => Uninformed(requests'[x]) = Uninformed(requests[x]),
         buildCFGPayload(db', {AllSystems}) = buildCFGPayload(db, {AllSystems}), Excuse(Uninformed(requests[r])),
         Schema(db'), snapshot' = snapshot, work' = work, channel' = channel, faults' \in 0..MaxFaults
  PROVE  Inv'
<1>1. DOMAIN listeners' = Listeners
  BY DEF Excuse
<1>2. \A l \in Listeners : listeners'[l] = IF l \in Uninformed(requests[r]) THEN [listeners[l] EXCEPT !.excuse = TRUE] ELSE listeners[l]
  BY DEF Excuse
<1>3. \A l \in Listeners : ListenerOK(listeners[l])
  BY DEF Inv
<1>4. \A l \in Listeners : ListenerOK(listeners'[l])
  BY <1>2, <1>3 DEF ListenerOK
<1>5. \A l \in Listeners : Due(l)'
  <2> SUFFICES ASSUME NEW l \in Listeners, listeners'[l].at = "in" /\ listeners'[l].excuse = FALSE
               PROVE \/ listeners'[l].seen = Config(l)'
                     \/ l \notin Restricted /\ channel' # <<>>
                     \/ \E x \in Requests : l \in Uninformed(requests'[x])
    BY DEF Due, Restricted, Uninformed
  <2>1. l \notin Uninformed(requests[r]) /\ listeners'[l] = listeners[l]
    BY <1>2, <1>3 DEF ListenerOK
  <2>2. Config(l)' = Config(l)
    BY SamePayload DEF Config
  <2>3. \/ listeners[l].seen = Config(l)
        \/ l \notin Restricted /\ channel # <<>>
        \/ \E x \in Requests : l \in Uninformed(requests[x])
    BY <2>1 DEF Inv, Due
  <2> QED BY <2>1, <2>2, <2>3
<1>6. \A x \in Requests : RequestOK(requests[x])'
  BY DEF RequestOK, Restricted
<1>7. \A l \in Listeners : ListenerOK(listeners[l])'
  BY <1>4 DEF ListenerOK
<1>8. Len(channel') <= QueueCap /\ (\E S : channel' \in Seq(S)) /\ work' \in Nat
  BY DEF Inv
<1>9. Schema(db)' /\ Database(snapshot.db)'
  BY DEF Inv, Schema, Database, Matches, References, LabelsIn
<1> QED BY <1>1, <1>5, <1>6, <1>7, <1>8, <1>9 DEF Inv

Ending == {"idle", "scoped", "deliver"}

LEMMA Others ==
  ASSUME Inv, NEW r \in Requests, NEW d, NEW q, Write(r, d, q)
  PROVE  /\ DOMAIN requests' = Requests /\ db' = d
         /\ \A x \in Requests : x # r => RequestOK(requests'[x]) /\ Uninformed(requests'[x]) = Uninformed(requests[x])
<1>1. DOMAIN requests' = Requests /\ db' = d
  BY DEF Write
<1>2. ASSUME NEW x \in Requests, x # r
      PROVE RequestOK(requests'[x]) /\ Uninformed(requests'[x]) = Uninformed(requests[x])
  <2>1. RequestOK(requests[x])
    BY DEF Inv
  <2>2. CASE requests[x].pc = "idle"
    <3>1. requests'[x] = Idle /\ requests[x] = Idle
      BY <2>1, <2>2 DEF Write, RequestOK
    <3> QED BY <3>1, IdleIs
  <2>3. CASE requests[x].pc # "idle"
    <3> DEFINE old == requests[x]
               missed == old.missed \union (Facts(d) \ Facts(db))
    <3>1. requests'[x] = [old EXCEPT !.missed = missed]
      BY <1>2, <2>3 DEF Write
    <3>2. DOMAIN old = Fields
      BY <2>1 DEF RequestOK
    <3> HIDE DEF missed
    <3> DEFINE new == [old EXCEPT !.missed = missed]
    <3>3. /\ DOMAIN new = Fields /\ new.ask = old.ask /\ new.pc = old.pc /\ new.read = old.read /\ new.found = old.found
          /\ new.frames = old.frames /\ new.after = old.after /\ new.untold = old.untold
      BY <3>2 DEF Fields
    <3> HIDE DEF new
    <3>4. RequestOK(new)
      BY <2>1, <2>3, <3>3 DEF RequestOK
    <3>5. Uninformed(new) = Uninformed(old)
      BY <3>3 DEF Uninformed
    <3> QED BY <3>1, <3>4, <3>5 DEF new
  <2> QED BY <2>2, <2>3
<1> QED BY <1>1, <1>2

LEMMA WriteKeeps ==
  ASSUME Inv, NEW r \in Requests, requests[r].pc \notin Ending, NEW d, Schema(d),
         NEW q, RequestOK(q), q.untold = requests[r].untold, q.pc \notin Ending, Write(r, d, q), UNCHANGED Rest
  PROVE  Inv'
<1> DEFINE changed == buildCFGPayload(d, {AllSystems}) # buildCFGPayload(db, {AllSystems})
           untold == q.untold \/ changed
           new == [q EXCEPT !.untold = untold]
<1>1. requests'[r] = new
  BY IdleIs DEF Write, Ending
<1>2. DOMAIN q = Fields /\ q.untold \in BOOLEAN
  BY DEF RequestOK
<1>3. untold \in BOOLEAN /\ (changed => untold = TRUE) /\ (q.untold = TRUE => untold = TRUE)
  BY <1>2
<1> HIDE DEF untold
<1>4. /\ DOMAIN new = Fields /\ new.ask = q.ask /\ new.pc = q.pc /\ new.read = q.read /\ new.found = q.found
      /\ new.frames = q.frames /\ new.after = q.after /\ new.untold = untold
  BY <1>2 DEF Fields
<1> HIDE DEF new
<1>5. RequestOK(new)
  BY <1>3, <1>4 DEF RequestOK, Ending
<1>6. \/ Uninformed(new) = Listeners
      \/ /\ Uninformed(requests[r]) \subseteq Uninformed(new)
         /\ buildCFGPayload(d, {AllSystems}) = buildCFGPayload(db, {AllSystems})
  <2>1. CASE changed
    BY <1>3, <1>4, <2>1 DEF Uninformed, Ending
  <2>2. CASE ~changed
    <3>1. Uninformed(requests[r]) \subseteq Uninformed(new)
      <4>1. CASE q.untold = TRUE
        BY <1>3, <1>4, <4>1 DEF Uninformed, Ending
      <4>2. CASE q.untold = FALSE
        BY <4>2 DEF Uninformed
      <4> QED BY <1>2, <4>1, <4>2
    <3> QED BY <2>2, <3>1
  <2> QED BY <2>1, <2>2
<1>7. /\ DOMAIN requests' = Requests /\ db' = d
      /\ \A x \in Requests : x # r => RequestOK(requests'[x]) /\ Uninformed(requests'[x]) = Uninformed(requests[x])
  BY Others
<1>8. Database(snapshot'.db) /\ work' \in Nat
  BY DEF Inv, Rest
<1>9. \A x \in Requests : RequestOK(requests'[x])
  BY <1>1, <1>5, <1>7
<1>10. channel' = channel /\ listeners' = listeners /\ faults' = faults
  BY DEF Rest
<1> HIDE DEF changed
<1> QED BY <1>1, <1>6, <1>7, <1>8, <1>9, <1>10, QuietStep

LEMMA BecomeKeeps ==
  ASSUME Inv, NEW r \in Requests, requests[r].pc \notin {"scoped", "deliver"},
         NEW q, RequestOK(q), q.untold = requests[r].untold, q.pc \notin {"scoped", "deliver"}, Become(r, q),
         db' = db, channel' = channel, listeners' = listeners, faults' = faults, work' \in Nat, Database(snapshot'.db)
  PROVE  Inv'
<1>1. DOMAIN requests = Requests /\ Schema(db) /\ \A x \in Requests : RequestOK(requests[x])
  BY DEF Inv
<1>2. DOMAIN requests' = Requests /\ requests'[r] = q /\ \A x \in Requests : x # r => requests'[x] = requests[x]
  BY <1>1 DEF Become
<1>3. Uninformed(requests[r]) = Uninformed(requests'[r])
  BY <1>2 DEF Uninformed
<1>4. \A x \in Requests : RequestOK(requests'[x])
  BY <1>1, <1>2
<1>5. \A x \in Requests : x # r => Uninformed(requests'[x]) = Uninformed(requests[x])
  BY <1>2
<1>6. buildCFGPayload(db', {AllSystems}) = buildCFGPayload(db, {AllSystems}) /\ Schema(db')
  BY <1>1
<1> QED BY <1>2, <1>3, <1>4, <1>5, <1>6, QuietStep

LEMMA StopKeeps ==
  ASSUME Inv, NEW r \in Requests, NEW d, Schema(d), Stop(r, d),
         buildCFGPayload(db, {AllSystems}) = buildCFGPayload(d, {AllSystems})
  PROVE  Inv'
<1>1. Write(r, d, Idle) /\ Excuse(Uninformed(requests[r])) /\ UNCHANGED <<channel, snapshot, work, faults>>
  BY DEF Stop
<1>2. requests'[r] = Idle
  BY <1>1 DEF Write
<1>3. /\ DOMAIN requests' = Requests /\ db' = d
      /\ \A x \in Requests : x # r => RequestOK(requests'[x]) /\ Uninformed(requests'[x]) = Uninformed(requests[x])
  BY <1>1, Others
<1>4. \A x \in Requests : RequestOK(requests'[x])
  BY <1>2, <1>3, IdleIs
<1>5. faults' \in 0..MaxFaults
  BY <1>1 DEF Inv
<1> QED BY <1>1, <1>2, <1>3, <1>4, <1>5, LastStep

LEMMA ReturnKeeps ==
  ASSUME Inv, NEW r \in Requests, Return(r)
  PROVE  Inv'
<1>1. Schema(db) /\ Stop(r, db)
  BY DEF Inv, Return
<1> QED BY <1>1, StopKeeps

\* The fields a step of a request changes leave the others as they are.
LEMMA RequestIs ==
  ASSUME Inv, NEW r \in Requests
  PROVE  /\ RequestOK(requests[r]) /\ DOMAIN requests[r] = Fields
         /\ requests[r].pc # "idle" => requests[r].ask \in Asks /\ WellFormed(requests[r].ask)
BY CatalogAssumption DEF Inv, RequestOK

-----------------------------------------------------------------------------
(* Requests from one place in the code to the next.                        *)

Places == {"write", "move", "rows", "fetch", "silent", "cfg", "send", "find", "newSystem"}

LEMMA PlainPlace ==
  ASSUME NEW q, RequestOK(q), q.pc # "idle", NEW p, DOMAIN p = Fields, p.ask = q.ask, p.untold = q.untold,
         p.after \in {"done", "find"}, p.pc \in Places
  PROVE  RequestOK(p) /\ p.pc \notin Ending
<1>1. p.pc \notin {"idle", "row", "resolve", "save", "restore", "scoped", "deliver"} /\ p.pc \notin Ending
  BY DEF Places, Ending
<1> QED BY <1>1 DEF RequestOK

LEMMA NextRowOf ==
  ASSUME NEW q, RequestOK(q), q.pc # "idle", NEW pc \in {"cfg", "silent"}, NEW p, p = NextOr(q, pc)
  PROVE  RequestOK(p) /\ p.untold = q.untold /\ p.pc \notin Ending /\ DOMAIN p = Fields /\ p.ask = q.ask /\ p.pc \in Places
         /\ p.after = q.after
<1>1. DOMAIN q = Fields /\ q.after \in {"done", "find"}
  BY DEF RequestOK
<1>2. DOMAIN p = Fields /\ p.ask = q.ask /\ p.untold = q.untold /\ p.after = q.after /\ p.pc \in {"rows", "cfg", "silent"}
  BY <1>1 DEF NextOr, Fields
<1>3. p.pc \in Places
  BY <1>2 DEF Places
<1> QED BY <1>1, <1>2, <1>3, PlainPlace

LEMMA SaveKeeps ==
  ASSUME Inv, NEW r \in Requests, requests[r].pc = "write", NEW t \in IdTables, NEW id, NEW row,
         DOMAIN row = Columns(t), Save(r, t, id, row)
  PROVE  Inv'
<1>1. CASE ~Allowed(db, t, id, row)
  BY <1>1, ReturnKeeps DEF Save
<1>2. CASE Allowed(db, t, id, row)
  <2> DEFINE q == requests[r]
             at == <<t, IF id = NoId THEN db.seq[t] + 1 ELSE id>>
             p == [q EXCEPT !.pc = "fetch", !.read = at]
  <2>1. Write(r, Put(db, t, id, row), p) /\ UNCHANGED Rest
    BY <1>2 DEF Save
  <2>2. Schema(Put(db, t, id, row))
    BY <1>2, PutKeeps DEF Inv
  <2>3. RequestOK(q) /\ DOMAIN q = Fields /\ q.after \in {"done", "find"}
    BY RequestIs DEF RequestOK
  <2> HIDE DEF at
  <2>4. DOMAIN p = Fields /\ p.ask = q.ask /\ p.untold = q.untold /\ p.after = q.after /\ p.pc = "fetch"
    BY <2>3 DEF Fields
  <2> HIDE DEF p
  <2>5. RequestOK(p) /\ p.pc \notin Ending
    BY <2>3, <2>4, PlainPlace DEF Places
  <2>6. q.pc \notin Ending
    BY DEF Ending
  <2> QED BY <2>1, <2>2, <2>4, <2>5, <2>6, WriteKeeps
<1> QED BY <1>1, <1>2

\* A request that writes d and goes on at p.
LEMMA WriteOn ==
  ASSUME Inv, NEW r \in Requests, requests[r].pc \notin Ending, NEW d, Schema(d), NEW p,
         DOMAIN p = Fields, p.ask = requests[r].ask, p.untold = requests[r].untold, p.after \in {"done", "find"},
         p.pc \in Places, Write(r, d, p), UNCHANGED Rest
  PROVE  Inv'
<1>1. RequestOK(requests[r]) /\ requests[r].pc # "idle"
  BY RequestIs DEF Ending
<1>2. RequestOK(p) /\ p.pc \notin Ending
  BY <1>1, PlainPlace
<1> QED BY <1>2, WriteKeeps

LEMMA SystemsKeep ==
  ASSUME Inv, NEW r \in Requests, SystemsCreate(r) \/ SystemsUpdate(r) \/ SystemsDelete(r) \/ setBlocked(r)
  PROVE  Inv'
<1> DEFINE q == requests[r]
<1>1. RequestOK(q) /\ DOMAIN q = Fields /\ (q.pc # "idle" => WellFormed(q.ask)) /\ q.after \in {"done", "find"} /\ Schema(db)
  BY RequestIs DEF RequestOK, Inv
<1>2. CASE SystemsCreate(r)
  <2>1. q.pc = "write" /\ q.ask.op = "SystemsCreate" /\ Save(r, "systems", NoId, q.ask.row)
    BY <1>2 DEF SystemsCreate, At
  <2>2. DOMAIN q.ask.row = Columns("systems")
    BY <1>1, <2>1 DEF WellFormed
  <2> QED BY <2>1, <2>2, SaveKeeps, TableNames
<1>3. CASE SystemsUpdate(r)
  <2>1. q.pc = "write" /\ q.ask.op = "SystemsUpdate" /\ Save(r, "systems", q.ask.id, q.ask.row)
    BY <1>3 DEF SystemsUpdate, At
  <2>2. DOMAIN q.ask.row = Columns("systems")
    BY <1>1, <2>1 DEF WellFormed
  <2> QED BY <2>1, <2>2, SaveKeeps, TableNames
<1>4. CASE SystemsDelete(r)
  <2> DEFINE s == q.ask.id
             p == [q EXCEPT !.pc = "cfg"]
  <2>1. q.pc = "write"
    BY <1>4 DEF SystemsDelete, At
  <2>2. CASE Exists("systems", s) /\ ~MayDropSystems(db, {s})
    BY <1>4, <2>2, ReturnKeeps DEF SystemsDelete
  <2>3. CASE ~(Exists("systems", s) /\ ~MayDropSystems(db, {s}))
    <3>1. Write(r, DropSystems(db, {s}), p) /\ UNCHANGED Rest
      BY <1>4, <2>3 DEF SystemsDelete
    <3>2. MayDropSystems(db, {s} \intersect DOMAIN db.systems)
      <4>1. CASE s \in DOMAIN db.systems
        <5>1. {s} \intersect DOMAIN db.systems = {s}
          BY <4>1
        <5> QED BY <2>3, <4>1, <5>1 DEF Exists
      <4>2. CASE s \notin DOMAIN db.systems
        <5>1. {s} \intersect DOMAIN db.systems = {}
          BY <4>2
        <5> QED BY <5>1 DEF MayDropSystems, TalkgroupsOf
      <4> QED BY <4>1, <4>2
    <3>3. Schema(DropSystems(db, {s}))
      BY <1>1, <3>2, DropSystemsKeeps
    <3>4. DOMAIN p = Fields /\ p.ask = q.ask /\ p.untold = q.untold /\ p.after = q.after /\ p.pc \in Places
      BY <1>1 DEF Fields, Places
    <3> HIDE DEF p
    <3> QED BY <1>1, <2>1, <3>1, <3>3, <3>4, WriteOn DEF Ending
  <2> QED BY <2>2, <2>3
<1>5. CASE setBlocked(r)
  <2> DEFINE s == q.ask.id
             next == IF q.ask.op = "SystemsBlock" THEN q.read \union {q.ask.num} ELSE q.read \ {q.ask.num}
  <2>1. Stop(r, IF Exists("systems", s) THEN [db EXCEPT !.systems[s].blocked = next] ELSE db)
    BY <1>5 DEF setBlocked
  <2> HIDE DEF next
  <2>2. CASE Exists("systems", s)
    <3>1. /\ Schema([db EXCEPT !.systems[s].blocked = next])
          /\ buildCFGPayload(db, {AllSystems}) = buildCFGPayload([db EXCEPT !.systems[s].blocked = next], {AllSystems})
      BY <1>1, <2>2, BlockKeeps, BlockUnheard DEF Exists
    <3> QED BY <2>1, <2>2, <3>1, StopKeeps
  <2>3. CASE ~Exists("systems", s)
    BY <1>1, <2>1, <2>3, StopKeeps
  <2> QED BY <2>2, <2>3
<1> QED BY <1>2, <1>3, <1>4, <1>5

LEMMA InItsSystemIs ==
  ASSUME NEW t \in {"talkgroups", "units"}, NEW id, NEW row, DOMAIN row = Columns(t)
  PROVE  DOMAIN InItsSystem(t, id, row) = Columns(t)
BY DEF InItsSystem

LEMMA TalkgroupsKeep ==
  ASSUME Inv, NEW r \in Requests, TalkgroupsCreate(r) \/ TalkgroupsUpdate(r) \/ TalkgroupsDelete(r) \/ TalkgroupsBulk(r)
  PROVE  Inv'
<1> DEFINE q == requests[r]
<1>1. RequestOK(q) /\ DOMAIN q = Fields /\ (q.pc # "idle" => WellFormed(q.ask)) /\ q.after \in {"done", "find"} /\ Schema(db)
  BY RequestIs DEF RequestOK, Inv
<1>2. CASE TalkgroupsCreate(r)
  <2>1. q.pc = "write" /\ q.ask.op = "TalkgroupsCreate" /\ Save(r, "talkgroups", NoId, q.ask.row)
    BY <1>2 DEF TalkgroupsCreate, At
  <2>2. DOMAIN q.ask.row = Columns("talkgroups")
    BY <1>1, <2>1 DEF WellFormed
  <2> QED BY <2>1, <2>2, SaveKeeps, TableNames
<1>3. CASE TalkgroupsUpdate(r)
  <2> DEFINE row == InItsSystem("talkgroups", q.ask.id, q.ask.row)
  <2>1. q.pc = "write" /\ q.ask.op = "TalkgroupsUpdate" /\ Save(r, "talkgroups", q.ask.id, row)
    BY <1>3 DEF TalkgroupsUpdate, At
  <2>2. DOMAIN q.ask.row = Columns("talkgroups")
    BY <1>1, <2>1 DEF WellFormed
  <2>3. DOMAIN row = Columns("talkgroups")
    BY <2>2, InItsSystemIs
  <2> HIDE DEF row
  <2> QED BY <2>1, <2>3, SaveKeeps, TableNames
<1>4. CASE TalkgroupsDelete(r)
  <2> DEFINE g == Head(q.left)
             p == NextOr(q, "cfg")
             d == Drop(db, "talkgroups", {g})
  <2>1. q.pc = "rows"
    BY <1>4 DEF TalkgroupsDelete, At
  <2>2. Return(r) \/ ((Exists("talkgroups", g) => ~Monitored(db, "talkgroups", g)) /\ Write(r, d, p) /\ UNCHANGED Rest)
    BY <1>4 DEF TalkgroupsDelete
  <2>3. ASSUME Exists("talkgroups", g) => ~Monitored(db, "talkgroups", g), Write(r, d, p), UNCHANGED Rest
        PROVE Inv'
    <3>1. \A x \in {g} \intersect DOMAIN db.talkgroups : ~Monitored(db, "talkgroups", x)
      BY <2>3 DEF Exists
    <3>2. Schema(d)
      BY <1>1, <3>1, DropTalkgroupsKeeps
    <3>3. RequestOK(p) /\ p.untold = q.untold /\ p.pc \notin Ending
      BY <1>1, <2>1, NextRowOf
    <3> HIDE DEF p, d
    <3> QED BY <2>1, <2>3, <3>2, <3>3, WriteKeeps DEF Ending
  <2> QED BY <2>2, <2>3, ReturnKeeps
<1>5. CASE TalkgroupsBulk(r)
  <2> DEFINE g == Head(q.left)
             p == NextOr(q, "cfg")
             row == [db.talkgroups[g] EXCEPT !.group = q.ask.group]
             d == IF Exists("talkgroups", g) THEN Put(db, "talkgroups", g, row) ELSE db
  <2>1. q.pc = "rows"
    BY <1>5 DEF TalkgroupsBulk, At
  <2>2. \/ Return(r)
        \/ (Exists("talkgroups", g) => Allowed(db, "talkgroups", g, row)) /\ Write(r, d, p) /\ UNCHANGED Rest
    BY <1>5 DEF TalkgroupsBulk
  <2>3. ASSUME Exists("talkgroups", g) => Allowed(db, "talkgroups", g, row), Write(r, d, p), UNCHANGED Rest
        PROVE Inv'
    <3>1. Exists("talkgroups", g) => DOMAIN row = Columns("talkgroups")
      <4>1. \A x \in DOMAIN db.talkgroups : DOMAIN db.talkgroups[x] = Columns("talkgroups")
        BY <1>1, SchemaIs, TableNames
      <4> QED BY <4>1 DEF Exists
    <3>2. Schema(d)
      <4> HIDE DEF row
      <4>1. Exists("talkgroups", g) => Schema(Put(db, "talkgroups", g, row))
        BY <1>1, <2>3, <3>1, PutKeeps, TableNames
      <4> QED BY <1>1, <4>1
    <3>3. RequestOK(p) /\ p.untold = q.untold /\ p.pc \notin Ending
      BY <1>1, <2>1, NextRowOf
    <3> HIDE DEF p, d
    <3> QED BY <2>1, <2>3, <3>2, <3>3, WriteKeeps DEF Ending
  <2> QED BY <2>2, <2>3, ReturnKeeps
<1> QED BY <1>2, <1>3, <1>4, <1>5

LEMMA LabelsKeep ==
  ASSUME Inv, NEW r \in Requests, LabelsCreate(r) \/ LabelsUpdate(r) \/ MoveBeforeDelete(r) \/ LabelsDelete(r)
  PROVE  Inv'
<1> DEFINE q == requests[r]
           a == q.ask
<1>1. RequestOK(q) /\ DOMAIN q = Fields /\ (q.pc # "idle" => WellFormed(a)) /\ q.after \in {"done", "find"} /\ Schema(db)
  BY RequestIs DEF RequestOK, Inv
<1>2. CASE LabelsCreate(r)
  <2>1. q.pc = "write" /\ a.op = "LabelsCreate" /\ Save(r, a.kind, NoId, [label |-> a.label])
    BY <1>2 DEF LabelsCreate, At
  <2>2. a.kind \in Kinds
    BY <1>1, <2>1 DEF WellFormed
  <2>3. a.kind \in IdTables /\ DOMAIN [label |-> a.label] = Columns(a.kind)
    BY <2>2, TableNames, ColumnsOf
  <2> QED BY <2>1, <2>3, SaveKeeps
<1>3. CASE LabelsUpdate(r)
  <2>1. q.pc = "write" /\ a.op = "LabelsUpdate" /\ Save(r, a.kind, a.id, [label |-> a.label])
    BY <1>3 DEF LabelsUpdate, At
  <2>2. a.kind \in Kinds
    BY <1>1, <2>1 DEF WellFormed
  <2>3. a.kind \in IdTables /\ DOMAIN [label |-> a.label] = Columns(a.kind)
    BY <2>2, TableNames, ColumnsOf
  <2> QED BY <2>1, <2>3, SaveKeeps
<1>4. CASE MoveBeforeDelete(r)
  <2> DEFINE p == [q EXCEPT !.pc = "write"]
             d == MoveTalkgroups(db, a.kind, {a.id}, a.to)
  <2>1. q.pc = "move" /\ a.op = "LabelsDelete"
    BY <1>4 DEF MoveBeforeDelete, At
  <2>2. Return(r) \/ ((a.to # NoId => Exists(a.kind, a.to)) /\ Write(r, d, p) /\ UNCHANGED Rest)
    BY <1>4 DEF MoveBeforeDelete
  <2>3. ASSUME a.to # NoId => Exists(a.kind, a.to), Write(r, d, p), UNCHANGED Rest
        PROVE Inv'
    <3>1. a.kind \in Kinds
      BY <1>1, <2>1 DEF WellFormed
    <3>2. a.to \in DOMAIN db[a.kind] \union {NoId}
      BY <2>3 DEF Exists
    <3>3. Schema(d)
      BY <1>1, <3>1, <3>2, MoveKeeps
    <3>4. DOMAIN p = Fields /\ p.ask = q.ask /\ p.untold = q.untold /\ p.after = q.after /\ p.pc \in Places
      BY <1>1 DEF Fields, Places
    <3> HIDE DEF p, d
    <3> QED BY <1>1, <2>1, <2>3, <3>3, <3>4, WriteOn DEF Ending
  <2> QED BY <2>2, <2>3, ReturnKeeps
<1>5. CASE LabelsDelete(r)
  <2> DEFINE p == [q EXCEPT !.pc = "cfg"]
             d == Drop(db, a.kind, {a.id})
  <2>1. q.pc = "write" /\ a.op = "LabelsDelete"
    BY <1>5 DEF LabelsDelete, At
  <2>2. Return(r) \/ (UsersOf(db, a.kind, {a.id}) = {} /\ Write(r, d, p) /\ UNCHANGED Rest)
    BY <1>5 DEF LabelsDelete
  <2>3. ASSUME UsersOf(db, a.kind, {a.id}) = {}, Write(r, d, p), UNCHANGED Rest
        PROVE Inv'
    <3>1. a.kind \in Kinds
      BY <1>1, <2>1 DEF WellFormed
    <3>2. UsersOf(db, a.kind, {a.id} \ {NoId}) = {}
      BY <2>3 DEF UsersOf
    <3>3. Schema(d)
      BY <1>1, <3>1, <3>2, DropLabelsKeeps
    <3>4. DOMAIN p = Fields /\ p.ask = q.ask /\ p.untold = q.untold /\ p.after = q.after /\ p.pc \in Places
      BY <1>1 DEF Fields, Places
    <3> HIDE DEF p, d
    <3> QED BY <1>1, <2>1, <2>3, <3>3, <3>4, WriteOn DEF Ending
  <2> QED BY <2>2, <2>3, ReturnKeeps
<1> QED BY <1>2, <1>3, <1>4, <1>5

LEMMA UnitsKeep ==
  ASSUME Inv, NEW r \in Requests, UnitsCreate(r) \/ UnitsUpdate(r) \/ UnitsDelete(r)
  PROVE  Inv'
<1> DEFINE q == requests[r]
<1>1. RequestOK(q) /\ DOMAIN q = Fields /\ (q.pc # "idle" => WellFormed(q.ask)) /\ Schema(db)
  BY RequestIs DEF RequestOK, Inv
<1>2. CASE UnitsCreate(r)
  <2>1. q.pc = "write" /\ q.ask.op = "UnitsCreate" /\ Save(r, "units", NoId, q.ask.row)
    BY <1>2 DEF UnitsCreate, At
  <2>2. DOMAIN q.ask.row = Columns("units")
    BY <1>1, <2>1 DEF WellFormed
  <2> QED BY <2>1, <2>2, SaveKeeps, TableNames
<1>3. CASE UnitsUpdate(r)
  <2> DEFINE row == InItsSystem("units", q.ask.id, q.ask.row)
  <2>1. q.pc = "write" /\ q.ask.op = "UnitsUpdate" /\ Save(r, "units", q.ask.id, row)
    BY <1>3 DEF UnitsUpdate, At
  <2>2. DOMAIN q.ask.row = Columns("units")
    BY <1>1, <2>1 DEF WellFormed
  <2>3. DOMAIN row = Columns("units")
    BY <2>2, InItsSystemIs
  <2> HIDE DEF row
  <2> QED BY <2>1, <2>3, SaveKeeps, TableNames
<1>4. CASE UnitsDelete(r)
  <2> DEFINE d == Drop(db, "units", {q.ask.id})
  <2>1. Stop(r, d)
    BY <1>4 DEF UnitsDelete
  <2>2. Schema(d) /\ buildCFGPayload(db, {AllSystems}) = buildCFGPayload(d, {AllSystems})
    BY <1>1, DropUnitsKeeps, UnitsUnheard
  <2> HIDE DEF d
  <2> QED BY <2>1, <2>2, StopKeeps
<1> QED BY <1>2, <1>3, <1>4

-----------------------------------------------------------------------------
(* Imports.                                                                *)

LEMMA FoundRowIs ==
  ASSUME NEW q, NEW t, RowsOf(q.found, t), NEW new, DOMAIN new = Columns(t)
  PROVE  DOMAIN FoundRow(q, new) = Columns(t)
BY DEF RowsOf, FoundRow

LEMMA NewTalkgroupIs ==
  ASSUME NEW sys, NEW num
  PROVE  DOMAIN NewTalkgroup(sys, num) = Columns("talkgroups")
BY ColumnsOf DEF NewTalkgroup

LEMMA FindRowKeeps ==
  ASSUME Inv, NEW r \in Requests, FindRow(r)
  PROVE  Inv'
<1> DEFINE q == requests[r]
           t == IF q.ask.op \in UnitImports THEN "units" ELSE "talkgroups"
           found == {<<i, db[t][i]>> : i \in Matches(db, t, [sys |-> q.ask.sys, num |-> Head(q.left).num])}
           p == [q EXCEPT !.pc = "row", !.found = found]
<1>1. /\ q.pc = "rows" /\ q.ask.op \in TalkgroupImports \union UnitImports
      /\ Become(r, p) /\ UNCHANGED db /\ UNCHANGED Rest
  BY DEF FindRow, AtOneOf
<1>2. RequestOK(q) /\ DOMAIN q = Fields /\ q.after \in {"done", "find"} /\ q.untold \in BOOLEAN /\ Schema(db) /\ q.ask \in Asks
  BY <1>1, RequestIs DEF RequestOK, Inv
<1>3. t \in IdTables
  BY TableNames
<1>4. RowsOf(found, t)
  <2> HIDE DEF t
  <2>1. \A i \in DOMAIN db[t] : DOMAIN db[t][i] = Columns(t)
    BY <1>2, <1>3, SchemaIs
  <2> QED BY <2>1 DEF RowsOf, Matches
<1>5. q.ask.op \in TalkgroupImports => t = "talkgroups"
  BY DEF TalkgroupImports, UnitImports
<1>6. q.ask.op \in UnitImports => t = "units"
  OBVIOUS
<1> HIDE DEF found, t
<1>7. DOMAIN p = Fields /\ p.ask = q.ask /\ p.untold = q.untold /\ p.after = q.after /\ p.pc = "row" /\ p.found = found
  BY <1>2 DEF Fields
<1> HIDE DEF p
<1>8. RequestOK(p)
  BY <1>2, <1>4, <1>5, <1>6, <1>7 DEF RequestOK
<1>9. /\ db' = db /\ channel' = channel /\ listeners' = listeners /\ faults' = faults /\ work' \in Nat /\ Database(snapshot'.db)
  BY <1>1 DEF Rest, Inv
<1> QED BY <1>1, <1>7, <1>8, <1>9, BecomeKeeps

LEMMA TalkgroupsImportKeeps ==
  ASSUME Inv, NEW r \in Requests, TalkgroupsImport(r)
  PROVE  Inv'
<1> DEFINE q == requests[r]
           row == Head(q.left)
           over == q.ask.mode = "overwrite"
           old == FoundRow(q, NewTalkgroup(q.ask.sys, row.num))
           label(x, k) == IF x.ok /\ (over \/ old[LabelColumn(k)] = NoId) THEN groupFor(x, k, row[LabelColumn(k)]) ELSE x
           start == [db |-> db, known |-> q.known, group |-> NoId, tag |-> NoId, ok |-> TRUE]
           w1 == label(start, "groups")
           w == label(w1, "tags")
           next == [old EXCEPT !.label = Pick(@, row.label, "", over), !.group = Pick(@, w.group, NoId, over),
                               !.tag = Pick(@, w.tag, NoId, over)]
           same == q.found # {} /\ next = old
           d == IF same THEN w.db ELSE Put(w.db, "talkgroups", FoundId(q), next)
           p == [NextOr(q, "cfg") EXCEPT !.known = w.known]
<1>1. /\ q.pc = "row" /\ q.ask.op = "TalkgroupsImport"
      /\ IF ~w.ok \/ (~same /\ ~Allowed(w.db, "talkgroups", FoundId(q), next)) THEN Stop(r, w.db)
         ELSE Write(r, d, p) /\ UNCHANGED Rest
  BY Zenon DEF TalkgroupsImport, At
<1>2. RequestOK(q) /\ DOMAIN q = Fields /\ q.untold \in BOOLEAN /\ Schema(db)
  BY RequestIs DEF RequestOK, Inv
<1>3. DOMAIN old = Columns("talkgroups")
  <2>1. RowsOf(q.found, "talkgroups")
    BY <1>1, <1>2, Zenon DEF RequestOK, TalkgroupImports
  <2> QED BY <2>1, FoundRowIs, NewTalkgroupIs
<1>4. WizardOK(start) /\ start.db = db
  BY <1>2 DEF WizardOK, Wizard
<1> HIDE DEF start, old
<1>5. ASSUME NEW x, WizardOK(x), NEW k \in Kinds
      PROVE  WizardOK(label(x, k)) /\ buildCFGPayload(x.db, {AllSystems}) = buildCFGPayload(label(x, k).db, {AllSystems})
  BY <1>5, GroupForKeeps, GroupForUnheard
<1>6. WizardOK(w1) /\ buildCFGPayload(db, {AllSystems}) = buildCFGPayload(w1.db, {AllSystems})
  <2> HIDE DEF label
  <2> QED BY <1>4, <1>5, TableNames
<1> HIDE DEF w1
<1>7. WizardOK(w) /\ buildCFGPayload(db, {AllSystems}) = buildCFGPayload(w.db, {AllSystems})
  <2> HIDE DEF label
  <2> QED BY <1>5, <1>6, TableNames
<1> HIDE DEF w
<1>8. DOMAIN next = Columns("talkgroups")
  BY <1>3
<1> HIDE DEF next
<1>9. Schema(w.db) /\ w.ok \in BOOLEAN
  BY <1>7 DEF WizardOK
<1>10. CASE ~w.ok \/ (~same /\ ~Allowed(w.db, "talkgroups", FoundId(q), next))
  <2>1. Stop(r, w.db)
    BY <1>1, <1>10
  <2> QED BY <1>7, <1>9, <2>1, StopKeeps
<1>11. CASE ~(~w.ok \/ (~same /\ ~Allowed(w.db, "talkgroups", FoundId(q), next)))
  <2>1. Write(r, d, p) /\ UNCHANGED Rest
    BY <1>1, <1>11
  <2>2. Schema(d)
    BY <1>8, <1>9, <1>11, PutKeeps, TableNames
  <2> DEFINE n == NextOr(q, "cfg")
  <2>3. DOMAIN n = Fields /\ n.ask = q.ask /\ n.untold = q.untold /\ n.pc \in Places /\ n.after \in {"done", "find"}
    BY <1>1, <1>2, NextRowOf DEF RequestOK
  <2> HIDE DEF n, d
  <2>4. DOMAIN p = Fields /\ p.ask = q.ask /\ p.untold = q.untold /\ p.pc \in Places /\ p.after \in {"done", "find"}
    BY <2>3 DEF Fields, n
  <2> HIDE DEF p
  <2> QED BY <1>1, <2>1, <2>2, <2>4, WriteOn DEF Ending
<1> QED BY <1>10, <1>11

LEMMA RadioReferenceKeeps ==
  ASSUME Inv, NEW r \in Requests, RadioReferenceApply(r)
  PROVE  Inv'
<1> DEFINE q == requests[r]
           row == Head(q.left)
           old == FoundRow(q, NewTalkgroup(q.ask.sys, row.num))
           offer(f, blank) == IF q.found # {} /\ (q.ask.mode = "overwrite" \/ old[f] = blank) THEN row[f] ELSE ""
           w == ResolveBoth(db, offer("group", NoId), offer("tag", NoId))
           next == [old EXCEPT !.label = Pick(@, offer("label", ""), "", TRUE), !.group = Pick(@, w.group, NoId, TRUE),
                               !.tag = Pick(@, w.tag, NoId, TRUE)]
           skip == offer("label", "") = "" /\ w.group = NoId /\ w.tag = NoId
           d == IF skip \/ ~Allowed(w.db, "talkgroups", FoundId(q), next) THEN w.db
                ELSE Put(w.db, "talkgroups", FoundId(q), next)
           p == NextOr(q, "silent")
<1>1. q.pc = "row" /\ q.ask.op = "RadioReferenceApply" /\ Write(r, d, p) /\ UNCHANGED Rest
  BY Zenon DEF RadioReferenceApply, At
<1>2. RequestOK(q) /\ DOMAIN q = Fields /\ q.untold \in BOOLEAN /\ Schema(db)
  BY RequestIs DEF RequestOK, Inv
<1>3. DOMAIN old = Columns("talkgroups")
  <2>1. RowsOf(q.found, "talkgroups")
    BY <1>1, <1>2, Zenon DEF RequestOK, TalkgroupImports
  <2> QED BY <2>1, FoundRowIs, NewTalkgroupIs
<1> HIDE DEF old
<1>4. Schema(w.db)
  <2> HIDE DEF offer
  <2> QED BY <1>2, ResolveBothKeeps
<1> HIDE DEF w
<1>5. DOMAIN next = Columns("talkgroups")
  BY <1>3
<1> HIDE DEF next, skip
<1>6. Schema(d)
  BY <1>4, <1>5, PutKeeps, TableNames
<1>7. RequestOK(p) /\ p.untold = q.untold /\ p.pc \notin Ending
  BY <1>1, <1>2, NextRowOf
<1> HIDE DEF p, d
<1> QED BY <1>1, <1>6, <1>7, WriteKeeps DEF Ending

LEMMA ImportTalkgroupsKeeps ==
  ASSUME Inv, NEW r \in Requests, ImportTalkgroups(r)
  PROVE  Inv'
<1> DEFINE q == requests[r]
           row == Head(q.left)
           skip == q.found # {} /\ q.ask.mode = "fill"
           w == IF skip THEN [db |-> db, group |-> NoId, tag |-> NoId] ELSE ResolveBoth(db, row.group, row.tag)
           next == [sys |-> q.ask.sys, num |-> row.num, label |-> row.label, group |-> w.group, tag |-> w.tag]
           there == Matches(db, "talkgroups", next)
           id == IF there = {} THEN NoId ELSE IdOf(db, "talkgroups", next)
           p == NextOr(q, "silent")
           d == IF skip THEN db ELSE Put(w.db, "talkgroups", id, next)
<1>1. /\ q.pc = "row"
      /\ IF ~skip /\ ~Allowed(w.db, "talkgroups", id, next) THEN Stop(r, w.db) ELSE Write(r, d, p) /\ UNCHANGED Rest
  BY Zenon DEF ImportTalkgroups, At
<1>2. RequestOK(q) /\ DOMAIN q = Fields /\ q.untold \in BOOLEAN /\ Schema(db)
  BY RequestIs DEF RequestOK, Inv
<1>3. Schema(w.db) /\ buildCFGPayload(db, {AllSystems}) = buildCFGPayload(w.db, {AllSystems})
  <2>1. CASE skip
    BY <1>2, <2>1
  <2>2. CASE ~skip
    <3>1. w = ResolveBoth(db, row.group, row.tag)
      BY <2>2
    <3> HIDE DEF w
    <3> QED BY <1>2, <3>1, ResolveBothKeeps, ResolveBothUnheard
  <2> QED BY <2>1, <2>2
<1> HIDE DEF w
<1>4. DOMAIN next = Columns("talkgroups")
  BY ColumnsOf
<1> HIDE DEF next, id, skip
<1>5. CASE ~skip /\ ~Allowed(w.db, "talkgroups", id, next)
  <2>1. Stop(r, w.db)
    BY <1>1, <1>5
  <2> QED BY <1>3, <2>1, StopKeeps
<1>6. CASE ~(~skip /\ ~Allowed(w.db, "talkgroups", id, next))
  <2>1. Write(r, d, p) /\ UNCHANGED Rest
    BY <1>1, <1>6
  <2>2. Schema(d)
    BY <1>2, <1>3, <1>4, <1>6, PutKeeps, TableNames
  <2>3. RequestOK(p) /\ p.untold = q.untold /\ p.pc \notin Ending
    BY <1>1, <1>2, NextRowOf
  <2> HIDE DEF p, d
  <2> QED BY <1>1, <2>1, <2>2, <2>3, WriteKeeps DEF Ending
<1> QED BY <1>5, <1>6

LEMMA UnitImportsKeep ==
  ASSUME Inv, NEW r \in Requests, UnitsImport(r) \/ ImportUnits(r)
  PROVE  Inv'
<1> DEFINE q == requests[r]
           p == NextOr(q, "silent")
<1>1. RequestOK(q) /\ DOMAIN q = Fields /\ q.untold \in BOOLEAN /\ Schema(db)
  BY RequestIs DEF RequestOK, Inv
<1>2. CASE UnitsImport(r)
  <2> DEFINE row == Head(q.left)
             old == FoundRow(q, [sys |-> q.ask.sys, num |-> row.num, label |-> ""])
             next == [old EXCEPT !.label = Pick(@, row.label, "", q.ask.mode = "overwrite")]
             same == q.found # {} /\ next = old
             d == IF same THEN db ELSE Put(db, "units", FoundId(q), next)
  <2>1. /\ q.pc = "row" /\ q.ask.op = "UnitsImport"
        /\ IF ~same /\ ~Allowed(db, "units", FoundId(q), next) THEN Return(r) ELSE Write(r, d, p) /\ UNCHANGED Rest
    BY <1>2 DEF UnitsImport, At
  <2>2. DOMAIN old = Columns("units")
    <3>1. RowsOf(q.found, "units")
      BY <1>1, <2>1 DEF RequestOK, UnitImports
    <3>2. DOMAIN [sys |-> q.ask.sys, num |-> row.num, label |-> ""] = Columns("units")
      BY ColumnsOf
    <3> QED BY <3>1, <3>2, FoundRowIs
  <2> HIDE DEF old
  <2>3. DOMAIN next = Columns("units")
    BY <2>2
  <2> HIDE DEF next, same
  <2>4. CASE ~same /\ ~Allowed(db, "units", FoundId(q), next)
    BY <2>1, <2>4, ReturnKeeps
  <2>5. CASE ~(~same /\ ~Allowed(db, "units", FoundId(q), next))
    <3>1. Write(r, d, p) /\ UNCHANGED Rest
      BY <2>1, <2>5
    <3>2. Schema(d)
      BY <1>1, <2>3, <2>5, PutKeeps, TableNames
    <3>3. RequestOK(p) /\ p.untold = q.untold /\ p.pc \notin Ending
      BY <1>1, <2>1, NextRowOf
    <3> HIDE DEF p, d
    <3> QED BY <2>1, <3>1, <3>2, <3>3, WriteKeeps DEF Ending
  <2> QED BY <2>4, <2>5
<1>3. CASE ImportUnits(r)
  <2> DEFINE row == [sys |-> q.ask.sys, num |-> Head(q.left).num, label |-> Head(q.left).label]
             there == Matches(db, "units", row)
             id == IF there = {} THEN NoId ELSE IdOf(db, "units", row)
             next == IF there # {} /\ row.label = "" THEN db.units[id] ELSE row
             skip == q.found # {} /\ q.ask.mode = "fill"
             d == IF skip THEN db ELSE Put(db, "units", id, next)
  <2>1. /\ q.pc = "row"
        /\ IF ~skip /\ ~Allowed(db, "units", id, next) THEN Return(r) ELSE Write(r, d, p) /\ UNCHANGED Rest
    BY <1>3, Zenon DEF ImportUnits, At
  <2>2. DOMAIN row = Columns("units")
    BY ColumnsOf
  <2> HIDE DEF row
  <2>3. there # {} => id \in DOMAIN db.units
    BY <1>1, IdOfMatches, TableNames
  <2> HIDE DEF id
  <2>4. DOMAIN next = Columns("units")
    <3>1. \A i \in DOMAIN db.units : DOMAIN db.units[i] = Columns("units")
      BY <1>1, SchemaIs, TableNames
    <3> QED BY <2>2, <2>3, <3>1
  <2> HIDE DEF next, skip
  <2>5. CASE ~skip /\ ~Allowed(db, "units", id, next)
    BY <2>1, <2>5, ReturnKeeps
  <2>6. CASE ~(~skip /\ ~Allowed(db, "units", id, next))
    <3>1. Write(r, d, p) /\ UNCHANGED Rest
      BY <2>1, <2>6
    <3>2. Schema(d)
      BY <1>1, <2>4, <2>6, PutKeeps, TableNames
    <3>3. RequestOK(p) /\ p.untold = q.untold /\ p.pc \notin Ending
      BY <1>1, <2>1, NextRowOf
    <3> HIDE DEF p, d
    <3> QED BY <2>1, <3>1, <3>2, <3>3, WriteKeeps DEF Ending
  <2> QED BY <2>5, <2>6
<1> QED BY <1>2, <1>3

LEMMA LabelImportsKeep ==
  ASSUME Inv, NEW r \in Requests, labelsImport(r) \/ importLabelOnly(r) \/ EndImport(r)
  PROVE  Inv'
<1> DEFINE q == requests[r]
           n == NextOr(q, "silent")
           label == Head(q.left)
           kind == q.ask.kind
           row == [label |-> label]
<1>1. RequestOK(q) /\ DOMAIN q = Fields /\ q.untold \in BOOLEAN /\ Schema(db) /\ (q.pc # "idle" => WellFormed(q.ask))
  BY RequestIs DEF RequestOK, Inv
<1>2. q.pc # "idle" =>
        RequestOK(n) /\ n.untold = q.untold /\ n.pc \notin Ending /\ DOMAIN n = Fields /\ n.ask = q.ask /\ n.pc \in Places
          /\ n.after \in {"done", "find"}
  BY <1>1, NextRowOf DEF RequestOK
<1>3. CASE labelsImport(r)
  <2> DEFINE d == IF label \in q.read THEN db ELSE Insert(db, kind, row)
             p == [n EXCEPT !.read = @ \union {label}]
  <2>1. /\ q.pc = "rows" /\ q.ask.op = "LabelsImport"
        /\ IF label \notin q.read /\ Matches(db, kind, row) # {} THEN Return(r) ELSE Write(r, d, p) /\ UNCHANGED Rest
    BY <1>3 DEF labelsImport, At
  <2>2. CASE label \notin q.read /\ Matches(db, kind, row) # {}
    BY <2>1, <2>2, ReturnKeeps
  <2>3. CASE ~(label \notin q.read /\ Matches(db, kind, row) # {})
    <3>1. Write(r, d, p) /\ UNCHANGED Rest
      BY <2>1, <2>3
    <3>2. kind \in Kinds
      BY <1>1, <2>1 DEF WellFormed
    <3>3. Schema(d)
      BY <1>1, <2>3, <3>2, NewLabelKeeps
    <3> HIDE DEF n, label
    <3>4. DOMAIN p = Fields /\ p.ask = q.ask /\ p.untold = q.untold /\ p.pc \in Places /\ p.after \in {"done", "find"}
      BY <1>2, <2>1 DEF Fields
    <3> HIDE DEF p, d
    <3> QED BY <1>1, <2>1, <3>1, <3>3, <3>4, WriteOn DEF Ending
  <2> QED BY <2>2, <2>3
<1>4. CASE importLabelOnly(r)
  <2> DEFINE d == IF Matches(db, kind, row) # {} THEN db ELSE Insert(db, kind, row)
  <2>1. /\ q.pc = "rows" /\ q.ask.op = "ImportLabels" /\ Write(r, d, n) /\ UNCHANGED Rest
    BY <1>4 DEF importLabelOnly, At
  <2>2. kind \in Kinds
    BY <1>1, <2>1 DEF WellFormed
  <2>3. Schema(d)
    BY <1>1, <2>2, NewLabelKeeps
  <2> HIDE DEF n, d
  <2> QED BY <1>2, <2>1, <2>3, WriteKeeps DEF Ending
<1>5. CASE EndImport(r)
  BY <1>5, ReturnKeeps DEF EndImport
<1> QED BY <1>3, <1>4, <1>5

-----------------------------------------------------------------------------
(* Uploads and restores.                                                   *)

LEMMA UploadsKeep ==
  ASSUME Inv, NEW r \in Requests, NewSystem(r) \/ FindTalkgroup(r) \/ ResolveLabels(r) \/ SaveTalkgroup(r)
  PROVE  Inv'
<1> DEFINE q == requests[r]
<1>1. /\ RequestOK(q) /\ DOMAIN q = Fields /\ q.untold \in BOOLEAN /\ q.after \in {"done", "find"} /\ Schema(db)
      /\ (q.pc # "idle" => q.ask \in Asks)
  BY RequestIs DEF RequestOK, Inv
<1>2. CASE NewSystem(r)
  <2> DEFINE row == [num |-> q.ask.num, label |-> q.ask.system, auto |-> TRUE, blocked |-> {}]
             read == [sys |-> db.seq.systems + 1, auto |-> TRUE]
             d == Insert(db, "systems", row)
             p == [q EXCEPT !.pc = "cfg", !.after = "find", !.read = read]
  <2>1. /\ q.pc = "newSystem"
        /\ IF ~Allowed(db, "systems", NoId, row) THEN Return(r) ELSE Write(r, d, p) /\ UNCHANGED Rest
    BY <1>2 DEF NewSystem, At
  <2>2. CASE ~Allowed(db, "systems", NoId, row)
    BY <2>1, <2>2, ReturnKeeps
  <2>3. CASE Allowed(db, "systems", NoId, row)
    <3>1. Write(r, d, p) /\ UNCHANGED Rest
      BY <2>1, <2>3
    <3>2. DOMAIN row = Columns("systems")
      BY ColumnsOf
    <3> HIDE DEF row, read
    <3>3. d = Put(db, "systems", NoId, row)
      BY DEF Put
    <3>4. Schema(d)
      BY <1>1, <2>3, <3>2, <3>3, PutKeeps, TableNames
    <3>5. DOMAIN p = Fields /\ p.ask = q.ask /\ p.untold = q.untold /\ p.pc = "cfg" /\ p.after = "find"
      BY <1>1 DEF Fields
    <3> HIDE DEF p, d
    <3> QED BY <1>1, <2>1, <3>1, <3>4, <3>5, WriteOn DEF Ending, Places
  <2> QED BY <2>2, <2>3
<1>3. CASE FindTalkgroup(r)
  <2> DEFINE match == Matches(db, "talkgroups", [sys |-> q.read.sys, num |-> q.ask.row.num])
             found == {<<g, db.talkgroups[g]>> : g \in match}
             p == [q EXCEPT !.pc = "resolve", !.found = found]
  <2>1. /\ q.pc = "find" /\ q.ask.op = "Upload"
        /\ Return(r) \/ (Become(r, p) /\ UNCHANGED db /\ UNCHANGED Rest)
    BY <1>3 DEF FindTalkgroup, At
  <2>2. ASSUME Become(r, p), UNCHANGED db, UNCHANGED Rest PROVE Inv'
    <3>1. RowsOf(found, "talkgroups")
      <4>1. \A i \in DOMAIN db.talkgroups : DOMAIN db.talkgroups[i] = Columns("talkgroups")
        BY <1>1, SchemaIs, TableNames
      <4> QED BY <4>1 DEF RowsOf, Matches
    <3> HIDE DEF found
    <3>2. DOMAIN p = Fields /\ p.ask = q.ask /\ p.untold = q.untold /\ p.after = q.after /\ p.pc = "resolve" /\ p.found = found
      BY <1>1 DEF Fields
    <3> HIDE DEF p
    <3>3. RequestOK(p)
      BY <1>1, <2>1, <3>1, <3>2 DEF RequestOK
    <3>4. /\ db' = db /\ channel' = channel /\ listeners' = listeners /\ faults' = faults /\ work' \in Nat /\ Database(snapshot'.db)
      BY <2>2 DEF Rest, Inv
    <3> QED BY <2>1, <2>2, <3>2, <3>3, <3>4, BecomeKeeps
  <2> QED BY <2>1, <2>2, ReturnKeeps
<1>4. CASE ResolveLabels(r)
  <2> DEFINE old == FoundRow(q, NewTalkgroup(q.read.sys, q.ask.row.num))
             w == ResolveBoth(db, IF old.group = NoId THEN q.ask.row.group ELSE "", IF old.tag = NoId THEN q.ask.row.tag ELSE "")
             known == <<w.group, w.tag>>
             p == [q EXCEPT !.pc = "save", !.known = known]
  <2>1. q.pc = "resolve" /\ q.ask.op = "Upload" /\ Write(r, w.db, p) /\ UNCHANGED Rest
    BY <1>4, Zenon DEF ResolveLabels, At
  <2>2. Schema(w.db)
    <3> HIDE DEF old
    <3> QED BY <1>1, ResolveBothKeeps
  <2> HIDE DEF known, w
  <2>3. DOMAIN p = Fields /\ p.ask = q.ask /\ p.untold = q.untold /\ p.after = q.after /\ p.pc = "save" /\ p.found = q.found
    BY <1>1 DEF Fields
  <2> HIDE DEF p
  <2>4. RequestOK(p)
    BY <1>1, <2>1, <2>3 DEF RequestOK
  <2> QED BY <2>1, <2>2, <2>3, <2>4, WriteKeeps DEF Ending
<1>5. CASE SaveTalkgroup(r)
  <2> DEFINE row == Backfilled(q)
             d == Put(db, "talkgroups", FoundId(q), row)
             p == [q EXCEPT !.pc = "cfg", !.after = "done"]
  <2>1. /\ q.pc = "save" /\ q.ask.op = "Upload"
        /\ IF ~Allowed(db, "talkgroups", FoundId(q), row) THEN Return(r) ELSE Write(r, d, p) /\ UNCHANGED Rest
    BY <1>5 DEF SaveTalkgroup, At
  <2>2. CASE ~Allowed(db, "talkgroups", FoundId(q), row)
    BY <2>1, <2>2, ReturnKeeps
  <2>3. CASE Allowed(db, "talkgroups", FoundId(q), row)
    <3>1. Write(r, d, p) /\ UNCHANGED Rest
      BY <2>1, <2>3
    <3>2. DOMAIN row = Columns("talkgroups")
      <4> DEFINE old == FoundRow(q, NewTalkgroup(q.read.sys, q.ask.row.num))
      <4>1. RowsOf(q.found, "talkgroups")
        BY <1>1, <2>1 DEF RequestOK
      <4>2. DOMAIN old = Columns("talkgroups")
        BY <4>1, FoundRowIs, NewTalkgroupIs
      <4>3. row = [old EXCEPT !.label = Pick(@, q.ask.row.label, "", FALSE), !.group = Pick(@, q.known[1], NoId, FALSE),
                              !.tag = Pick(@, q.known[2], NoId, FALSE)]
        BY DEF Backfilled
      <4> HIDE DEF old, row
      <4> QED BY <4>2, <4>3
    <3> HIDE DEF row
    <3>3. Schema(d)
      BY <1>1, <2>3, <3>2, PutKeeps, TableNames
    <3>4. DOMAIN p = Fields /\ p.ask = q.ask /\ p.untold = q.untold /\ p.pc = "cfg" /\ p.after = "done"
      BY <1>1 DEF Fields
    <3> HIDE DEF p, d
    <3> QED BY <1>1, <2>1, <3>1, <3>3, <3>4, WriteOn DEF Ending, Places
  <2> QED BY <2>2, <2>3
<1> QED BY <1>2, <1>3, <1>4, <1>5

LEMMA RestoresKeep ==
  ASSUME Inv, NEW r \in Requests, writePreRestoreSnapshot(r) \/ RestoreBackup(r)
  PROVE  Inv'
<1> DEFINE q == requests[r]
<1>1. RequestOK(q) /\ DOMAIN q = Fields /\ q.untold \in BOOLEAN /\ q.after \in {"done", "find"} /\ Schema(db)
  BY RequestIs DEF RequestOK, Inv
<1>2. CASE writePreRestoreSnapshot(r)
  <2> DEFINE p == [q EXCEPT !.pc = "restore"]
  <2>1. /\ q.pc = "save" /\ q.ask.op \in {"ImportConfig", "Undo"} /\ snapshot' = exportConfigData(db) /\ Become(r, p)
        /\ db' = db /\ channel' = channel /\ listeners' = listeners /\ work' = work /\ faults' = faults
    BY <1>2 DEF writePreRestoreSnapshot, AtOneOf
  <2>2. Database(snapshot'.db)
    BY <1>1, <2>1, SchemaIs DEF exportConfigData
  <2>3. /\ DOMAIN p = Fields /\ p.ask = q.ask /\ p.untold = q.untold /\ p.after = q.after /\ p.pc = "restore" /\ p.read = q.read
    BY <1>1 DEF Fields
  <2> HIDE DEF p
  <2>4. RequestOK(p)
    BY <1>1, <2>1, <2>3 DEF RequestOK
  <2>5. work' \in Nat
    BY <2>1 DEF Inv
  <2> QED BY <2>1, <2>2, <2>3, <2>4, <2>5, BecomeKeeps
<1>3. CASE RestoreBackup(r)
  <2> DEFINE out == ImportConfig(db, q.read)
             p == [q EXCEPT !.pc = "cfg"]
  <2>1. /\ q.pc = "restore" /\ q.ask.op \in {"ImportConfig", "Undo"}
        /\ Return(r) \/ (out.ok /\ Write(r, out.db, p) /\ UNCHANGED Rest)
    BY <1>3 DEF RestoreBackup, AtOneOf
  <2>2. ASSUME out.ok, Write(r, out.db, p), UNCHANGED Rest PROVE Inv'
    <3>1. Database(q.read.db)
      BY <1>1, <2>1 DEF RequestOK
    <3>2. out.ok = TRUE
      BY <1>1, <2>2, <3>1, ImportKeeps DEF RemoveOK
    <3>3. Schema(out.db)
      BY <1>1, <3>1, <3>2, ImportKeeps DEF RemoveOK
    <3>4. DOMAIN p = Fields /\ p.ask = q.ask /\ p.untold = q.untold /\ p.pc = "cfg" /\ p.after = q.after
      BY <1>1 DEF Fields
    <3> HIDE DEF p, out
    <3> QED BY <1>1, <2>1, <2>2, <3>3, <3>4, WriteOn DEF Ending, Places
  <2> QED BY <2>1, <2>2, ReturnKeeps
<1> QED BY <1>2, <1>3

-----------------------------------------------------------------------------
(* The beginning, the broadcast and the listeners.                         *)

Fresh(p, a) == DOMAIN p = Fields /\ p.ask = a /\ p.untold = FALSE /\ p.after = "done"

LEMMA OpenedIs ==
  ASSUME NEW a, NEW pc
  PROVE  Fresh(Opened(a, pc), a) /\ Opened(a, pc).pc = pc
BY DEF Opened, Fields, Fresh

LEMMA FreshWith ==
  ASSUME NEW a, NEW o, Fresh(o, a), NEW x, NEW p,
         p = [o EXCEPT !.read = x] \/ p = [o EXCEPT !.left = x] \/ p = [o EXCEPT !.known = x]
  PROVE  Fresh(p, a) /\ p.pc = o.pc
<1>1. DOMAIN o = Fields /\ o.ask = a /\ o.untold = FALSE /\ o.after = "done"
  BY DEF Fresh
<1>2. DOMAIN p = Fields /\ p.ask = a /\ p.untold = FALSE /\ p.after = "done" /\ p.pc = o.pc
  BY <1>1 DEF Fields
<1> QED BY <1>2 DEF Fresh

LEMMA FirstIs ==
  ASSUME Inv, NEW a \in Asks
  PROVE  Fresh(First(a), a) /\ RequestOK(First(a)) /\ First(a).pc \notin Ending
<1> DEFINE p == First(a)
           Goes(pc) == Fresh(p, a) /\ p.pc = pc
<1>1. WellFormed(a) /\ Database(snapshot.db)
  BY CatalogAssumption DEF Inv
<1>2. ASSUME NEW pc \in Places, Goes(pc) PROVE RequestOK(p) /\ p.pc \notin Ending
  <2>1. p.pc \notin {"idle", "row", "resolve", "save", "restore", "scoped", "deliver"}
    BY <1>2 DEF Places
  <2> HIDE DEF p
  <2> QED BY <1>2, <2>1 DEF Fresh, RequestOK, Ending
<1>3. ASSUME Goes("save"), a.op \in {"ImportConfig", "Undo"}, Database(p.read.db) PROVE RequestOK(p) /\ p.pc \notin Ending
  <2> HIDE DEF p
  <2> QED BY <1>3 DEF Fresh, RequestOK, Ending
<1>4. CASE a.op \in {"SystemsBlock", "SystemsUnblock"}
  <2> DEFINE o == Opened(a, "write")
             x == db.systems[a.id].blocked
  <2>1. p = [o EXCEPT !.read = x]
    BY <1>4 DEF First, TalkgroupImports, UnitImports
  <2>2. Fresh(o, a) /\ o.pc = "write"
    BY OpenedIs
  <2> HIDE DEF o, p, x
  <2>3. Fresh(p, a) /\ p.pc = "write"
    BY <2>1, <2>2, FreshWith
  <2> QED BY <1>2, <2>3 DEF Places, p
<1>5. CASE a.op = "LabelsDelete"
  <2> DEFINE pc == IF UsersOf(db, a.kind, {a.id}) = {} THEN "write" ELSE "move"
  <2>1. p = Opened(a, pc)
    BY <1>5 DEF First, TalkgroupImports, UnitImports
  <2>2. pc \in Places
    BY DEF Places
  <2> HIDE DEF p, pc
  <2>3. Goes(pc)
    BY <2>1, OpenedIs
  <2> QED BY <1>2, <2>2, <2>3 DEF p
<1>6. CASE a.op \in {"TalkgroupsDelete", "TalkgroupsBulk"}
  <2> DEFINE o == Opened(a, "rows")
             x == a.ids
  <2>1. p = [o EXCEPT !.left = x]
    BY <1>6 DEF First, TalkgroupImports, UnitImports
  <2>2. Fresh(o, a) /\ o.pc = "rows"
    BY OpenedIs
  <2> HIDE DEF o, p, x
  <2>3. Fresh(p, a) /\ p.pc = "rows"
    BY <2>1, <2>2, FreshWith
  <2> QED BY <1>2, <2>3 DEF Places, p
<1>7. CASE a.op = "LabelsImport"
  <2> DEFINE o == Opened(a, "rows")
             x == a.labels
             y == {db[a.kind][i].label : i \in DOMAIN db[a.kind]}
  <2>1. p = [o EXCEPT !.left = x, !.read = y]
    BY <1>7 DEF First, TalkgroupImports, UnitImports
  <2>2. Fresh(o, a) /\ o.pc = "rows"
    BY OpenedIs
  <2> DEFINE m == [o EXCEPT !.left = x]
  <2> HIDE DEF o, p, x, y
  <2>3. p = [m EXCEPT !.read = y]
    BY <2>1
  <2>4. Fresh(m, a) /\ m.pc = "rows"
    BY <2>2, FreshWith
  <2> HIDE DEF m
  <2>5. Fresh(p, a) /\ p.pc = "rows"
    BY <2>3, <2>4, FreshWith
  <2> QED BY <1>2, <2>5 DEF Places, p
<1>8. CASE a.op = "ImportLabels"
  <2> DEFINE o == Opened(a, "rows")
             x == a.labels
  <2>1. p = [o EXCEPT !.left = x]
    BY <1>8 DEF First, TalkgroupImports, UnitImports
  <2>2. Fresh(o, a) /\ o.pc = "rows"
    BY OpenedIs
  <2> HIDE DEF o, p, x
  <2>3. Fresh(p, a) /\ p.pc = "rows"
    BY <2>1, <2>2, FreshWith
  <2> QED BY <1>2, <2>3 DEF Places, p
<1>9. CASE a.op \in TalkgroupImports \union UnitImports
  <2> DEFINE o == Opened(a, "rows")
             x == a.rows
             y == [k \in Kinds |-> db[k]]
  <2>1. p = [o EXCEPT !.left = x, !.known = y]
    BY <1>9 DEF First, TalkgroupImports, UnitImports
  <2>2. Fresh(o, a) /\ o.pc = "rows"
    BY OpenedIs
  <2> DEFINE m == [o EXCEPT !.left = x]
  <2> HIDE DEF o, p, x, y
  <2>3. p = [m EXCEPT !.known = y]
    BY <2>1
  <2>4. Fresh(m, a) /\ m.pc = "rows"
    BY <2>2, FreshWith
  <2> HIDE DEF m
  <2>5. Fresh(p, a) /\ p.pc = "rows"
    BY <2>3, <2>4, FreshWith
  <2> QED BY <1>2, <2>5 DEF Places, p
<1>10. CASE a.op = "ImportConfig"
  <2> DEFINE o == Opened(a, "save")
             x == a.file
  <2>1. p = [o EXCEPT !.read = x]
    BY <1>10 DEF First, TalkgroupImports, UnitImports
  <2>2. Fresh(o, a) /\ o.pc = "save"
    BY OpenedIs
  <2> HIDE DEF o, p, x
  <2>3. p.read = x
    BY <2>1, <2>2 DEF Fresh, Fields
  <2>4. Fresh(p, a) /\ p.pc = "save"
    BY <2>1, <2>2, FreshWith
  <2>5. Database(p.read.db)
    BY <1>1, <1>10, <2>3 DEF WellFormed, x
  <2> QED BY <1>3, <1>10, <2>4, <2>5 DEF p
<1>11. CASE a.op = "Undo"
  <2> DEFINE o == Opened(a, "save")
             x == OfSnapshot(a.spared)
  <2>1. p = [o EXCEPT !.read = x]
    BY <1>11 DEF First, TalkgroupImports, UnitImports
  <2>2. Fresh(o, a) /\ o.pc = "save"
    BY OpenedIs
  <2> HIDE DEF o, p, x
  <2>3. p.read = x
    BY <2>1, <2>2 DEF Fresh, Fields
  <2>4. Fresh(p, a) /\ p.pc = "save"
    BY <2>1, <2>2, FreshWith
  <2>5. x.db = snapshot.db
    BY DEF x, OfSnapshot
  <2> QED BY <1>1, <1>3, <1>11, <2>4, <2>3, <2>5 DEF p
<1>12. CASE a.op = "Upload"
  <2> DEFINE s == CHOOSE x \in Numbered(a.num) : TRUE
             read == [sys |-> s, auto |-> db.systems[s].auto]
             o == Opened(a, "find")
  <2>1. p = Opened(a, "newSystem") \/ p = [o EXCEPT !.read = read]
    BY <1>12 DEF First, TalkgroupImports, UnitImports
  <2>2. Fresh(o, a) /\ o.pc = "find"
    BY OpenedIs
  <2> HIDE DEF p, read, o
  <2>3. p = [o EXCEPT !.read = read] => Goes("find")
    BY <2>2, FreshWith
  <2>4. p = Opened(a, "newSystem") => Goes("newSystem")
    BY OpenedIs
  <2> QED BY <1>2, <2>1, <2>3, <2>4 DEF Places, p
<1>13. CASE a.op \notin {"SystemsBlock", "SystemsUnblock", "LabelsDelete", "TalkgroupsDelete", "TalkgroupsBulk", "LabelsImport",
                         "ImportLabels", "ImportConfig", "Undo", "Upload"} \union TalkgroupImports \union UnitImports
  <2>1. p = Opened(a, "write")
    BY <1>13 DEF First, TalkgroupImports, UnitImports
  <2> HIDE DEF p
  <2>2. Goes("write")
    BY <2>1, OpenedIs
  <2> QED BY <1>2, <2>2 DEF Places, p
<1> QED BY <1>4, <1>5, <1>6, <1>7, <1>8, <1>9, <1>10, <1>11, <1>12, <1>13

LEMMA BeginKeeps ==
  ASSUME Inv, NEW r \in Requests, NEW a \in Asks, Begin(r, a)
  PROVE  Inv'
<1>1. /\ requests[r].pc = "idle" /\ work > 0 /\ work' = work - 1 /\ Become(r, First(a))
      /\ db' = db /\ channel' = channel /\ listeners' = listeners /\ snapshot' = snapshot /\ faults' = faults
  BY DEF Begin
<1>2. Fresh(First(a), a) /\ RequestOK(First(a)) /\ First(a).pc \notin Ending
  BY FirstIs
<1>3. requests[r].untold = FALSE
  BY <1>1, RequestIs, IdleIs DEF RequestOK
<1>4. work' \in Nat /\ Database(snapshot'.db)
  BY <1>1 DEF Inv
<1>5. First(a).untold = requests[r].untold
  BY <1>2, <1>3 DEF Fresh
<1> QED BY <1>1, <1>2, <1>4, <1>5, BecomeKeeps DEF Ending

\* A request that goes on at p without a write.
LEMMA GoOn ==
  ASSUME Inv, NEW r \in Requests, requests[r].pc \notin Ending, NEW p,
         DOMAIN p = Fields, p.ask = requests[r].ask, p.untold = requests[r].untold, p.after \in {"done", "find"},
         p.pc \in Places, Become(r, p), UNCHANGED db, UNCHANGED Rest
  PROVE  Inv'
<1>1. RequestOK(requests[r]) /\ requests[r].pc # "idle"
  BY RequestIs DEF Ending
<1>2. RequestOK(p) /\ p.pc \notin Ending
  BY <1>1, PlainPlace
<1>3. /\ db' = db /\ channel' = channel /\ listeners' = listeners /\ faults' = faults /\ work' \in Nat /\ Database(snapshot'.db)
  BY DEF Rest, Inv
<1> QED BY <1>2, <1>3, BecomeKeeps DEF Ending

LEMMA RefetchKeeps ==
  ASSUME Inv, NEW r \in Requests, Refetch(r)
  PROVE  Inv'
<1> DEFINE q == requests[r]
           p == [q EXCEPT !.pc = "cfg"]
<1>1. q.pc = "fetch" /\ (Return(r) \/ (Become(r, p) /\ UNCHANGED db /\ UNCHANGED Rest))
  BY DEF Refetch
<1>2. DOMAIN q = Fields /\ q.after \in {"done", "find"}
  BY RequestIs DEF RequestOK
<1>3. DOMAIN p = Fields /\ p.ask = q.ask /\ p.untold = q.untold /\ p.pc = "cfg" /\ p.after = q.after
  BY <1>2 DEF Fields
<1> HIDE DEF p
<1> QED BY <1>1, <1>2, <1>3, GoOn, ReturnKeeps DEF Ending, Places

LEMMA BuildKeeps ==
  ASSUME Inv, NEW r \in Requests, Build(r)
  PROVE  Inv'
<1> DEFINE q == requests[r]
           frame == buildCFGPayload(db, {AllSystems})
           p == [q EXCEPT !.pc = "send", !.frames = frame]
<1>1. q.pc = "cfg" /\ Become(r, p) /\ UNCHANGED db /\ UNCHANGED Rest
  BY DEF Build
<1>2. DOMAIN q = Fields /\ q.after \in {"done", "find"}
  BY RequestIs DEF RequestOK
<1> HIDE DEF frame
<1>3. DOMAIN p = Fields /\ p.ask = q.ask /\ p.untold = q.untold /\ p.pc = "send" /\ p.after = q.after
  BY <1>2 DEF Fields
<1> HIDE DEF p
<1> QED BY <1>1, <1>2, <1>3, GoOn DEF Ending, Places

LEMMA FailKeeps ==
  ASSUME Inv, NEW r \in Requests, Fail(r)
  PROVE  Inv'
<1>1. /\ Become(r, Idle) /\ Excuse(Uninformed(requests[r])) /\ faults < MaxFaults /\ faults' = faults + 1
      /\ db' = db /\ channel' = channel /\ snapshot' = snapshot /\ work' = work
  BY DEF Fail
<1>2. DOMAIN requests = Requests /\ Schema(db) /\ (\A x \in Requests : RequestOK(requests[x])) /\ faults \in 0..MaxFaults
  BY DEF Inv
<1>3. DOMAIN requests' = Requests /\ requests'[r] = Idle /\ \A x \in Requests : x # r => requests'[x] = requests[x]
  BY <1>1, <1>2 DEF Become
<1>4. \A x \in Requests : RequestOK(requests'[x])
  BY <1>2, <1>3, IdleIs
<1>5. \A x \in Requests : x # r => Uninformed(requests'[x]) = Uninformed(requests[x])
  BY <1>3
<1>6. faults' \in 0..MaxFaults
  BY <1>1, <1>2, CatalogAssumption
<1>7. buildCFGPayload(db', {AllSystems}) = buildCFGPayload(db, {AllSystems}) /\ Schema(db')
  BY <1>1, <1>2
<1> QED BY <1>1, <1>3, <1>4, <1>5, <1>6, <1>7, LastStep

\* The steps of the hub and of the listeners leave the tables alone.
LEMMA HubStep ==
  ASSUME Inv, UNCHANGED <<db, snapshot, work>>, DOMAIN requests' = Requests, \A x \in Requests : RequestOK(requests'[x]),
         Len(channel') <= QueueCap, \E S : channel' \in Seq(S),
         DOMAIN listeners' = Listeners, \A l \in Listeners : ListenerOK(listeners'[l]), faults' \in 0..MaxFaults,
         \A l \in Listeners : listeners'[l].at = "in" /\ listeners'[l].excuse = FALSE =>
           \/ listeners'[l].seen = Config(l)
           \/ l \notin Restricted /\ channel' # <<>>
           \/ \E x \in Requests : l \in Uninformed(requests'[x])
  PROVE  Inv'
<1>1. \A l \in Listeners : Due(l)'
  <2>1. \A l \in Listeners : Config(l)' = Config(l)
    BY DEF Config
  <2> QED BY <2>1 DEF Due, Restricted, Uninformed
<1>2. \A x \in Requests : RequestOK(requests[x])'
  BY DEF RequestOK, Restricted
<1>3. \A l \in Listeners : ListenerOK(listeners[l])'
  BY DEF ListenerOK
<1>4. Schema(db)' /\ Database(snapshot.db)' /\ work' \in Nat
  BY DEF Inv, Schema, Database, Matches, References, LabelsIn
<1> QED BY <1>1, <1>2, <1>3, <1>4 DEF Inv

\* A listener whose connection is marked.
LEMMA Marked ==
  ASSUME NEW c, DOMAIN c = {"at", "seen", "excuse"}, c.at \in {"out", "welcomed", "in"}, NEW n, n = [c EXCEPT !.excuse = TRUE]
  PROVE  ListenerOK(n) /\ n.excuse = TRUE /\ n.at = c.at /\ n.seen = c.seen
<1>1. DOMAIN n = {"at", "seen", "excuse"} /\ n.excuse = TRUE /\ n.at = c.at /\ n.seen = c.seen
  OBVIOUS
<1> QED BY <1>1 DEF ListenerOK

LEMMA SendKeeps ==
  ASSUME Inv, NEW r \in Requests, Send(r)
  PROVE  Inv'
<1> DEFINE q == requests[r]
           found == {l \in Restricted : listeners[l].at = "in"}
           p == [q EXCEPT !.pc = "scoped", !.frames = <<>>, !.found = found]
<1>1. /\ q.pc = "send" /\ Become(r, p) /\ UNCHANGED <<db, snapshot, work>> /\ faults' = faults
      /\ \/ Len(channel) < QueueCap /\ channel' = Append(channel, q.frames) /\ UNCHANGED listeners
         \/ Excuse(Listeners \ Restricted) /\ UNCHANGED channel
  BY DEF Send
<1>2. RequestOK(q) /\ DOMAIN q = Fields /\ q.after \in {"done", "find"} /\ q.untold \in BOOLEAN /\ q.ask \in Asks
  BY <1>1, RequestIs DEF RequestOK
<1>3. /\ DOMAIN requests = Requests /\ (\A x \in Requests : RequestOK(requests[x])) /\ faults \in 0..MaxFaults
      /\ Len(channel) <= QueueCap /\ DOMAIN listeners = Listeners /\ \A l \in Listeners : ListenerOK(listeners[l]) /\ Due(l)
  BY DEF Inv
<1>4. PICK S : channel \in Seq(S)
  BY DEF Inv
<1>5. found \subseteq Restricted
  OBVIOUS
<1>6. /\ DOMAIN p = Fields /\ p.ask = q.ask /\ p.untold = q.untold /\ p.after = q.after /\ p.pc = "scoped" /\ p.found = found
  <2> HIDE DEF found
  <2> QED BY <1>2 DEF Fields
<1>7. RequestOK(p) /\ (q.untold = TRUE => Uninformed(p) = found)
  <2> HIDE DEF found, p
  <2> QED BY <1>1, <1>2, <1>5, <1>6 DEF RequestOK, Uninformed
<1> HIDE DEF p
<1>8. DOMAIN requests' = Requests /\ requests'[r] = p /\ \A x \in Requests : x # r => requests'[x] = requests[x]
  BY <1>1, <1>3 DEF Become
<1>9. \A x \in Requests : RequestOK(requests'[x])
  BY <1>3, <1>7, <1>8
<1>10. ASSUME NEW l \in Listeners, l \in Restricted, listeners[l].at = "in", \E x \in Requests : l \in Uninformed(requests[x])
       PROVE  \E x \in Requests : l \in Uninformed(requests'[x])
  <2>1. PICK x \in Requests : l \in Uninformed(requests[x])
    BY <1>10
  <2>2. CASE x # r
    BY <1>8, <2>1, <2>2
  <2>3. CASE x = r
    <3>1. q.untold = TRUE
      BY <1>2, <2>1, <2>3 DEF Uninformed
    <3>2. l \in found
      BY <1>10
    <3> HIDE DEF found
    <3> QED BY <1>7, <1>8, <3>1, <3>2
  <2> QED BY <2>2, <2>3
<1> HIDE DEF found
<1>11. CASE Len(channel) < QueueCap /\ channel' = Append(channel, q.frames) /\ UNCHANGED listeners
  <2> DEFINE f == q.frames
  <2>1. channel' = Append(channel, f) /\ channel \in Seq(S \union {f}) /\ f \in S \union {f}
    BY <1>4, <1>11
  <2> HIDE DEF f
  <2>2. channel' \in Seq(S \union {f}) /\ Len(channel') = Len(channel) + 1 /\ channel' # <<>> /\ Len(channel) \in Nat
    BY <2>1
  <2>3. Len(channel') <= QueueCap
    BY <1>11, <2>2, CatalogAssumption
  <2>4. \A l \in Listeners : listeners'[l].at = "in" /\ listeners'[l].excuse = FALSE =>
          \/ listeners'[l].seen = Config(l)
          \/ l \notin Restricted /\ channel' # <<>>
          \/ \E x \in Requests : l \in Uninformed(requests'[x])
    BY <1>3, <1>10, <1>11, <2>2 DEF Due
  <2>5. \E T : channel' \in Seq(T)
    BY <2>2
  <2>6. DOMAIN listeners' = Listeners /\ (\A l \in Listeners : ListenerOK(listeners'[l])) /\ faults' \in 0..MaxFaults
    BY <1>1, <1>3, <1>11
  <2> QED BY <1>1, <1>8, <1>9, <2>3, <2>4, <2>5, <2>6, HubStep
<1>12. CASE Excuse(Listeners \ Restricted) /\ UNCHANGED channel
  <2>1. /\ DOMAIN listeners' = Listeners
        /\ \A l \in Listeners : listeners'[l] = IF l \in Restricted THEN listeners[l] ELSE [listeners[l] EXCEPT !.excuse = TRUE]
    BY <1>12 DEF Excuse
  <2>2. \A l \in Listeners : ListenerOK(listeners'[l]) /\ (l \notin Restricted => listeners'[l].excuse = TRUE)
    <3>1. TAKE l \in Listeners
    <3>2. DOMAIN listeners[l] = {"at", "seen", "excuse"} /\ listeners[l].at \in {"out", "welcomed", "in"}
      BY <1>3 DEF ListenerOK
    <3>3. CASE l \in Restricted
      BY <1>3, <2>1, <3>3
    <3>4. CASE l \notin Restricted
      <4>1. listeners'[l] = [listeners[l] EXCEPT !.excuse = TRUE]
        BY <2>1, <3>4
      <4> QED BY <3>2, <3>4, <4>1, Marked
    <3> QED BY <3>3, <3>4
  <2>3. \A l \in Listeners : listeners'[l].at = "in" /\ listeners'[l].excuse = FALSE =>
          \/ listeners'[l].seen = Config(l)
          \/ l \notin Restricted /\ channel' # <<>>
          \/ \E x \in Requests : l \in Uninformed(requests'[x])
    BY <1>3, <1>10, <2>1, <2>2 DEF Due
  <2>4. Len(channel') <= QueueCap /\ \E T : channel' \in Seq(T)
    BY <1>3, <1>4, <1>12
  <2>5. faults' \in 0..MaxFaults
    BY <1>1, <1>3
  <2> QED BY <1>1, <1>8, <1>9, <2>1, <2>2, <2>3, <2>4, <2>5, HubStep
<1> QED BY <1>1, <1>11, <1>12

LEMMA BuildScopedKeeps ==
  ASSUME Inv, NEW r \in Requests, BuildScoped(r)
  PROVE  Inv'
<1> DEFINE q == requests[r]
           frames == [l \in q.found |-> Config(l)]
           p == [q EXCEPT !.pc = "deliver", !.frames = frames]
<1>1. q.pc = "scoped" /\ Become(r, p) /\ UNCHANGED db /\ UNCHANGED Rest
  BY DEF BuildScoped
<1>2. RequestOK(q) /\ DOMAIN q = Fields /\ q.after \in {"done", "find"} /\ q.untold \in BOOLEAN /\ q.ask \in Asks /\ q.found \subseteq Restricted
  BY <1>1, RequestIs DEF RequestOK
<1>3. DOMAIN frames = q.found
  OBVIOUS
<1> HIDE DEF frames
<1>4. /\ DOMAIN p = Fields /\ p.ask = q.ask /\ p.untold = q.untold /\ p.after = q.after /\ p.pc = "deliver" /\ p.found = q.found
      /\ p.frames = frames
  BY <1>2 DEF Fields
<1> HIDE DEF p
<1>5. RequestOK(p) /\ Uninformed(p) = Uninformed(q)
  BY <1>1, <1>2, <1>3, <1>4 DEF RequestOK, Uninformed
<1>6. /\ DOMAIN requests = Requests /\ (\A x \in Requests : RequestOK(requests[x])) /\ Schema(db) /\ Database(snapshot.db) /\ work \in Nat
  BY DEF Inv
<1>7. DOMAIN requests' = Requests /\ requests'[r] = p /\ \A x \in Requests : x # r => requests'[x] = requests[x]
  BY <1>1, <1>6 DEF Become
<1>8. \A x \in Requests : RequestOK(requests'[x])
  BY <1>5, <1>6, <1>7
<1>9. Uninformed(requests[r]) = Uninformed(requests'[r]) /\ \A x \in Requests : x # r => Uninformed(requests'[x]) = Uninformed(requests[x])
  BY <1>5, <1>7
<1>10. /\ db' = db /\ channel' = channel /\ listeners' = listeners /\ faults' = faults /\ work' \in Nat /\ Database(snapshot'.db)
  BY <1>1, <1>6 DEF Rest
<1>11. buildCFGPayload(db', {AllSystems}) = buildCFGPayload(db, {AllSystems}) /\ Schema(db')
  BY <1>6, <1>10
<1> QED BY <1>7, <1>8, <1>9, <1>10, <1>11, QuietStep

LEMMA ListenersKeep ==
  ASSUME Inv, NEW l \in Listeners, sendWelcome(l) \/ Register(l)
  PROVE  Inv'
<1> DEFINE c == listeners[l]
           n == listeners'[l]
<1>1. UNCHANGED <<db, requests, channel, snapshot, work, faults>>
  BY DEF sendWelcome, Register
<1>2. /\ DOMAIN requests = Requests /\ (\A x \in Requests : RequestOK(requests[x])) /\ faults \in 0..MaxFaults
      /\ Len(channel) <= QueueCap /\ DOMAIN listeners = Listeners /\ (\A x \in Listeners : ListenerOK(listeners[x]) /\ Due(x))
      /\ \E S : channel \in Seq(S)
  BY DEF Inv
<1>3. /\ DOMAIN listeners' = Listeners /\ \A x \in Listeners : x # l => listeners'[x] = listeners[x]
  BY <1>2 DEF sendWelcome, Register
<1>4. ListenerOK(n) /\ (n.at = "in" /\ n.excuse = FALSE => n.seen = Config(l))
  <2>1. CASE sendWelcome(l)
    <3>1. n = [at |-> "welcomed", seen |-> Config(l), excuse |-> FALSE]
      BY <1>2, <2>1 DEF sendWelcome
    <3> QED BY <3>1 DEF ListenerOK
  <2>2. CASE Register(l)
    <3> DEFINE e == c.seen # Config(l)
    <3>1. n = [c EXCEPT !.at = "in", !.excuse = e]
      BY <1>2, <2>2 DEF Register
    <3>2. DOMAIN c = {"at", "seen", "excuse"}
      BY <1>2 DEF ListenerOK
    <3>3. e \in BOOLEAN /\ (e = FALSE => c.seen = Config(l))
      OBVIOUS
    <3> HIDE DEF c, e
    <3>4. DOMAIN n = {"at", "seen", "excuse"} /\ n.at = "in" /\ n.excuse = e /\ n.seen = c.seen
      BY <3>1, <3>2
    <3> QED BY <3>3, <3>4 DEF ListenerOK
  <2> QED BY <2>1, <2>2
<1>5. \A x \in Listeners : ListenerOK(listeners'[x])
  BY <1>2, <1>3, <1>4
<1>6. \A x \in Listeners : listeners'[x].at = "in" /\ listeners'[x].excuse = FALSE =>
        \/ listeners'[x].seen = Config(x)
        \/ x \notin Restricted /\ channel' # <<>>
        \/ \E y \in Requests : x \in Uninformed(requests'[y])
  <2>1. TAKE x \in Listeners
  <2>2. CASE x = l
    BY <1>4, <2>2
  <2>3. CASE x # l
    BY <1>1, <1>2, <1>3, <2>3 DEF Due
  <2> QED BY <2>2, <2>3
<1> QED BY <1>1, <1>2, <1>3, <1>5, <1>6, HubStep

\* A request other than by has yet to tell l of what it changed.
ToldBy(l, by) == \E x \in Requests : x \notin by /\ l \in Uninformed(requests[x])

\* What Client.trySend leaves behind: every hearer it reached is up to date,
\* or a request other than by has yet to send it something newer.
LEMMA TrySendGives ==
  ASSUME Inv, NEW frames, NEW lost \in SUBSET Listeners, NEW by, TrySend(frames, lost, by), db' = db
  PROVE  /\ DOMAIN listeners' = Listeners /\ faults' \in 0..MaxFaults
         /\ \A l \in Listeners : ListenerOK(listeners'[l])
         /\ \A l \in Listeners : l \notin DOMAIN frames => listeners'[l] = listeners[l]
         /\ \A l \in Listeners : l \in DOMAIN frames /\ listeners'[l].excuse = FALSE =>
              \/ listeners'[l].seen = Config(l)
              \/ ToldBy(l, by)
<1> DEFINE told(l) == \A x \in Requests \ by : requests[x].pc # "idle" => l \notin Uninformed(requests[x])
<1>1. /\ faults + Cardinality(lost) <= MaxFaults /\ faults' = faults + Cardinality(lost)
      /\ listeners' = [l \in Listeners |->
           IF l \notin DOMAIN frames THEN listeners[l]
           ELSE IF l \in lost THEN [listeners[l] EXCEPT !.excuse = TRUE]
           ELSE [listeners[l] EXCEPT !.seen = frames[l], !.excuse = frames[l] # Config(l) /\ told(l)]]
  BY DEF TrySend
<1>2. faults' \in 0..MaxFaults
  <2>1. IsFiniteSet(lost)
    BY FS_Subset, CatalogAssumption
  <2>2. Cardinality(lost) \in Nat
    BY <2>1, FS_CardinalityType
  <2>3. faults \in 0..MaxFaults /\ MaxFaults \in Nat
    BY CatalogAssumption DEF Inv
  <2>4. faults + Cardinality(lost) <= MaxFaults /\ faults' = faults + Cardinality(lost)
    BY <1>1
  <2> QED BY <2>2, <2>3, <2>4
<1>3. ASSUME NEW l \in Listeners
      PROVE  /\ ListenerOK(listeners'[l])
             /\ l \notin DOMAIN frames => listeners'[l] = listeners[l]
             /\ l \in DOMAIN frames /\ listeners'[l].excuse = FALSE =>
                  \/ listeners'[l].seen = Config(l)
                  \/ ToldBy(l, by)
  <2> DEFINE c == listeners[l]
             n == listeners'[l]
             f == frames[l]
             e == f # Config(l) /\ told(l)
  <2>1. ListenerOK(c) /\ DOMAIN c = {"at", "seen", "excuse"} /\ c.at \in {"out", "welcomed", "in"}
    BY DEF Inv, ListenerOK
  <2>2. CASE l \notin DOMAIN frames
    BY <1>1, <2>1, <2>2
  <2>3. CASE l \in DOMAIN frames /\ l \in lost
    <3>1. n = [c EXCEPT !.excuse = TRUE]
      BY <1>1, <2>3
    <3> HIDE DEF n, c
    <3>2. ListenerOK(n) /\ n.excuse = TRUE
      BY <2>1, <3>1, Marked
    <3> QED BY <2>3, <3>2 DEF n
  <2>4. CASE l \in DOMAIN frames /\ l \notin lost
    <3>1. n = [c EXCEPT !.seen = f, !.excuse = e]
      BY <1>1, <2>4
    <3>2. e \in BOOLEAN
      OBVIOUS
    <3>3. e = FALSE => f = Config(l) \/ ToldBy(l, by)
      BY DEF ToldBy
    <3> HIDE DEF n, c, f, e
    <3>4. DOMAIN n = {"at", "seen", "excuse"} /\ n.at = c.at /\ n.seen = f /\ n.excuse = e
      BY <2>1, <3>1
    <3>5. ListenerOK(n)
      BY <2>1, <3>2, <3>4 DEF ListenerOK
    <3> QED BY <2>4, <3>3, <3>4, <3>5 DEF n
  <2> QED BY <2>2, <2>3, <2>4
<1>4. DOMAIN listeners' = Listeners
  BY <1>1
<1> QED BY <1>2, <1>3, <1>4

LEMMA DeliverKeeps ==
  ASSUME Inv, NEW r \in Requests, Deliver(r)
  PROVE  Inv'
<1> DEFINE q == requests[r]
           on == [q EXCEPT !.pc = q.after, !.frames = <<>>, !.found = {}, !.untold = FALSE]
           p == IF q.after = "done" THEN Idle ELSE on
<1>1. q.pc = "deliver" /\ Become(r, p) /\ db' = db /\ channel' = channel /\ UNCHANGED <<db, snapshot, work>>
  BY DEF Deliver
<1>2. PICK lost \in SUBSET q.found : TrySend(q.frames, lost, {r})
  BY DEF Deliver
<1>3. /\ RequestOK(q) /\ DOMAIN q = Fields /\ q.after \in {"done", "find"} /\ q.untold \in BOOLEAN /\ q.ask \in Asks
      /\ q.found \subseteq Restricted /\ DOMAIN q.frames = q.found
  BY <1>1, RequestIs DEF RequestOK
<1>4. DOMAIN on = Fields /\ on.ask = q.ask /\ on.untold = FALSE /\ on.pc = q.after /\ on.after = q.after
  BY <1>3 DEF Fields
<1>5. RequestOK(p)
  <2> HIDE DEF on
  <2>1. q.after = "find" => RequestOK(on)
    BY <1>3, <1>4 DEF RequestOK
  <2> QED BY <1>3, <2>1, IdleIs
<1> HIDE DEF p
<1>6. /\ DOMAIN requests = Requests /\ (\A x \in Requests : RequestOK(requests[x])) /\ Len(channel) <= QueueCap
      /\ (\E S : channel \in Seq(S)) /\ \A l \in Listeners : Due(l)
  BY DEF Inv
<1>7. DOMAIN requests' = Requests /\ requests'[r] = p /\ \A x \in Requests : x # r => requests'[x] = requests[x]
  BY <1>1, <1>6 DEF Become
<1>8. \A x \in Requests : RequestOK(requests'[x])
  BY <1>5, <1>6, <1>7
<1>9. lost \in SUBSET Listeners
  BY <1>3 DEF Restricted
<1>10. /\ DOMAIN listeners' = Listeners /\ faults' \in 0..MaxFaults
       /\ \A l \in Listeners : ListenerOK(listeners'[l])
       /\ \A l \in Listeners : l \notin DOMAIN q.frames => listeners'[l] = listeners[l]
       /\ \A l \in Listeners : l \in DOMAIN q.frames /\ listeners'[l].excuse = FALSE =>
            \/ listeners'[l].seen = Config(l)
            \/ ToldBy(l, {r})
  <2>1. PICK f : f = q.frames
    OBVIOUS
  <2>2. PICK by : by = {r}
    OBVIOUS
  <2>3. db' = db /\ TrySend(f, lost, by)
    BY <1>1, <1>2, <2>1, <2>2
  <2> HIDE DEF q
  <2>4. /\ DOMAIN listeners' = Listeners /\ faults' \in 0..MaxFaults
        /\ \A l \in Listeners : ListenerOK(listeners'[l])
        /\ \A l \in Listeners : l \notin DOMAIN f => listeners'[l] = listeners[l]
        /\ \A l \in Listeners : l \in DOMAIN f /\ listeners'[l].excuse = FALSE =>
             \/ listeners'[l].seen = Config(l)
             \/ ToldBy(l, by)
    BY <1>9, <2>3, TrySendGives
  <2> QED BY <2>1, <2>2, <2>4
<1>11. Uninformed(q) \subseteq q.found
  BY <1>1 DEF Uninformed
<1>12. \A l \in Listeners : listeners'[l].at = "in" /\ listeners'[l].excuse = FALSE =>
         \/ listeners'[l].seen = Config(l)
         \/ l \notin Restricted /\ channel' # <<>>
         \/ \E x \in Requests : l \in Uninformed(requests'[x])
  <2>1. TAKE l \in Listeners
  <2>2. CASE l \in q.found
    BY <1>3, <1>7, <1>10, <2>2 DEF ToldBy
  <2>3. CASE l \notin q.found
    <3>1. listeners'[l] = listeners[l]
      BY <1>3, <1>10, <2>3
    <3>2. \A x \in Requests : l \in Uninformed(requests[x]) => x # r
      BY <1>11, <2>3
    <3>3. \A x \in Requests : l \in Uninformed(requests[x]) => l \in Uninformed(requests'[x])
      BY <1>7, <3>2
    <3> QED BY <1>1, <1>6, <3>1, <3>3 DEF Due
  <2> QED BY <2>2, <2>3
<1> QED BY <1>1, <1>6, <1>7, <1>8, <1>10, <1>12, HubStep

LEMMA HubRunKeeps ==
  ASSUME Inv, HubRun
  PROVE  Inv'
<1> DEFINE hearers == {l \in Listeners \ Restricted : listeners[l].at = "in"}
           frames == [l \in hearers |-> Head(channel)]
<1>1. channel # <<>> /\ channel' = Tail(channel) /\ UNCHANGED <<db, requests, snapshot, work>> /\ db' = db
  BY DEF HubRun
<1>2. PICK lost \in SUBSET hearers : TrySend(frames, lost, {})
  BY DEF HubRun
<1>3. DOMAIN frames = hearers /\ lost \in SUBSET Listeners
  OBVIOUS
<1>4. hearers \intersect Restricted = {} /\ \A l \in Listeners : l \notin hearers /\ listeners[l].at = "in" => l \in Restricted
  OBVIOUS
<1> HIDE DEF frames, hearers
<1>5. /\ DOMAIN requests = Requests /\ (\A x \in Requests : RequestOK(requests[x])) /\ Len(channel) <= QueueCap
      /\ \A l \in Listeners : Due(l)
  BY DEF Inv
<1>6. PICK S : channel \in Seq(S)
  BY DEF Inv
<1>7. channel' \in Seq(S) /\ Len(channel') = Len(channel) - 1 /\ Len(channel) \in Nat
  BY <1>1, <1>6
<1>8. Len(channel') <= QueueCap /\ \E T : channel' \in Seq(T)
  BY <1>5, <1>7, CatalogAssumption
<1>9. /\ DOMAIN listeners' = Listeners /\ faults' \in 0..MaxFaults
      /\ \A l \in Listeners : ListenerOK(listeners'[l])
      /\ \A l \in Listeners : l \notin hearers => listeners'[l] = listeners[l]
      /\ \A l \in Listeners : l \in hearers /\ listeners'[l].excuse = FALSE =>
           \/ listeners'[l].seen = Config(l)
           \/ ToldBy(l, {})
  BY <1>1, <1>2, <1>3, TrySendGives
<1>10. \A l \in Listeners : listeners'[l].at = "in" /\ listeners'[l].excuse = FALSE =>
         \/ listeners'[l].seen = Config(l)
         \/ l \notin Restricted /\ channel' # <<>>
         \/ \E x \in Requests : l \in Uninformed(requests'[x])
  <2>1. TAKE l \in Listeners
  <2>2. CASE l \in hearers
    BY <1>1, <1>9, <2>2 DEF ToldBy
  <2>3. CASE l \notin hearers
    BY <1>1, <1>4, <1>5, <1>9, <2>3 DEF Due
  <2> QED BY <2>2, <2>3
<1>11. requests' = requests
  BY <1>1
<1> QED BY <1>1, <1>5, <1>8, <1>9, <1>10, <1>11, HubStep

-----------------------------------------------------------------------------

LEMMA NextKeeps ==
  ASSUME Inv, [Next]_vars
  PROVE  Inv'
<1>1. CASE UNCHANGED vars
  <2>1. /\ UNCHANGED <<db, snapshot, work>> /\ requests' = requests /\ channel' = channel /\ listeners' = listeners /\ faults' = faults
    BY <1>1 DEF vars
  <2>2. /\ DOMAIN requests = Requests /\ (\A x \in Requests : RequestOK(requests[x])) /\ Len(channel) <= QueueCap
        /\ (\E S : channel \in Seq(S)) /\ faults \in 0..MaxFaults
        /\ DOMAIN listeners = Listeners /\ \A l \in Listeners : ListenerOK(listeners[l]) /\ Due(l)
    BY DEF Inv
  <2>3. \A l \in Listeners : listeners'[l].at = "in" /\ listeners'[l].excuse = FALSE =>
          \/ listeners'[l].seen = Config(l)
          \/ l \notin Restricted /\ channel' # <<>>
          \/ \E x \in Requests : l \in Uninformed(requests'[x])
    BY <2>1, <2>2 DEF Due
  <2> QED BY <2>1, <2>2, <2>3, HubStep
<1>2. CASE \E r \in Requests, a \in Asks : Begin(r, a)
  BY <1>2, BeginKeeps
<1>3. CASE \E l \in Listeners : sendWelcome(l) \/ Register(l)
  BY <1>3, ListenersKeep
<1>4. CASE HubRun
  BY <1>4, HubRunKeeps
<1>5. ASSUME NEW r \in Requests,
             \/ SystemsCreate(r) \/ SystemsUpdate(r) \/ SystemsDelete(r) \/ setBlocked(r)
             \/ TalkgroupsCreate(r) \/ TalkgroupsUpdate(r) \/ TalkgroupsDelete(r) \/ TalkgroupsBulk(r)
             \/ LabelsCreate(r) \/ LabelsUpdate(r) \/ MoveBeforeDelete(r) \/ LabelsDelete(r)
             \/ UnitsCreate(r) \/ UnitsUpdate(r) \/ UnitsDelete(r)
             \/ FindRow(r) \/ TalkgroupsImport(r) \/ RadioReferenceApply(r) \/ ImportTalkgroups(r)
             \/ UnitsImport(r) \/ ImportUnits(r) \/ labelsImport(r) \/ importLabelOnly(r) \/ EndImport(r)
             \/ NewSystem(r) \/ FindTalkgroup(r) \/ ResolveLabels(r) \/ SaveTalkgroup(r)
             \/ writePreRestoreSnapshot(r) \/ RestoreBackup(r)
             \/ Refetch(r) \/ Build(r) \/ Send(r) \/ BuildScoped(r) \/ Deliver(r) \/ Fail(r)
      PROVE  Inv'
  <2>1. CASE SystemsCreate(r) \/ SystemsUpdate(r) \/ SystemsDelete(r) \/ setBlocked(r)
    BY <2>1, SystemsKeep
  <2>2. CASE TalkgroupsCreate(r) \/ TalkgroupsUpdate(r) \/ TalkgroupsDelete(r) \/ TalkgroupsBulk(r)
    BY <2>2, TalkgroupsKeep
  <2>3. CASE LabelsCreate(r) \/ LabelsUpdate(r) \/ MoveBeforeDelete(r) \/ LabelsDelete(r)
    BY <2>3, LabelsKeep
  <2>4. CASE UnitsCreate(r) \/ UnitsUpdate(r) \/ UnitsDelete(r)
    BY <2>4, UnitsKeep
  <2>5. CASE FindRow(r) \/ TalkgroupsImport(r) \/ RadioReferenceApply(r) \/ ImportTalkgroups(r)
    BY <2>5, FindRowKeeps, TalkgroupsImportKeeps, RadioReferenceKeeps, ImportTalkgroupsKeeps
  <2>6. CASE UnitsImport(r) \/ ImportUnits(r)
    BY <2>6, UnitImportsKeep
  <2>7. CASE labelsImport(r) \/ importLabelOnly(r) \/ EndImport(r)
    BY <2>7, LabelImportsKeep
  <2>8. CASE NewSystem(r) \/ FindTalkgroup(r) \/ ResolveLabels(r) \/ SaveTalkgroup(r)
    BY <2>8, UploadsKeep
  <2>9. CASE writePreRestoreSnapshot(r) \/ RestoreBackup(r)
    BY <2>9, RestoresKeep
  <2>10. CASE Refetch(r) \/ Build(r) \/ Send(r) \/ BuildScoped(r) \/ Deliver(r) \/ Fail(r)
    BY <2>10, RefetchKeeps, BuildKeeps, SendKeeps, BuildScopedKeeps, DeliverKeeps, FailKeeps
  <2> QED BY <1>5, <2>1, <2>2, <2>3, <2>4, <2>5, <2>6, <2>7, <2>8, <2>9, <2>10
<1> QED BY <1>1, <1>2, <1>3, <1>4, <1>5 DEF Next

\* Whatever the admin's operations, the imports, the uploads and the restores
\* do to each other between their statements, the tables keep what the schema
\* promises (one row for each natural key, references that lead somewhere),
\* and once nothing is under way every listener has the configuration its
\* grants show of them, unless it is excused (Hub.BroadcastCFG,
\* internal/ws/hub.go; internal/admin; ImportConfig).
THEOREM CatalogIsWhole == Spec => []CatalogInv
<1>1. Init => Inv
  BY InitKeeps
<1>2. Inv /\ [Next]_vars => Inv'
  BY NextKeeps
<1>3. Inv => CatalogInv
  BY InvImplies
<1> QED BY <1>1, <1>2, <1>3, PTL DEF Spec

-----------------------------------------------------------------------------
(* What requests do to each other's facts.                                 *)

\* What is left of a list: some of it.
PartOf(s, all) == s # <<>> /\ s \in Seq({all[i] : i \in DOMAIN all})

\* A request in one of these places has the row of a talkgroup in hand.
InHand(q) ==
  \/ q.pc = "row" /\ q.ask.op \in TalkgroupImports
  \/ q.pc \in {"resolve", "save"} /\ q.ask.op = "Upload"

InOrder(q) ==
  /\ q.pc = "rows" /\ q.ask.op = "TalkgroupsDelete" => PartOf(q.left, q.ask.ids)
  /\ q.pc \in {"rows", "row"} /\ q.ask.op \in TalkgroupImports => PartOf(q.left, q.ask.rows)
  /\ q.pc = "row" /\ q.ask.op \in TalkgroupImports =>
       \A p \in q.found : p[2].sys = q.ask.sys /\ p[2].num = Head(q.left).num

\* What a request that is about to write over a fact has read of it.
Knows(q, fact) ==
  /\ q.pc = "write" /\ q.ask.op \in {"SystemsBlock", "SystemsUnblock"} /\ fact[1] = "block" /\ fact[2] = q.ask.id =>
       fact[3] \in q.read
  /\ InHand(q) /\ fact[1] = "label" => \A p \in q.found : fact[2] = p[1] => fact = LabelFact(p[1], p[2])
  /\ q.pc = "row" /\ q.ask.op = "ImportTalkgroups" /\ q.found = {} /\ fact[1] = "label" =>
       ~(fact[3] = q.ask.sys /\ fact[4] = Head(q.left).num)

\* A request knows what it is about to write over, unless it was written
\* while the request ran.
MindOK(q, d) == InOrder(q) /\ \A fact \in Facts(d) : fact \in q.missed \/ Knows(q, fact)
Mind == \A r \in Requests : MindOK(requests[r], db)

\* A talkgroup with a label.
Called(tg) == tg.label # ""

\* What a fact says, and of what.
LEMMA FactIs ==
  ASSUME NEW d, NEW fact
  PROVE  fact \in Facts(d) <=>
           \/ \E g \in DOMAIN d.talkgroups : Called(d.talkgroups[g]) /\ fact = LabelFact(g, d.talkgroups[g])
           \/ \E s \in DOMAIN d.systems : \E n \in d.systems[s].blocked : fact = <<"block", s, n>>
<1> DEFINE A == {LabelFact(g, d.talkgroups[g]) : g \in {x \in DOMAIN d.talkgroups : Called(d.talkgroups[x])}}
           blocks(s) == {<<"block", s, n>> : n \in d.systems[s].blocked}
           B == UNION {blocks(s) : s \in DOMAIN d.systems}
<1>1. Facts(d) = A \union B
  BY Zenon DEF Facts, Called
<1>2. fact \in A <=> \E g \in DOMAIN d.talkgroups : Called(d.talkgroups[g]) /\ fact = LabelFact(g, d.talkgroups[g])
  OBVIOUS
<1>3. fact \in B <=> \E s \in DOMAIN d.systems : fact \in blocks(s)
  <2> HIDE DEF blocks
  <2> QED OBVIOUS
<1>4. \A s : fact \in blocks(s) <=> \E n \in d.systems[s].blocked : fact = <<"block", s, n>>
  OBVIOUS
<1> HIDE DEF A, B, blocks
<1> QED BY <1>1, <1>2, <1>3, <1>4

LEMMA FactSays ==
  ASSUME NEW g, NEW tg, NEW s, NEW n
  PROVE  /\ LabelFact(g, tg)[1] = "label" /\ LabelFact(g, tg)[2] = g /\ LabelFact(g, tg)[3] = tg.sys
         /\ LabelFact(g, tg)[4] = tg.num /\ LabelFact(g, tg)[5] = tg.label
         /\ <<"block", s, n>>[1] = "block" /\ <<"block", s, n>>[2] = s /\ <<"block", s, n>>[3] = n
BY DEF LabelFact

\* A fact goes with its talkgroup, or with what the talkgroup is and is
\* called, or with the blocked number.
KeepsLabel(d, e, g) == g \in DOMAIN e.talkgroups /\ LabelFact(g, e.talkgroups[g]) = LabelFact(g, d.talkgroups[g])
KeepsBlocks(d, e, s) == s \in DOMAIN e.systems /\ d.systems[s].blocked \subseteq e.systems[s].blocked

LEMMA SameLabel ==
  ASSUME NEW g, NEW x, NEW y, LabelFact(g, x) = LabelFact(g, y)
  PROVE  x.sys = y.sys /\ x.num = y.num /\ x.label = y.label
BY FactSays

LEMMA SameLabelFact ==
  ASSUME NEW g, NEW x, NEW y, x.sys = y.sys, x.num = y.num, x.label = y.label
  PROVE  LabelFact(g, x) = LabelFact(g, y)
BY DEF LabelFact

LEMMA LostIs ==
  ASSUME NEW d, NEW e, NEW fact \in Facts(d) \ Facts(e)
  PROVE  \/ \E g \in DOMAIN d.talkgroups :
              Called(d.talkgroups[g]) /\ fact = LabelFact(g, d.talkgroups[g]) /\ ~KeepsLabel(d, e, g)
         \/ \E s \in DOMAIN d.systems : \E n \in d.systems[s].blocked : fact = <<"block", s, n>> /\ ~KeepsBlocks(d, e, s)
<1>1. ASSUME NEW g \in DOMAIN d.talkgroups, Called(d.talkgroups[g]), fact = LabelFact(g, d.talkgroups[g]), KeepsLabel(d, e, g)
      PROVE FALSE
  <2>1. g \in DOMAIN e.talkgroups /\ fact = LabelFact(g, e.talkgroups[g])
    BY <1>1 DEF KeepsLabel
  <2>2. e.talkgroups[g].label = d.talkgroups[g].label
    BY <1>1, SameLabel DEF KeepsLabel
  <2>3. Called(e.talkgroups[g])
    BY <1>1, <2>2, Zenon DEF Called
  <2> QED BY <2>1, <2>3, FactIs
<1>2. ASSUME NEW s \in DOMAIN d.systems, NEW n \in d.systems[s].blocked, fact = <<"block", s, n>>, KeepsBlocks(d, e, s)
      PROVE FALSE
  <2>1. s \in DOMAIN e.systems /\ n \in e.systems[s].blocked
    BY <1>2 DEF KeepsBlocks
  <2> QED BY <1>2, <2>1, FactIs
<1>3. fact \in Facts(d)
  OBVIOUS
<1> QED BY <1>1, <1>2, <1>3, FactIs

NothingLost(d, e) ==
  (\A g \in DOMAIN d.talkgroups : KeepsLabel(d, e, g)) /\ (\A s \in DOMAIN d.systems : KeepsBlocks(d, e, s))

LEMMA NothingIsLost ==
  ASSUME NEW d, NEW e, NothingLost(d, e)
  PROVE  Facts(d) \subseteq Facts(e)
BY LostIs DEF NothingLost

\* Labels looked up or created touch neither talkgroups nor systems.
SameTalk(d, e) == e.talkgroups = d.talkgroups /\ e.systems = d.systems

LEMMA SameTalkLosesNothing ==
  ASSUME NEW d, NEW e, SameTalk(d, e)
  PROVE  NothingLost(d, e) /\ Facts(e) = Facts(d)
BY DEF SameTalk, NothingLost, KeepsLabel, KeepsBlocks, Facts

\* Two requests that have read the same mind the same.
LEMMA MindOf ==
  ASSUME NEW q, NEW p, NEW d, MindOK(q, d), p.pc = q.pc, p.ask = q.ask, p.left = q.left, p.found = q.found,
         p.read = q.read, q.missed \subseteq p.missed
  PROVE  MindOK(p, d)
<1>1. InHand(p) <=> InHand(q)
  BY DEF InHand
<1>2. InOrder(p)
  BY DEF MindOK, InOrder
<1>3. ASSUME NEW fact, Knows(q, fact) PROVE Knows(p, fact)
  BY <1>1, <1>3 DEF Knows
<1> QED BY <1>2, <1>3 DEF MindOK

\* In all other places there is nothing to know.
Heedless == {"idle", "move", "fetch", "silent", "cfg", "send", "find", "newSystem", "restore", "scoped", "deliver"}

LEMMA HeedlessOf ==
  ASSUME NEW q, NEW d,
         \/ q.pc \in Heedless
         \/ q.pc = "write" /\ q.ask.op \notin {"SystemsBlock", "SystemsUnblock"}
         \/ q.pc = "save" /\ q.ask.op # "Upload"
         \/ q.pc = "row" /\ q.ask.op \notin TalkgroupImports
         \/ q.pc = "rows" /\ InOrder(q)
  PROVE  MindOK(q, d)
<1>1. ~InHand(q)
  BY DEF InHand, Heedless
<1>2. InOrder(q)
  BY DEF InOrder, Heedless
<1>3. ASSUME NEW fact PROVE Knows(q, fact)
  <2>1. q.pc = "row" => q.ask.op # "ImportTalkgroups"
    BY DEF Heedless, TalkgroupImports
  <2>2. q.pc = "write" => q.ask.op \notin {"SystemsBlock", "SystemsUnblock"}
    BY DEF Heedless
  <2> QED BY <1>1, <2>1, <2>2 DEF Knows
<1> QED BY <1>2, <1>3 DEF MindOK

LEMMA MindPrimed ==
  ASSUME \A x \in Requests : MindOK(requests'[x], db')
  PROVE  Mind'
BY DEF Mind, MindOK, InOrder, Knows, InHand, PartOf, Facts, LabelFact

\* The request as it is after a statement.
LEMMA Written ==
  ASSUME Inv, NEW r \in Requests, requests[r].pc # "idle", NEW d, NEW q, DOMAIN q = Fields, Write(r, d, q)
  PROVE  \A f \in Fields \ {"untold"} : requests'[r][f] = q[f]
<1> DEFINE p == requests'[r]
<1>1. CASE q = Idle
  BY <1>1 DEF Write
<1>2. CASE q # Idle
  <2> DEFINE untold == q.untold \/ buildCFGPayload(d, {AllSystems}) # buildCFGPayload(db, {AllSystems})
  <2>1. p = [q EXCEPT !.untold = untold]
    BY <1>2 DEF Write
  <2> HIDE DEF untold
  <2> QED BY <2>1 DEF Fields
<1> QED BY <1>1, <1>2

\* The others see what was written as missed.
LEMMA OthersMind ==
  ASSUME Inv, Mind, NEW r \in Requests, NEW d, NEW q, Write(r, d, q), NEW x \in Requests, x # r
  PROVE  MindOK(requests'[x], d)
<1> DEFINE old == requests[x]
           missed == old.missed \union (Facts(d) \ Facts(db))
           new == [old EXCEPT !.missed = missed]
<1>1. CASE old.pc = "idle"
  <2>1. requests'[x] = Idle
    BY <1>1 DEF Write
  <2> QED BY <2>1, IdleIs, HeedlessOf DEF Heedless
<1>2. CASE old.pc # "idle"
  <2>1. requests'[x] = new
    BY <1>2 DEF Write
  <2>2. DOMAIN old = Fields
    BY DEF Inv, RequestOK
  <2> HIDE DEF missed
  <2>3. /\ new.pc = old.pc /\ new.ask = old.ask /\ new.left = old.left /\ new.found = old.found /\ new.read = old.read
        /\ new.missed = missed
    BY <2>2 DEF Fields
  <2> HIDE DEF new
  <2>4. old.missed \subseteq missed /\ Facts(d) \ Facts(db) \subseteq missed
    BY DEF missed
  <2>5. MindOK(old, db)
    BY DEF Mind
  <2>6. MindOK(new, db)
    BY <2>3, <2>4, <2>5, MindOf
  <2>7. MindOK(new, d)
    <3>1. \A fact \in Facts(d) : fact \in Facts(db) \/ fact \in new.missed
      BY <2>3, <2>4
    <3> QED BY <2>6, <3>1 DEF MindOK
  <2> QED BY <2>1, <2>7
<1> QED BY <1>1, <1>2

LEMMA WriteMind ==
  ASSUME Inv, Mind, NEW r \in Requests, requests[r].pc # "idle", NEW d, NEW q, DOMAIN q = Fields, MindOK(q, d),
         Write(r, d, q)
  PROVE  Mind' /\ db' = d /\ requests'[r].pc = q.pc /\ requests'[r].left = q.left
<1> DEFINE p == requests'[r]
<1>1. \A f \in Fields \ {"untold"} : p[f] = q[f]
  BY Written
<1>2. p.pc = q.pc /\ p.ask = q.ask /\ p.left = q.left /\ p.found = q.found /\ p.read = q.read /\ p.missed = q.missed
  BY <1>1 DEF Fields
<1> HIDE DEF p
<1>3. MindOK(p, d)
  BY <1>2, MindOf
<1>4. db' = d
  BY DEF Write
<1>5. \A x \in Requests : MindOK(requests'[x], d)
  BY <1>3, OthersMind DEF p
<1> QED BY <1>2, <1>4, <1>5, MindPrimed DEF p

\* A request that goes on without a write.
LEMMA BecomeMind ==
  ASSUME Inv, Mind, NEW r \in Requests, NEW q, MindOK(q, db), Become(r, q), db' = db
  PROVE  Mind'
<1>1. DOMAIN requests = Requests
  BY DEF Inv
<1>2. requests'[r] = q /\ \A x \in Requests : x # r => requests'[x] = requests[x]
  BY <1>1 DEF Become
<1>3. \A x \in Requests : MindOK(requests[x], db)
  BY DEF Mind
<1> QED BY <1>2, <1>3, MindPrimed

\* What OnlyOverlapUndoes asks of a step.
Explained ==
  \A fact \in Facts(db) \ Facts(db') :
    \E r \in Requests : Steps(r) /\ (AskedToUndo(requests[r].ask, fact) \/ fact \in requests[r].missed)

LEMMA WriteExplains ==
  ASSUME Inv, Mind, NEW r \in Requests, requests[r].pc # "idle", NEW d, NEW q, DOMAIN q = Fields, MindOK(q, d),
         Write(r, d, q), q.pc # requests[r].pc \/ q.left # requests[r].left,
         \A fact \in Facts(db) \ Facts(d) : AskedToUndo(requests[r].ask, fact) \/ fact \in requests[r].missed
  PROVE  Mind' /\ Explained
<1>1. Mind' /\ db' = d /\ requests'[r].pc = q.pc /\ requests'[r].left = q.left
  BY WriteMind
<1>2. Steps(r)
  BY <1>1 DEF Steps
<1> QED BY <1>1, <1>2 DEF Explained

\* One that writes and loses nothing.
LEMMA WriteAdds ==
  ASSUME Inv, Mind, NEW r \in Requests, requests[r].pc # "idle", NEW d, NEW q, DOMAIN q = Fields, MindOK(q, d),
         Write(r, d, q), NothingLost(db, d)
  PROVE  Mind' /\ Explained
<1>1. Mind' /\ db' = d
  BY WriteMind
<1>2. Facts(db) \subseteq Facts(d)
  BY NothingIsLost
<1> QED BY <1>1, <1>2 DEF Explained

LEMMA IdleMind ==
  ASSUME NEW d
  PROVE  DOMAIN Idle = Fields /\ MindOK(Idle, d)
BY IdleIs, HeedlessOf DEF Heedless

LEMMA ReturnExplains ==
  ASSUME Inv, Mind, NEW r \in Requests, requests[r].pc # "idle", Return(r)
  PROVE  Mind' /\ Explained
<1>1. Write(r, db, Idle)
  BY DEF Return, Stop
<1>2. NothingLost(db, db)
  BY SameTalkLosesNothing DEF SameTalk
<1> QED BY <1>1, <1>2, IdleMind, WriteAdds

LEMMA BecomeExplains ==
  ASSUME Inv, Mind, NEW r \in Requests, NEW q, MindOK(q, db), Become(r, q), db' = db
  PROVE  Mind' /\ Explained
BY BecomeMind DEF Explained

-----------------------------------------------------------------------------
(* What each change of the tables loses.                                   *)

\* Only what is written over.
LEMMA PutChanges ==
  ASSUME NEW d, Schema(d), NEW t \in IdTables, NEW id, NEW row, NEW e, e = Put(d, t, id, row)
  PROVE  /\ \A u \in Tables : u # t => e[u] = d[u]
         /\ \A i \in DOMAIN d[t] : i \in DOMAIN e[t] /\ e[t][i] = IF i = id THEN row ELSE d[t][i]
<1>1. Database(d) /\ DOMAIN d = Tables \union {"seq"} /\ NoId \notin DOMAIN d[t] /\ t \in Tables
  BY SchemaIs, TableNames
<1>2. CASE id = NoId
  <2>1. e = Insert(d, t, row)
    BY <1>2 DEF Put
  <2>2. /\ \A u \in Tables : u # t => e[u] = d[u]
        /\ d.seq[t] + 1 \notin DOMAIN d[t]
        /\ e[t] = [i \in DOMAIN d[t] \union {d.seq[t] + 1} |-> IF i = d.seq[t] + 1 THEN row ELSE d[t][i]]
    BY <1>1, <2>1, Inserts
  <2> QED BY <1>1, <1>2, <2>2
<1>3. CASE id # NoId /\ id \in DOMAIN d[t]
  <2>1. e = [d EXCEPT ![t][id] = row]
    BY <1>3 DEF Put
  <2> QED BY <1>1, <2>1, Overwrites
<1>4. CASE id # NoId /\ id \notin DOMAIN d[t]
  BY <1>4 DEF Put
<1> QED BY <1>2, <1>3, <1>4

LEMMA PutElsewhere ==
  ASSUME NEW d, Schema(d), NEW t \in IdTables \ {"talkgroups", "systems"}, NEW id, NEW row
  PROVE  NothingLost(d, Put(d, t, id, row))
<1> DEFINE e == Put(d, t, id, row)
<1>1. \A u \in Tables : u # t => e[u] = d[u]
  BY PutChanges
<1> HIDE DEF e
<1>2. SameTalk(d, e)
  BY <1>1, TableNames DEF SameTalk
<1> QED BY <1>2, SameTalkLosesNothing DEF e

\* A new row, or one that says the same, loses nothing.
LEMMA PutTalkgroup ==
  ASSUME NEW d, Schema(d), NEW id, NEW row,
         id \in DOMAIN d.talkgroups => LabelFact(id, row) = LabelFact(id, d.talkgroups[id])
  PROVE  NothingLost(d, Put(d, "talkgroups", id, row))
<1> DEFINE e == Put(d, "talkgroups", id, row)
<1>0. "talkgroups" \in IdTables
  BY TableNames
<1>1. /\ \A u \in Tables : u # "talkgroups" => e[u] = d[u]
      /\ \A i \in DOMAIN d["talkgroups"] : i \in DOMAIN e["talkgroups"] /\ e["talkgroups"][i] = IF i = id THEN row ELSE d["talkgroups"][i]
  BY <1>0, PutChanges
<1> HIDE DEF e
<1>2. e.systems = d.systems
  BY <1>1, TableNames
<1>3. \A g \in DOMAIN d.talkgroups : KeepsLabel(d, e, g)
  BY <1>1 DEF KeepsLabel
<1>4. \A s \in DOMAIN d.systems : KeepsBlocks(d, e, s)
  BY <1>2 DEF KeepsBlocks
<1> QED BY <1>3, <1>4 DEF NothingLost, e

LEMMA PutSystem ==
  ASSUME NEW d, Schema(d), NEW id, NEW row
  PROVE  LET e == Put(d, "systems", id, row) IN
         /\ e.talkgroups = d.talkgroups
         /\ \A s \in DOMAIN d.systems : s \in DOMAIN e.systems /\ (s # id => e.systems[s] = d.systems[s])
<1> DEFINE e == Put(d, "systems", id, row)
<1>0. "systems" \in IdTables
  BY TableNames
<1>1. /\ \A u \in Tables : u # "systems" => e[u] = d[u]
      /\ \A i \in DOMAIN d["systems"] : i \in DOMAIN e["systems"] /\ e["systems"][i] = IF i = id THEN row ELSE d["systems"][i]
  BY <1>0, PutChanges
<1> HIDE DEF e
<1> QED BY <1>1, TableNames DEF e

\* The fact a talkgroup's row took with it, if there was one.
LEMMA TalkgroupLost ==
  ASSUME NEW d, NEW e, e.systems = d.systems, NEW G, \A g \in DOMAIN d.talkgroups : g \notin G => KeepsLabel(d, e, g),
         NEW fact \in Facts(d) \ Facts(e)
  PROVE  \E g \in G \intersect DOMAIN d.talkgroups :
           Called(d.talkgroups[g]) /\ fact = LabelFact(g, d.talkgroups[g]) /\ ~KeepsLabel(d, e, g)
<1>1. \A s \in DOMAIN d.systems : KeepsBlocks(d, e, s)
  BY DEF KeepsBlocks
<1> QED BY <1>1, LostIs

LEMMA BlockLost ==
  ASSUME NEW d, NEW e, \A g \in DOMAIN d.talkgroups : KeepsLabel(d, e, g),
         NEW s, \A x \in DOMAIN d.systems : x # s => KeepsBlocks(d, e, x), NEW fact \in Facts(d) \ Facts(e)
  PROVE  s \in DOMAIN d.systems /\ \E n \in d.systems[s].blocked : fact = <<"block", s, n>> /\ ~KeepsBlocks(d, e, s)
<1>1. \/ \E g \in DOMAIN d.talkgroups :
           Called(d.talkgroups[g]) /\ fact = LabelFact(g, d.talkgroups[g]) /\ ~KeepsLabel(d, e, g)
      \/ \E x \in DOMAIN d.systems : \E n \in d.systems[x].blocked : fact = <<"block", x, n>> /\ ~KeepsBlocks(d, e, x)
  BY LostIs
<1>2. PICK x \in DOMAIN d.systems : \E n \in d.systems[x].blocked : fact = <<"block", x, n>> /\ ~KeepsBlocks(d, e, x)
  BY <1>1
<1>3. x = s
  BY <1>2
<1> QED BY <1>2, <1>3

\* An insert or a drop in one table leaves the others.
LEMMA InsertLeaves ==
  ASSUME NEW d, NEW t, NEW row, NEW u \in DOMAIN d, u # t, u # "seq"
  PROVE  Insert(d, t, row)[u] = d[u]
BY DEF Insert

LEMMA DropLeaves ==
  ASSUME NEW d, NEW t, NEW ids, NEW u \in DOMAIN d, u # t
  PROVE  Drop(d, t, ids)[u] = d[u]
BY DEF Drop

LEMMA DropTakes ==
  ASSUME NEW d, NEW t \in DOMAIN d, NEW ids
  PROVE  /\ DOMAIN Drop(d, t, ids) = DOMAIN d
         /\ Drop(d, t, ids)[t] = [i \in DOMAIN d[t] \ ids |-> d[t][i]]
BY DEF Drop

LEMMA Talk ==
  ASSUME NEW d, Schema(d)
  PROVE  "talkgroups" \in DOMAIN d /\ "systems" \in DOMAIN d /\ "units" \in DOMAIN d
BY SchemaIs, TableNames

LEMMA DropElsewhere ==
  ASSUME NEW d, Schema(d), NEW t, t \notin {"talkgroups", "systems"}, NEW ids
  PROVE  NothingLost(d, Drop(d, t, ids))
<1> DEFINE e == Drop(d, t, ids)
<1>1. e["talkgroups"] = d["talkgroups"] /\ e["systems"] = d["systems"]
  BY Talk, DropLeaves
<1> HIDE DEF e
<1>2. SameTalk(d, e)
  BY <1>1 DEF SameTalk
<1> QED BY <1>2, SameTalkLosesNothing DEF e

LEMMA DropTalkgroupsLoses ==
  ASSUME NEW d, Schema(d), NEW ids, NEW fact \in Facts(d) \ Facts(Drop(d, "talkgroups", ids))
  PROVE  \E g \in ids \intersect DOMAIN d.talkgroups : Called(d.talkgroups[g]) /\ fact = LabelFact(g, d.talkgroups[g])
<1> DEFINE e == Drop(d, "talkgroups", ids)
<1>1. e["systems"] = d["systems"]
  BY Talk, DropLeaves
<1>2. e["talkgroups"] = [i \in DOMAIN d["talkgroups"] \ ids |-> d["talkgroups"][i]]
  BY Talk, DropTakes
<1>3. fact \in Facts(d) \ Facts(e)
  OBVIOUS
<1> HIDE DEF e
<1>4. \A g \in DOMAIN d.talkgroups : g \notin ids => KeepsLabel(d, e, g)
  BY <1>2 DEF KeepsLabel
<1> QED BY <1>1, <1>3, <1>4, TalkgroupLost

LEMMA DropSystemLoses ==
  ASSUME NEW d, Schema(d), NEW s, NEW fact \in Facts(d) \ Facts(DropSystems(d, {s}))
  PROVE  \/ \E g \in DOMAIN d.talkgroups : d.talkgroups[g].sys = s /\ fact = LabelFact(g, d.talkgroups[g])
         \/ \E n \in d.systems[s].blocked : fact = <<"block", s, n>>
<1> DEFINE tgs == TalkgroupsOf(d, {s})
           units == UnitsOf(d, {s})
           d1 == Drop(d, "talkgroups", tgs)
           d2 == Drop(d1, "units", units)
           e == Drop(d2, "systems", {s})
<1>1. \A g \in DOMAIN d.talkgroups : g \in tgs => d.talkgroups[g].sys = s
  BY DEF TalkgroupsOf
<1>2. fact \in Facts(d) \ Facts(e)
  BY DEF DropSystems
<1> HIDE DEF tgs, units
<1>3. "talkgroups" \in DOMAIN d /\ "systems" \in DOMAIN d /\ "units" \in DOMAIN d
  BY Talk
<1>4. DOMAIN d1 = DOMAIN d /\ d1["systems"] = d["systems"]
      /\ d1["talkgroups"] = [i \in DOMAIN d["talkgroups"] \ tgs |-> d["talkgroups"][i]]
  <2>1. d1["systems"] = d["systems"]
    BY <1>3, DropLeaves
  <2>2. DOMAIN d1 = DOMAIN d
    BY <1>3, DropTakes
  <2>3. d1["talkgroups"] = [i \in DOMAIN d["talkgroups"] \ tgs |-> d["talkgroups"][i]]
    BY <1>3, DropTakes
  <2> QED BY <2>1, <2>2, <2>3
<1> HIDE DEF d1
<1>5. DOMAIN d2 = DOMAIN d1 /\ d2["systems"] = d1["systems"] /\ d2["talkgroups"] = d1["talkgroups"]
  <2>1. d2["systems"] = d1["systems"] /\ d2["talkgroups"] = d1["talkgroups"]
    BY <1>4, <1>3, DropLeaves
  <2>2. "units" \in DOMAIN d1
    BY <1>4, <1>3
  <2>3. DOMAIN d2 = DOMAIN d1
    BY <2>2, DropTakes
  <2> QED BY <2>1, <2>3
<1> HIDE DEF d2
<1>6. e["talkgroups"] = d2["talkgroups"] /\ e["systems"] = [i \in DOMAIN d2["systems"] \ {s} |-> d2["systems"][i]]
  <2>1. "talkgroups" \in DOMAIN d2 /\ "systems" \in DOMAIN d2
    BY <1>4, <1>5, <1>3
  <2>2. e["talkgroups"] = d2["talkgroups"]
    BY <2>1, DropLeaves
  <2> QED BY <2>1, <2>2, DropTakes
<1> HIDE DEF e
<1>7. \A g \in DOMAIN d.talkgroups : g \notin tgs => KeepsLabel(d, e, g)
  BY <1>4, <1>5, <1>6 DEF KeepsLabel
<1>8. \A x \in DOMAIN d.systems : x # s => KeepsBlocks(d, e, x)
  BY <1>4, <1>5, <1>6 DEF KeepsBlocks
<1>9. \/ \E g \in DOMAIN d.talkgroups :
           Called(d.talkgroups[g]) /\ fact = LabelFact(g, d.talkgroups[g]) /\ ~KeepsLabel(d, e, g)
      \/ \E x \in DOMAIN d.systems : \E n \in d.systems[x].blocked : fact = <<"block", x, n>> /\ ~KeepsBlocks(d, e, x)
  BY <1>2, LostIs
<1> QED BY <1>1, <1>7, <1>8, <1>9

LEMMA InsertElsewhere ==
  ASSUME NEW d, Schema(d), NEW t, t \notin {"talkgroups", "systems"}, NEW row
  PROVE  SameTalk(d, Insert(d, t, row))
BY Talk, InsertLeaves DEF SameTalk

LEMMA MoveLosesNothing ==
  ASSUME NEW d, Schema(d), NEW kind \in Kinds, NEW ids, NEW to
  PROVE  NothingLost(d, MoveTalkgroups(d, kind, ids, to))
<1> DEFINE e == MoveTalkgroups(d, kind, ids, to)
           c == LabelColumn(kind)
<1>1. c \in {"group", "tag"}
  BY DEF LabelColumn
<1>2. DOMAIN d = Tables \union {"seq"} /\ "talkgroups" \in Tables /\ "systems" \in Tables
  BY SchemaIs, TableNames
<1>3. /\ e.systems = d.systems
      /\ e.talkgroups = [g \in DOMAIN d.talkgroups |->
           IF g \in UsersOf(d, kind, ids) THEN [d.talkgroups[g] EXCEPT ![c] = to] ELSE d.talkgroups[g]]
  BY <1>2 DEF MoveTalkgroups
<1> HIDE DEF e, c
<1>4. ASSUME NEW g \in DOMAIN d.talkgroups PROVE KeepsLabel(d, e, g)
  <2>1. g \in DOMAIN e.talkgroups /\ (e.talkgroups[g] = d.talkgroups[g] \/ e.talkgroups[g] = [d.talkgroups[g] EXCEPT ![c] = to])
    BY <1>3
  <2>2. /\ e.talkgroups[g].sys = d.talkgroups[g].sys /\ e.talkgroups[g].num = d.talkgroups[g].num
        /\ e.talkgroups[g].label = d.talkgroups[g].label
    <3> DEFINE tg == d.talkgroups[g]
    <3>1. [tg EXCEPT ![c] = to].sys = tg.sys /\ [tg EXCEPT ![c] = to].num = tg.num /\ [tg EXCEPT ![c] = to].label = tg.label
      <4>1. DOMAIN tg = {"sys", "num", "label", "group", "tag"}
        BY SchemaIs, TableNames DEF Columns
      <4> HIDE DEF tg
      <4> QED BY <1>1, <4>1
    <3> QED BY <2>1, <3>1
  <2> QED BY <2>1, <2>2, SameLabelFact DEF KeepsLabel
<1>5. \A s \in DOMAIN d.systems : KeepsBlocks(d, e, s)
  BY <1>3 DEF KeepsBlocks
<1> QED BY <1>4, <1>5 DEF NothingLost, e

LEMMA ResolveSame ==
  ASSUME NEW d, Schema(d), NEW kind \in Kinds, NEW label
  PROVE  SameTalk(d, Resolve(d, kind, label).db)
<1> DEFINE row == [label |-> label]
<1>1. Resolve(d, kind, label).db = d \/ Resolve(d, kind, label).db = Insert(d, kind, row)
  BY Zenon DEF Resolve
<1>2. SameTalk(d, Insert(d, kind, row))
  BY InsertElsewhere, TableNames
<1> QED BY <1>1, <1>2 DEF SameTalk

LEMMA ResolveBothSame ==
  ASSUME NEW d, Schema(d), NEW group, NEW tag
  PROVE  SameTalk(d, ResolveBoth(d, group, tag).db)
<1> DEFINE g == Resolve(d, "groups", group)
<1>1. Schema(g.db) /\ SameTalk(d, g.db)
  BY ResolveKeeps, ResolveSame, TableNames
<1>2. SameTalk(g.db, Resolve(g.db, "tags", tag).db)
  <2> HIDE DEF g
  <2> QED BY <1>1, ResolveSame, TableNames
<1> QED BY <1>1, <1>2 DEF ResolveBoth, SameTalk

LEMMA GroupForSame ==
  ASSUME NEW w, WizardOK(w), NEW kind \in Kinds, NEW label
  PROVE  SameTalk(w.db, groupFor(w, kind, label).db)
<1> DEFINE has == {i \in DOMAIN w.known[kind] : w.known[kind][i].label = label}
           row == [label |-> label]
           id == w.db.seq[kind] + 1
           c == LabelColumn(kind)
           k == [i \in DOMAIN w.known[kind] \union {id} |-> IF i = id THEN row ELSE w.known[kind][i]]
<1>1. c \in {"group", "tag"}
  BY DEF LabelColumn
<1>2. CASE label = ""
  BY <1>2, Zenon DEF groupFor, SameTalk
<1>3. CASE label # "" /\ has # {}
  <2>1. groupFor(w, kind, label) = [w EXCEPT ![c] = CHOOSE i \in has : TRUE]
    BY <1>3 DEF groupFor
  <2> HIDE DEF c, has
  <2>2. groupFor(w, kind, label).db = w.db
    BY <1>1, <2>1
  <2> QED BY <2>2 DEF SameTalk
<1>4. CASE label # "" /\ has = {} /\ Matches(w.db, kind, row) # {}
  <2>1. groupFor(w, kind, label) = [w EXCEPT !.ok = FALSE]
    BY <1>4 DEF groupFor
  <2>2. groupFor(w, kind, label).db = w.db
    BY <2>1
  <2> QED BY <2>2 DEF SameTalk
<1>5. CASE label # "" /\ has = {} /\ Matches(w.db, kind, row) = {}
  <2>1. groupFor(w, kind, label) = [w EXCEPT !.db = Insert(w.db, kind, row), ![c] = id, !.known[kind] = k]
    BY <1>5 DEF groupFor
  <2> HIDE DEF c, id, k, row
  <2>2. groupFor(w, kind, label).db = Insert(w.db, kind, row)
    BY <1>1, <2>1 DEF WizardOK, Wizard
  <2>3. Schema(w.db) /\ kind \notin {"talkgroups", "systems"}
    BY TableNames DEF WizardOK
  <2> QED BY <2>2, <2>3, InsertElsewhere
<1> QED BY <1>2, <1>3, <1>4, <1>5

-----------------------------------------------------------------------------
(* Each step of a request.                                                 *)

LEMMA NextRowMind ==
  ASSUME NEW q, DOMAIN q = Fields, InOrder(q), q.pc \in {"rows", "row"},
         q.pc = "row" => q.ask.op \in TalkgroupImports \union UnitImports, NEW pc \in {"cfg", "silent"}, NEW p,
         p = NextOr(q, pc), NEW d
  PROVE  DOMAIN p = Fields /\ MindOK(p, d) /\ p.ask = q.ask
<1>1. /\ DOMAIN p = Fields /\ p.ask = q.ask /\ p.left = Tail(q.left) /\ p.pc = IF Len(q.left) > 1 THEN "rows" ELSE pc
  BY DEF NextOr, Fields
<1>2. CASE p.pc = pc
  BY <1>1, <1>2, HeedlessOf DEF Heedless
<1>3. CASE p.pc = "rows" /\ Len(q.left) > 1
  <2>1. ASSUME NEW all, PartOf(q.left, all) PROVE PartOf(p.left, all)
    <3> DEFINE S == {all[i] : i \in DOMAIN all}
    <3>1. q.left \in Seq(S) /\ q.left # <<>>
      BY <2>1 DEF PartOf
    <3> HIDE DEF S
    <3>2. Tail(q.left) \in Seq(S) /\ Len(Tail(q.left)) = Len(q.left) - 1 /\ Len(q.left) \in Nat
      BY <3>1
    <3>3. Tail(q.left) # <<>>
      <4>1. Tail(q.left) = <<>> <=> Len(Tail(q.left)) = 0
        BY <3>2, EmptySeq
      <4>2. Len(Tail(q.left)) # 0
        <5>1. Len(q.left) > 1
          BY <1>3
        <5>2. Len(Tail(q.left)) = Len(q.left) - 1 /\ Len(q.left) \in Nat
          BY <3>2
        <5>3. PICK n \in Nat : n = Len(q.left)
          BY <5>2
        <5>4. Len(Tail(q.left)) = n - 1 /\ n > 1
          BY <5>1, <5>2, <5>3
        <5>5. n - 1 # 0
          BY <5>4
        <5> QED BY <5>4, <5>5
      <4> QED BY <4>1, <4>2
    <3> QED BY <1>1, <3>2, <3>3 DEF PartOf, S
  <2>2. InOrder(p)
    <3>1. q.ask.op = "TalkgroupsDelete" /\ q.pc = "rows" => PartOf(q.left, q.ask.ids)
      BY DEF InOrder
    <3>2. q.ask.op = "TalkgroupsDelete" => q.pc = "rows"
      BY DEF TalkgroupImports, UnitImports
    <3>3. p.pc = "rows"
      BY <1>3
    <3>4. q.ask.op \in TalkgroupImports => PartOf(q.left, q.ask.rows)
      BY DEF InOrder
    <3> QED BY <1>1, <2>1, <3>1, <3>2, <3>3, <3>4 DEF InOrder
  <2>3. p.pc = "rows"
    BY <1>3
  <2>4. MindOK(p, d)
    BY <2>2, <2>3, HeedlessOf
  <2> QED BY <1>1, <2>4
<1> QED BY <1>1, <1>2, <1>3

LEMMA AskedBlock ==
  ASSUME NEW a, NEW s, NEW n,
         \/ a.op \in {"SystemsUpdate", "SystemsDelete"} /\ a.id = s
         \/ a.op = "SystemsUnblock" /\ a.id = s /\ a.num = n
  PROVE  AskedToUndo(a, <<"block", s, n>>)
BY DEF AskedToUndo

LEMMA AskedLabel ==
  ASSUME NEW a, NEW g, NEW tg,
         \/ a.op = "TalkgroupsUpdate" /\ a.id = g
         \/ a.op = "TalkgroupsDelete" /\ \E i \in DOMAIN a.ids : a.ids[i] = g
         \/ a.op = "SystemsDelete" /\ a.id = tg.sys
         \/ /\ a.op \in TalkgroupImports /\ a.mode = "overwrite" /\ a.sys = tg.sys
            /\ \E i \in DOMAIN a.rows : a.rows[i].num = tg.num
  PROVE  AskedToUndo(a, LabelFact(g, tg))
<1> DEFINE fact == LabelFact(g, tg)
<1>1. fact[1] = "label" /\ fact[2] = g /\ fact[3] = tg.sys /\ fact[4] = tg.num
  BY FactSays
<1> HIDE DEF fact
<1>2. AskedToUndo(a, fact)
  BY <1>1 DEF AskedToUndo
<1> QED BY <1>2 DEF fact

\* A request that is served, as the invariant has it.
LEMMA Served ==
  ASSUME Inv, Mind, NEW r \in Requests
  PROVE  /\ DOMAIN requests[r] = Fields /\ Schema(db) /\ MindOK(requests[r], db) /\ InOrder(requests[r])
         /\ requests[r].pc # "idle" => WellFormed(requests[r].ask)
BY RequestIs DEF Inv, Mind, MindOK

LEMMA SaveExplains ==
  ASSUME Inv, Mind, NEW r \in Requests, requests[r].pc = "write", NEW t, NEW id, NEW row, Save(r, t, id, row),
         \A fact \in Facts(db) \ Facts(Put(db, t, id, row)) : AskedToUndo(requests[r].ask, fact)
  PROVE  Mind' /\ Explained
<1>1. CASE ~Allowed(db, t, id, row)
  BY <1>1, ReturnExplains DEF Save
<1>2. CASE Allowed(db, t, id, row)
  <2> DEFINE q == requests[r]
             d == Put(db, t, id, row)
             at == <<t, IF id = NoId THEN db.seq[t] + 1 ELSE id>>
             p == [q EXCEPT !.pc = "fetch", !.read = at]
  <2>1. Write(r, d, p)
    BY <1>2 DEF Save
  <2> HIDE DEF at, d
  <2>2. DOMAIN p = Fields /\ p.pc = "fetch"
    BY Served DEF Fields
  <2> HIDE DEF p
  <2>3. MindOK(p, d)
    BY <2>2, HeedlessOf DEF Heedless
  <2>4. \A fact \in Facts(db) \ Facts(d) : AskedToUndo(requests[r].ask, fact) \/ fact \in requests[r].missed
    BY DEF d
  <2> QED BY <2>1, <2>2, <2>3, <2>4, WriteExplains
<1> QED BY <1>1, <1>2

\* Rows that are added, or written in a table without facts.
LEMMA SaveAdds ==
  ASSUME Inv, Mind, NEW r \in Requests, requests[r].pc = "write", NEW t \in IdTables, NEW id, NEW row, Save(r, t, id, row),
         id = NoId \/ t \notin {"talkgroups", "systems"}
  PROVE  Mind' /\ Explained
<1> DEFINE d == Put(db, t, id, row)
<1>1. Schema(db)
  BY DEF Inv
<1>2. NothingLost(db, d)
  <2>1. CASE t \notin {"talkgroups", "systems"}
    BY <1>1, <2>1, PutElsewhere
  <2>2. CASE id = NoId /\ t = "talkgroups"
    <3>1. NoId \notin DOMAIN db.talkgroups
      BY <1>1, SchemaIs, TableNames
    <3> QED BY <1>1, <2>2, <3>1, PutTalkgroup
  <2>3. CASE id = NoId /\ t = "systems"
    <3>1. NoId \notin DOMAIN db.systems
      BY <1>1, SchemaIs, TableNames
    <3>2. /\ d.talkgroups = db.talkgroups
          /\ \A s \in DOMAIN db.systems : s \in DOMAIN d.systems /\ (s # id => d.systems[s] = db.systems[s])
      BY <1>1, <2>3, PutSystem
    <3> HIDE DEF d
    <3>3. \A g \in DOMAIN db.talkgroups : KeepsLabel(db, d, g)
      BY <3>2 DEF KeepsLabel
    <3>4. \A s \in DOMAIN db.systems : KeepsBlocks(db, d, s)
      BY <2>3, <3>1, <3>2 DEF KeepsBlocks
    <3> QED BY <3>3, <3>4 DEF NothingLost
  <2> QED BY <2>1, <2>2, <2>3
<1>3. Facts(db) \ Facts(d) = {}
  BY <1>2, NothingIsLost
<1> QED BY <1>3, SaveExplains

LEMMA SystemsExplain ==
  ASSUME Inv, Mind, NEW r \in Requests, SystemsCreate(r) \/ SystemsUpdate(r) \/ SystemsDelete(r) \/ setBlocked(r)
  PROVE  Mind' /\ Explained
<1> DEFINE q == requests[r]
           a == q.ask
<1>1. DOMAIN q = Fields /\ Schema(db) /\ MindOK(q, db)
  BY Served
<1>2. CASE SystemsCreate(r)
  BY <1>2, SaveAdds, TableNames DEF SystemsCreate, At
<1>3. CASE SystemsUpdate(r)
  <2>1. q.pc = "write" /\ a.op = "SystemsUpdate" /\ Save(r, "systems", a.id, a.row)
    BY <1>3 DEF SystemsUpdate, At
  <2> DEFINE d == Put(db, "systems", a.id, a.row)
  <2>2. /\ d.talkgroups = db.talkgroups
        /\ \A s \in DOMAIN db.systems : s \in DOMAIN d.systems /\ (s # a.id => d.systems[s] = db.systems[s])
    BY <1>1, PutSystem
  <2> HIDE DEF d
  <2>3. \A g \in DOMAIN db.talkgroups : KeepsLabel(db, d, g)
    BY <2>2 DEF KeepsLabel
  <2>4. \A s \in DOMAIN db.systems : s # a.id => KeepsBlocks(db, d, s)
    BY <2>2 DEF KeepsBlocks
  <2>5. ASSUME NEW fact \in Facts(db) \ Facts(d) PROVE AskedToUndo(a, fact)
    <3>1. PICK n : fact = <<"block", a.id, n>>
      BY <2>3, <2>4, BlockLost
    <3> QED BY <2>1, <3>1, AskedBlock
  <2> QED BY <2>1, <2>5, SaveExplains DEF d
<1>4. CASE SystemsDelete(r)
  <2> DEFINE s == a.id
             d == DropSystems(db, {s})
             p == [q EXCEPT !.pc = "cfg"]
  <2>1. q.pc = "write" /\ a.op = "SystemsDelete" /\ (Return(r) \/ Write(r, d, p))
    BY <1>4 DEF SystemsDelete, At
  <2>2. DOMAIN p = Fields /\ p.pc = "cfg"
    BY <1>1 DEF Fields
  <2> HIDE DEF p
  <2>3. ASSUME NEW fact \in Facts(db) \ Facts(d) PROVE AskedToUndo(a, fact)
    <3>1. \/ \E g \in DOMAIN db.talkgroups : db.talkgroups[g].sys = s /\ fact = LabelFact(g, db.talkgroups[g])
          \/ \E n \in db.systems[s].blocked : fact = <<"block", s, n>>
      <4> HIDE DEF s
      <4> QED BY <1>1, DropSystemLoses
    <3> HIDE DEF d
    <3>2. CASE \E n \in db.systems[s].blocked : fact = <<"block", s, n>>
      BY <2>1, <3>2, AskedBlock
    <3>3. CASE \E g \in DOMAIN db.talkgroups : db.talkgroups[g].sys = s /\ fact = LabelFact(g, db.talkgroups[g])
      <4>1. PICK g \in DOMAIN db.talkgroups : db.talkgroups[g].sys = s /\ fact = LabelFact(g, db.talkgroups[g])
        BY <3>3
      <4> QED BY <2>1, <4>1, AskedLabel
    <3> QED BY <3>1, <3>2, <3>3
  <2> HIDE DEF d
  <2>4. MindOK(p, d)
    BY <2>2, HeedlessOf DEF Heedless
  <2> QED BY <2>1, <2>2, <2>3, <2>4, WriteExplains, ReturnExplains
<1>5. CASE setBlocked(r)
  <2> DEFINE s == a.id
             next == IF a.op = "SystemsBlock" THEN q.read \union {a.num} ELSE q.read \ {a.num}
             blocks == [db EXCEPT !.systems[s].blocked = next]
             d == IF Exists("systems", s) THEN blocks ELSE db
  <2>1. q.pc = "write" /\ a.op \in {"SystemsBlock", "SystemsUnblock"} /\ Write(r, d, Idle)
    BY <1>5 DEF setBlocked, AtOneOf, Stop
  <2>2. /\ a.op = "SystemsBlock" => next = q.read \union {a.num}
        /\ a.op = "SystemsUnblock" => next = q.read \ {a.num}
    OBVIOUS
  <2> HIDE DEF next
  <2>3. /\ d.talkgroups = db.talkgroups
        /\ \A x \in DOMAIN db.systems : x \in DOMAIN d.systems /\ (x # s => d.systems[x] = db.systems[x])
        /\ s \in DOMAIN db.systems => d.systems[s].blocked = next
    <3>1. CASE Exists("systems", s)
      <4>1. "systems" \in DOMAIN db /\ "talkgroups" \in DOMAIN db /\ s \in DOMAIN db.systems
        BY <1>1, <3>1, Talk DEF Exists
      <4>2. "blocked" \in DOMAIN db.systems[s]
        BY <1>1, <4>1, SchemaIs, TableNames DEF Columns
      <4> QED BY <3>1, <4>1, <4>2
    <3>2. CASE ~Exists("systems", s)
      BY <3>2 DEF Exists
    <3> QED BY <3>1, <3>2
  <2> HIDE DEF d
  <2>4. \A g \in DOMAIN db.talkgroups : KeepsLabel(db, d, g)
    BY <2>3 DEF KeepsLabel
  <2>5. \A x \in DOMAIN db.systems : x # s => KeepsBlocks(db, d, x)
    BY <2>3 DEF KeepsBlocks
  <2>6. ASSUME NEW fact \in Facts(db) \ Facts(d) PROVE AskedToUndo(a, fact) \/ fact \in q.missed
    <3>1. /\ s \in DOMAIN db.systems
          /\ \E n \in db.systems[s].blocked : fact = <<"block", s, n>> /\ ~KeepsBlocks(db, d, s)
      BY <2>4, <2>5, BlockLost
    <3>2. PICK n \in db.systems[s].blocked : fact = <<"block", s, n>>
      BY <3>1
    <3>3. n \notin next
      <4>1. SUFFICES ASSUME n \in next PROVE FALSE
        OBVIOUS
      <4>2. s \in DOMAIN d.systems /\ n \in d.systems[s].blocked
        BY <2>3, <3>1, <4>1
      <4>3. fact \in Facts(d)
        BY <3>2, <4>2, FactIs
      <4> QED BY <4>3
    <3>4. fact \in q.missed \/ Knows(q, fact)
      BY <1>1 DEF MindOK
    <3>5. CASE Knows(q, fact)
      <4>1. n \in q.read
        BY <2>1, <3>2, <3>5 DEF Knows
      <4>2. a.op = "SystemsUnblock" /\ n = a.num
        BY <2>1, <2>2, <3>3, <4>1
      <4> QED BY <3>2, <4>2, AskedBlock
    <3> QED BY <3>4, <3>5
  <2>7. Idle.pc # q.pc
    BY <2>1, IdleIs
  <2> QED BY <2>1, <2>6, <2>7, IdleMind, WriteExplains
<1> QED BY <1>2, <1>3, <1>4, <1>5

LEMMA TalkgroupsExplain ==
  ASSUME Inv, Mind, NEW r \in Requests, TalkgroupsCreate(r) \/ TalkgroupsUpdate(r) \/ TalkgroupsDelete(r) \/ TalkgroupsBulk(r)
  PROVE  Mind' /\ Explained
<1> DEFINE q == requests[r]
           a == q.ask
           g == Head(q.left)
           p == NextOr(q, "cfg")
<1>1. DOMAIN q = Fields /\ Schema(db) /\ InOrder(q) /\ (q.pc # "idle" => WellFormed(a))
  BY Served
<1>2. CASE TalkgroupsCreate(r)
  BY <1>2, SaveAdds, TableNames DEF TalkgroupsCreate, At
<1>3. CASE TalkgroupsUpdate(r)
  <2> DEFINE row == InItsSystem("talkgroups", a.id, a.row)
             d == Put(db, "talkgroups", a.id, row)
  <2>1. q.pc = "write" /\ a.op = "TalkgroupsUpdate" /\ Save(r, "talkgroups", a.id, row)
    BY <1>3 DEF TalkgroupsUpdate, At
  <2> HIDE DEF row
  <2>2. /\ \A u \in Tables : u # "talkgroups" => d[u] = db[u]
        /\ \A i \in DOMAIN db["talkgroups"] :
             i \in DOMAIN d["talkgroups"] /\ d["talkgroups"][i] = IF i = a.id THEN row ELSE db["talkgroups"][i]
    <3>1. "talkgroups" \in IdTables
      BY TableNames
    <3> QED BY <1>1, <3>1, PutChanges
  <2> HIDE DEF d
  <2>3. d.systems = db.systems /\ \A i \in DOMAIN db.talkgroups : i \notin {a.id} => KeepsLabel(db, d, i)
    BY <2>2, TableNames DEF KeepsLabel
  <2>4. ASSUME NEW fact \in Facts(db) \ Facts(d) PROVE AskedToUndo(a, fact)
    <3>1. PICK i \in {a.id} \intersect DOMAIN db.talkgroups : fact = LabelFact(i, db.talkgroups[i])
      BY <2>3, TalkgroupLost
    <3> QED BY <2>1, <3>1, AskedLabel
  <2> QED BY <2>1, <2>4, SaveExplains DEF d
<1>4. CASE TalkgroupsDelete(r)
  <2> DEFINE d == Drop(db, "talkgroups", {g})
  <2>1. q.pc = "rows" /\ a.op = "TalkgroupsDelete" /\ (Return(r) \/ Write(r, d, p))
    BY <1>4 DEF TalkgroupsDelete, At
  <2>2. PartOf(q.left, a.ids)
    BY <1>1, <2>1 DEF InOrder
  <2>3. (\E i \in DOMAIN a.ids : a.ids[i] = g) /\ p.left # q.left
    <3> DEFINE S == {a.ids[i] : i \in DOMAIN a.ids}
    <3>1. q.left \in Seq(S) /\ q.left # <<>>
      BY <2>2 DEF PartOf
    <3> HIDE DEF S
    <3>2. g \in S /\ Tail(q.left) # q.left
      <4>1. g \in S /\ Len(Tail(q.left)) = Len(q.left) - 1 /\ Len(q.left) \in Nat
        BY <3>1
      <4>2. PICK n \in Nat : n = Len(q.left)
        BY <4>1
      <4>3. Len(Tail(q.left)) = n - 1
        BY <4>1, <4>2
      <4>4. n - 1 # n
        OBVIOUS
      <4> QED BY <4>1, <4>2, <4>3, <4>4
    <3>3. p.left = Tail(q.left)
      BY <1>1 DEF NextOr, Fields
    <3> QED BY <3>2, <3>3 DEF S
  <2>4. ASSUME NEW fact \in Facts(db) \ Facts(d) PROVE AskedToUndo(a, fact)
    <3> HIDE DEF g
    <3>1. PICK i \in {g} \intersect DOMAIN db.talkgroups : fact = LabelFact(i, db.talkgroups[i])
      BY <1>1, DropTalkgroupsLoses
    <3>2. \E k \in DOMAIN a.ids : a.ids[k] = i
      BY <2>3, <3>1
    <3> QED BY <2>1, <3>1, <3>2, AskedLabel
  <2>5. DOMAIN p = Fields /\ MindOK(p, d)
    <3> HIDE DEF d
    <3> QED BY <1>1, <2>1, NextRowMind
  <2> HIDE DEF d, p
  <2> QED BY <2>1, <2>3, <2>4, <2>5, WriteExplains, ReturnExplains
<1>5. CASE TalkgroupsBulk(r)
  <2> DEFINE row == [db.talkgroups[g] EXCEPT !.group = a.group]
             d == IF Exists("talkgroups", g) THEN Put(db, "talkgroups", g, row) ELSE db
  <2>1. q.pc = "rows" /\ (Return(r) \/ Write(r, d, p))
    BY <1>5 DEF TalkgroupsBulk, At
  <2>2. NothingLost(db, d)
    <3>1. CASE Exists("talkgroups", g)
      <4>1. LabelFact(g, row) = LabelFact(g, db.talkgroups[g])
        <5> DEFINE old == db.talkgroups[g]
        <5>1. row.sys = old.sys /\ row.num = old.num /\ row.label = old.label
          <6>1. DOMAIN old = {"sys", "num", "label", "group", "tag"}
            BY <1>1, <3>1, SchemaIs, TableNames DEF Exists, Columns
          <6>2. row = [old EXCEPT !.group = a.group]
            OBVIOUS
          <6> HIDE DEF old, row
          <6> QED BY <6>1, <6>2
        <5> QED BY <5>1, SameLabelFact
      <4> HIDE DEF g, row
      <4> QED BY <1>1, <3>1, <4>1, PutTalkgroup
    <3>2. CASE ~Exists("talkgroups", g)
      BY <3>2, SameTalkLosesNothing DEF SameTalk
    <3> QED BY <3>1, <3>2
  <2> HIDE DEF d
  <2>3. DOMAIN p = Fields /\ MindOK(p, d)
    BY <1>1, <2>1, NextRowMind
  <2> HIDE DEF p
  <2> QED BY <2>1, <2>2, <2>3, WriteAdds, ReturnExplains
<1> QED BY <1>2, <1>3, <1>4, <1>5

LEMMA KindIs ==
  ASSUME NEW a, WellFormed(a), a.op \in {"LabelsCreate", "LabelsUpdate", "LabelsDelete", "LabelsImport", "ImportLabels"}
  PROVE  a.kind \in Kinds /\ a.kind \in IdTables /\ a.kind \notin {"talkgroups", "systems"}
BY TableNames DEF WellFormed

LEMMA LabelsExplain ==
  ASSUME Inv, Mind, NEW r \in Requests, LabelsCreate(r) \/ LabelsUpdate(r) \/ MoveBeforeDelete(r) \/ LabelsDelete(r)
  PROVE  Mind' /\ Explained
<1> DEFINE q == requests[r]
           a == q.ask
<1>1. DOMAIN q = Fields /\ Schema(db) /\ (q.pc # "idle" => WellFormed(a))
  BY Served
<1>2. CASE LabelsCreate(r) \/ LabelsUpdate(r)
  <2> DEFINE row == [label |-> a.label]
  <2>1. /\ q.pc = "write" /\ a.op \in {"LabelsCreate", "LabelsUpdate"}
        /\ Save(r, a.kind, NoId, row) \/ Save(r, a.kind, a.id, row)
    BY <1>2 DEF LabelsCreate, LabelsUpdate, At
  <2> HIDE DEF row
  <2>2. \E t \in IdTables : t = a.kind /\ t \notin {"talkgroups", "systems"}
    <3>1. CASE a.op = "LabelsCreate"
      BY <1>1, <2>1, <3>1, KindIs
    <3>2. CASE a.op = "LabelsUpdate"
      BY <1>1, <2>1, <3>2, KindIs
    <3> QED BY <2>1, <3>1, <3>2
  <2> QED BY <2>1, <2>2, SaveAdds
<1>3. CASE MoveBeforeDelete(r)
  <2> DEFINE d == MoveTalkgroups(db, a.kind, {a.id}, a.to)
             p == [q EXCEPT !.pc = "write"]
  <2>1. q.pc = "move" /\ a.op = "LabelsDelete" /\ (Return(r) \/ Write(r, d, p))
    BY <1>3 DEF MoveBeforeDelete, At
  <2>2. a.kind \in Kinds
    BY <1>1, <2>1 DEF WellFormed
  <2>3. NothingLost(db, d)
    BY <1>1, <2>2, MoveLosesNothing
  <2>4. DOMAIN p = Fields /\ p.pc = "write" /\ p.ask = a
    BY <1>1 DEF Fields
  <2> HIDE DEF p, d
  <2>5. MindOK(p, d)
    BY <2>1, <2>4, HeedlessOf
  <2> QED BY <2>1, <2>3, <2>4, <2>5, WriteAdds, ReturnExplains
<1>4. CASE LabelsDelete(r)
  <2> DEFINE d == Drop(db, a.kind, {a.id})
             p == [q EXCEPT !.pc = "cfg"]
  <2>1. q.pc = "write" /\ a.op = "LabelsDelete" /\ (Return(r) \/ Write(r, d, p))
    BY <1>4 DEF LabelsDelete, At
  <2>2. a.kind \notin {"talkgroups", "systems"}
    BY <1>1, <2>1, KindIs
  <2>3. NothingLost(db, d)
    BY <1>1, <2>2, DropElsewhere
  <2>4. DOMAIN p = Fields /\ p.pc = "cfg"
    BY <1>1 DEF Fields
  <2> HIDE DEF p, d
  <2>5. MindOK(p, d)
    BY <2>4, HeedlessOf DEF Heedless
  <2> QED BY <2>1, <2>3, <2>4, <2>5, WriteAdds, ReturnExplains
<1> QED BY <1>2, <1>3, <1>4

LEMMA UnitsExplain ==
  ASSUME Inv, Mind, NEW r \in Requests, UnitsCreate(r) \/ UnitsUpdate(r) \/ UnitsDelete(r)
  PROVE  Mind' /\ Explained
<1> DEFINE a == requests[r].ask
<1>1. Schema(db)
  BY Served
<1>2. CASE UnitsCreate(r)
  BY <1>2, SaveAdds, TableNames DEF UnitsCreate, At
<1>3. CASE UnitsUpdate(r)
  <2> DEFINE row == InItsSystem("units", a.id, a.row)
  <2>1. requests[r].pc = "write" /\ Save(r, "units", a.id, row)
    BY <1>3 DEF UnitsUpdate, At
  <2> HIDE DEF row
  <2> QED BY <2>1, SaveAdds, TableNames
<1>4. CASE UnitsDelete(r)
  <2> DEFINE d == Drop(db, "units", {a.id})
  <2>1. requests[r].pc = "write" /\ Write(r, d, Idle)
    BY <1>4 DEF UnitsDelete, At, Stop
  <2>2. NothingLost(db, d)
    BY <1>1, DropElsewhere
  <2> HIDE DEF d
  <2> QED BY <2>1, <2>2, IdleMind, WriteAdds
<1> QED BY <1>2, <1>3, <1>4

LEMMA FindRowExplains ==
  ASSUME Inv, Mind, NEW r \in Requests, FindRow(r)
  PROVE  Mind' /\ Explained
<1> DEFINE q == requests[r]
           a == q.ask
           num == Head(q.left).num
           t == IF a.op \in UnitImports THEN "units" ELSE "talkgroups"
           Found(u) == {<<i, db[u][i]>> : i \in Matches(db, u, [sys |-> a.sys, num |-> num])}
           p == [q EXCEPT !.pc = "row", !.found = Found(t)]
<1>1. q.pc = "rows" /\ a.op \in TalkgroupImports \union UnitImports /\ Become(r, p) /\ db' = db
  BY DEF FindRow, AtOneOf
<1>2. DOMAIN q = Fields /\ Schema(db) /\ InOrder(q)
  BY Served
<1>3. a.op \in TalkgroupImports => t = "talkgroups"
  BY DEF TalkgroupImports, UnitImports
<1> HIDE DEF Found, t
<1>4. DOMAIN p = Fields /\ p.pc = "row" /\ p.ask = a /\ p.left = q.left /\ p.found = Found(t) /\ p.missed = q.missed
  BY <1>2 DEF Fields
<1> HIDE DEF p
<1>5. CASE a.op \notin TalkgroupImports
  <2>1. MindOK(p, db)
    BY <1>4, <1>5, HeedlessOf
  <2> QED BY <1>1, <2>1, BecomeExplains
<1>6. CASE a.op \in TalkgroupImports
  <2> DEFINE match == {g \in DOMAIN db.talkgroups : db.talkgroups[g].sys = a.sys /\ db.talkgroups[g].num = num}
  <2>1. p.found = {<<g, db.talkgroups[g]>> : g \in match}
    <3>1. Matches(db, "talkgroups", [sys |-> a.sys, num |-> num]) = match
      <4> HIDE DEF num
      <4> QED BY DEF Matches, UniqueKey, Kinds
    <3> HIDE DEF match
    <3> QED BY <1>3, <1>4, <1>6, <3>1 DEF Found
  <2>2. InOrder(p)
    <3>1. \A f \in p.found : f[2].sys = a.sys /\ f[2].num = num
      BY <2>1
    <3>2. PartOf(p.left, a.rows)
      BY <1>1, <1>2, <1>4, <1>6 DEF InOrder
    <3> QED BY <1>4, <3>1, <3>2 DEF InOrder
  <2>3. ASSUME NEW fact \in Facts(db) PROVE Knows(p, fact)
    <3>1. ASSUME fact[1] = "label" PROVE \E g \in DOMAIN db.talkgroups : fact = LabelFact(g, db.talkgroups[g])
      BY <3>1, FactIs
    <3>2. ASSUME fact[1] = "label", NEW f \in p.found, fact[2] = f[1] PROVE fact = LabelFact(f[1], f[2])
      <4>1. PICK g \in DOMAIN db.talkgroups : fact = LabelFact(g, db.talkgroups[g])
        BY <3>1, <3>2
      <4>2. fact[2] = g
        BY <4>1, FactSays
      <4>3. PICK h \in match : f = <<h, db.talkgroups[h]>>
        BY <2>1
      <4>4. f[1] = h /\ f[2] = db.talkgroups[h]
        BY <4>3
      <4> QED BY <3>2, <4>1, <4>2, <4>4
    <3>3. ASSUME fact[1] = "label", p.found = {}, fact[3] = a.sys, fact[4] = num PROVE FALSE
      <4>1. PICK g \in DOMAIN db.talkgroups : fact = LabelFact(g, db.talkgroups[g])
        BY <3>1, <3>3
      <4>2. fact[3] = db.talkgroups[g].sys /\ fact[4] = db.talkgroups[g].num
        BY <4>1, FactSays
      <4>3. g \in match
        BY <3>3, <4>2
      <4> QED BY <2>1, <3>3, <4>3
    <3> QED BY <1>4, <3>2, <3>3 DEF Knows
  <2>4. MindOK(p, db)
    BY <2>2, <2>3 DEF MindOK
  <2> QED BY <1>1, <2>4, BecomeExplains
<1> QED BY <1>5, <1>6

\* A row in hand is written back: what that loses was missed, or is what the
\* request read.
LEMMA WrittenBack ==
  ASSUME Inv, Mind, NEW r \in Requests, InHand(requests[r]), NEW d, Schema(d), SameTalk(db, d), NEW row,
         NEW fact \in Facts(db) \ Facts(Put(d, "talkgroups", FoundId(requests[r]), row)),
         fact \notin requests[r].missed
  PROVE  LET p == CHOOSE x \in requests[r].found : TRUE IN
         /\ requests[r].found # {} /\ p \in requests[r].found
         /\ fact = LabelFact(p[1], p[2]) /\ Called(p[2]) /\ LabelFact(p[1], row) # fact
<1> DEFINE q == requests[r]
           p == CHOOSE x \in q.found : TRUE
           id == FoundId(q)
           e == Put(d, "talkgroups", id, row)
<1>1. /\ \A u \in Tables : u # "talkgroups" => e[u] = d[u]
      /\ \A i \in DOMAIN d["talkgroups"] : i \in DOMAIN e["talkgroups"] /\ e["talkgroups"][i] = IF i = id THEN row ELSE d["talkgroups"][i]
  <2>1. "talkgroups" \in IdTables
    BY TableNames
  <2> HIDE DEF id
  <2> QED BY <2>1, PutChanges
<1>2. fact \in Facts(d) \ Facts(e)
  BY SameTalkLosesNothing
<1> HIDE DEF e
<1>3. e.systems = d.systems /\ \A g \in DOMAIN d.talkgroups : g \notin {id} => KeepsLabel(d, e, g)
  BY <1>1, TableNames DEF KeepsLabel
<1>4. PICK g \in {id} \intersect DOMAIN d.talkgroups :
        Called(d.talkgroups[g]) /\ fact = LabelFact(g, d.talkgroups[g]) /\ ~KeepsLabel(d, e, g)
  <2> HIDE DEF id
  <2> QED BY <1>2, <1>3, TalkgroupLost
<1>5. q.found # {} /\ p \in q.found /\ g = p[1]
  <2>1. NoId \notin DOMAIN d.talkgroups
    BY SchemaIs, TableNames
  <2> QED BY <1>4, <2>1 DEF FoundId
<1> HIDE DEF p, id
<1>6. fact = LabelFact(p[1], p[2])
  <2>1. MindOK(q, db)
    BY DEF Mind
  <2>2. Knows(q, fact)
    BY <2>1 DEF MindOK
  <2>3. fact[1] = "label" /\ fact[2] = p[1]
    BY <1>4, <1>5, FactSays
  <2> QED BY <1>5, <2>2, <2>3 DEF Knows
<1>7. Called(p[2])
  <2>1. p[2].label = d.talkgroups[g].label
    BY <1>4, <1>5, <1>6, SameLabel
  <2> QED BY <1>4, <2>1, Zenon DEF Called
<1>8. LabelFact(p[1], row) # fact
  <2>1. e.talkgroups[g] = row /\ g \in DOMAIN e.talkgroups
    BY <1>1, <1>4
  <2> QED BY <1>4, <1>5, <2>1 DEF KeepsLabel
<1> QED BY <1>5, <1>6, <1>7, <1>8 DEF p

\* A label that is there stays, unless it is to be overwritten.
LEMMA PickKeeps ==
  ASSUME NEW tg, Called(tg), NEW new, NEW over, ~over
  PROVE  Pick(tg.label, new, "", over) = tg.label
BY Zenon DEF Pick, Called

LEMMA RowAsked ==
  ASSUME Inv, Mind, NEW r \in Requests, requests[r].pc = "row", requests[r].ask.op \in TalkgroupImports
  PROVE  /\ \E i \in DOMAIN requests[r].ask.rows : requests[r].ask.rows[i].num = Head(requests[r].left).num
         /\ \A p \in requests[r].found : p[2].sys = requests[r].ask.sys /\ p[2].num = Head(requests[r].left).num
         /\ requests[r].ask.mode \in {"fill", "overwrite"}
<1> DEFINE q == requests[r]
           S == {q.ask.rows[i] : i \in DOMAIN q.ask.rows}
<1>1. InOrder(q) /\ WellFormed(q.ask)
  BY Served
<1>2. q.left \in Seq(S) /\ q.left # <<>>
  BY <1>1 DEF InOrder, PartOf
<1>3. q.ask.mode \in {"fill", "overwrite"}
  BY <1>1 DEF WellFormed
<1>4. \A p \in requests[r].found : p[2].sys = requests[r].ask.sys /\ p[2].num = Head(requests[r].left).num
  BY <1>1 DEF InOrder
<1> HIDE DEF S
<1>5. Head(q.left) \in S
  BY <1>2
<1> QED BY <1>3, <1>4, <1>5 DEF S

\* The wizard and Radio Reference.
LEMMA ImportLoses ==
  ASSUME Inv, Mind, NEW r \in Requests, requests[r].pc = "row", requests[r].ask.op \in TalkgroupImports,
         NEW new, NEW d, Schema(d), SameTalk(db, d), NEW row,
         LET old == FoundRow(requests[r], new) IN
           /\ row.sys = old.sys /\ row.num = old.num
           /\ requests[r].ask.mode # "overwrite" /\ Called(old) => row.label = old.label,
         NEW fact \in Facts(db) \ Facts(Put(d, "talkgroups", FoundId(requests[r]), row))
  PROVE  AskedToUndo(requests[r].ask, fact) \/ fact \in requests[r].missed
<1> DEFINE q == requests[r]
           p == CHOOSE x \in q.found : TRUE
           old == FoundRow(q, new)
<1> SUFFICES ASSUME fact \notin q.missed PROVE AskedToUndo(q.ask, fact)
  OBVIOUS
<1>1. InHand(q)
  BY DEF InHand
<1>2. q.found # {} /\ p \in q.found /\ fact = LabelFact(p[1], p[2]) /\ Called(p[2]) /\ LabelFact(p[1], row) # fact
  BY <1>1, WrittenBack
<1>3. old = p[2]
  BY <1>2 DEF FoundRow
<1> HIDE DEF p, old
<1>4. row.sys = p[2].sys /\ row.num = p[2].num /\ (q.ask.mode # "overwrite" => row.label = p[2].label)
  BY <1>2, <1>3 DEF old
<1>5. q.ask.mode = "overwrite"
  BY <1>2, <1>4, SameLabelFact
<1>6. /\ \E i \in DOMAIN q.ask.rows : q.ask.rows[i].num = Head(q.left).num
      /\ p[2].sys = q.ask.sys /\ p[2].num = Head(q.left).num
  BY <1>2, RowAsked
<1>7. \E i \in DOMAIN q.ask.rows : q.ask.rows[i].num = p[2].num
  BY <1>6
<1> QED BY <1>2, <1>5, <1>6, <1>7, AskedLabel

\* Writing the row in hand, over tables with some labels more.
LEMMA ImportExplains ==
  ASSUME Inv, Mind, NEW r \in Requests, requests[r].pc = "row", requests[r].ask.op \in TalkgroupImports,
         NEW d, SameTalk(db, d), NEW e, NEW p, DOMAIN p = Fields, MindOK(p, e), p.pc # "row", Write(r, e, p),
         e = d \/ \A fact \in Facts(db) \ Facts(e) : AskedToUndo(requests[r].ask, fact) \/ fact \in requests[r].missed
  PROVE  Mind' /\ Explained
<1>1. requests[r].pc # "idle"
  OBVIOUS
<1>2. CASE e = d
  <2>1. NothingLost(db, d)
    BY SameTalkLosesNothing
  <2> QED BY <1>1, <1>2, <2>1, WriteAdds
<1>3. CASE \A fact \in Facts(db) \ Facts(e) : AskedToUndo(requests[r].ask, fact) \/ fact \in requests[r].missed
  BY <1>1, <1>3, WriteExplains
<1> QED BY <1>2, <1>3

LEMMA RowNext ==
  ASSUME Inv, Mind, NEW r \in Requests, requests[r].pc = "row", requests[r].ask.op \in TalkgroupImports \union UnitImports,
         NEW pc \in {"cfg", "silent"}, NEW e
  PROVE  LET p == NextOr(requests[r], pc) IN DOMAIN p = Fields /\ MindOK(p, e) /\ p.pc # "row"
<1> DEFINE q == requests[r]
           p == NextOr(q, pc)
<1>1. DOMAIN q = Fields /\ InOrder(q)
  BY Served
<1>2. p.pc # "row"
  BY <1>1 DEF NextOr, Fields
<1>3. DOMAIN p = Fields /\ MindOK(p, e)
  BY <1>1, NextRowMind
<1> QED BY <1>2, <1>3

LEMMA TalkgroupsImportExplains ==
  ASSUME Inv, Mind, NEW r \in Requests, TalkgroupsImport(r)
  PROVE  Mind' /\ Explained
<1> DEFINE q == requests[r]
           row == Head(q.left)
           over == q.ask.mode = "overwrite"
           new == NewTalkgroup(q.ask.sys, row.num)
           old == FoundRow(q, new)
           label(x, k) == IF x.ok /\ (over \/ old[LabelColumn(k)] = NoId) THEN groupFor(x, k, row[LabelColumn(k)]) ELSE x
           start == [db |-> db, known |-> q.known, group |-> NoId, tag |-> NoId, ok |-> TRUE]
           w1 == label(start, "groups")
           w == label(w1, "tags")
           name == Pick(old.label, row.label, "", over)
           group == Pick(old.group, w.group, NoId, over)
           tag == Pick(old.tag, w.tag, NoId, over)
           next == [old EXCEPT !.label = name, !.group = group, !.tag = tag]
           same == q.found # {} /\ next = old
           put == Put(w.db, "talkgroups", FoundId(q), next)
           d == IF same THEN w.db ELSE put
           n == NextOr(q, "cfg")
           p == [n EXCEPT !.known = w.known]
<1>1. /\ q.pc = "row" /\ q.ask.op = "TalkgroupsImport"
      /\ Write(r, w.db, Idle) \/ Write(r, d, p)
  BY Zenon DEF TalkgroupsImport, At, Stop
<1>2. DOMAIN q = Fields /\ Schema(db) /\ RequestOK(q) /\ q.ask.op \in TalkgroupImports
  BY <1>1, Served, RequestIs, Zenon DEF TalkgroupImports
<1>3. DOMAIN old = Columns("talkgroups")
  <2>1. RowsOf(q.found, "talkgroups")
    BY <1>1, <1>2, Zenon DEF RequestOK
  <2> QED BY <2>1, FoundRowIs, NewTalkgroupIs
<1>4. WizardOK(start) /\ SameTalk(db, start.db)
  BY <1>2 DEF WizardOK, Wizard, SameTalk
<1>5. (~over /\ Called(old)) => name = old.label
  BY PickKeeps
<1> HIDE DEF start, old, name, group, tag, over
<1>6. ASSUME NEW x, WizardOK(x), SameTalk(db, x.db), NEW k \in Kinds
      PROVE  WizardOK(label(x, k)) /\ SameTalk(db, label(x, k).db)
  BY <1>6, GroupForKeeps, GroupForSame DEF SameTalk
<1>7. WizardOK(w1) /\ SameTalk(db, w1.db)
  <2> HIDE DEF label
  <2> QED BY <1>4, <1>6, TableNames
<1> HIDE DEF w1
<1>8. WizardOK(w) /\ SameTalk(db, w.db)
  <2> HIDE DEF label
  <2> QED BY <1>6, <1>7, TableNames
<1> HIDE DEF w
<1>9. next.sys = old.sys /\ next.num = old.num /\ next.label = name
  BY <1>3, ColumnsOf
<1> HIDE DEF next
<1>10. Schema(w.db)
  BY <1>8 DEF WizardOK
<1>11. ASSUME NEW fact \in Facts(db) \ Facts(put) PROVE AskedToUndo(q.ask, fact) \/ fact \in q.missed
  <2>1. q.ask.mode # "overwrite" /\ Called(old) => next.label = old.label
    BY <1>5, <1>9 DEF over
  <2>2. next.sys = FoundRow(q, new).sys /\ next.num = FoundRow(q, new).num
        /\ (q.ask.mode # "overwrite" /\ Called(FoundRow(q, new)) => next.label = FoundRow(q, new).label)
    BY <1>9, <2>1 DEF old
  <2> HIDE DEF new
  <2> QED BY <1>1, <1>2, <1>8, <1>10, <2>2, ImportLoses
<1>12. CASE Write(r, w.db, Idle)
  <2>1. Idle.pc # "row"
    BY IdleIs
  <2> QED BY <1>1, <1>2, <1>8, <1>12, <2>1, IdleMind, ImportExplains
<1>13. CASE Write(r, d, p)
  <2>1. DOMAIN n = Fields /\ MindOK(n, d) /\ n.pc # "row"
    <3> HIDE DEF d
    <3> QED BY <1>1, <1>2, RowNext
  <2> HIDE DEF n
  <2>2. /\ DOMAIN p = Fields /\ p.pc = n.pc /\ p.ask = n.ask /\ p.left = n.left /\ p.found = n.found /\ p.read = n.read
        /\ p.missed = n.missed
    BY <2>1 DEF Fields
  <2> HIDE DEF p
  <2>3. MindOK(p, d)
    <3> HIDE DEF d
    <3> QED BY <2>1, <2>2, MindOf
  <2>4. d = w.db \/ \A fact \in Facts(db) \ Facts(d) : AskedToUndo(q.ask, fact) \/ fact \in q.missed
    BY <1>11
  <2> HIDE DEF d
  <2> QED BY <1>1, <1>2, <1>8, <1>13, <2>1, <2>2, <2>3, <2>4, ImportExplains
<1> QED BY <1>1, <1>12, <1>13

LEMMA RadioReferenceExplains ==
  ASSUME Inv, Mind, NEW r \in Requests, RadioReferenceApply(r)
  PROVE  Mind' /\ Explained
<1> DEFINE q == requests[r]
           row == Head(q.left)
           new == NewTalkgroup(q.ask.sys, row.num)
           old == FoundRow(q, new)
           offer(f, blank) == IF q.found # {} /\ (q.ask.mode = "overwrite" \/ old[f] = blank) THEN row[f] ELSE ""
           w == ResolveBoth(db, offer("group", NoId), offer("tag", NoId))
           name == Pick(old.label, offer("label", ""), "", TRUE)
           group == Pick(old.group, w.group, NoId, TRUE)
           tag == Pick(old.tag, w.tag, NoId, TRUE)
           next == [old EXCEPT !.label = name, !.group = group, !.tag = tag]
           skip == offer("label", "") = "" /\ w.group = NoId /\ w.tag = NoId
           put == Put(w.db, "talkgroups", FoundId(q), next)
           d == IF skip \/ ~Allowed(w.db, "talkgroups", FoundId(q), next) THEN w.db ELSE put
           p == NextOr(q, "silent")
<1>1. q.pc = "row" /\ q.ask.op = "RadioReferenceApply" /\ Write(r, d, p)
  BY Zenon DEF RadioReferenceApply, At
<1>2. DOMAIN q = Fields /\ Schema(db) /\ RequestOK(q) /\ q.ask.op \in TalkgroupImports
  BY <1>1, Served, RequestIs, Zenon DEF TalkgroupImports
<1>3. DOMAIN old = Columns("talkgroups")
  <2>1. RowsOf(q.found, "talkgroups")
    BY <1>1, <1>2, Zenon DEF RequestOK
  <2> QED BY <2>1, FoundRowIs, NewTalkgroupIs
<1>4. (q.ask.mode # "overwrite" /\ Called(old)) => name = old.label
  <2> SUFFICES ASSUME q.ask.mode # "overwrite", old.label # "" PROVE name = old.label
    BY Zenon DEF Called
  <2>1. offer("label", "") = ""
    BY Zenon
  <2> QED BY <2>1, Zenon DEF Pick
<1> HIDE DEF old
<1>5. Schema(w.db) /\ SameTalk(db, w.db)
  <2> HIDE DEF offer
  <2> QED BY <1>2, ResolveBothKeeps, ResolveBothSame
<1> HIDE DEF name, group, tag, w, offer
<1>6. next.sys = old.sys /\ next.num = old.num /\ next.label = name
  BY <1>3, ColumnsOf
<1> HIDE DEF next, skip
<1>7. ASSUME NEW fact \in Facts(db) \ Facts(put) PROVE AskedToUndo(q.ask, fact) \/ fact \in q.missed
  <2>1. next.sys = FoundRow(q, new).sys /\ next.num = FoundRow(q, new).num
        /\ (q.ask.mode # "overwrite" /\ Called(FoundRow(q, new)) => next.label = FoundRow(q, new).label)
    BY <1>4, <1>6 DEF old
  <2> HIDE DEF new
  <2> QED BY <1>1, <1>2, <1>5, <2>1, ImportLoses
<1>8. d = w.db \/ \A fact \in Facts(db) \ Facts(d) : AskedToUndo(q.ask, fact) \/ fact \in q.missed
  BY <1>7
<1> HIDE DEF d
<1>9. DOMAIN p = Fields /\ MindOK(p, d) /\ p.pc # "row"
  BY <1>1, <1>2, RowNext
<1> HIDE DEF p
<1> QED BY <1>1, <1>2, <1>5, <1>8, <1>9, ImportExplains

LEMMA ImportTalkgroupsExplains ==
  ASSUME Inv, Mind, NEW r \in Requests, ImportTalkgroups(r)
  PROVE  Mind' /\ Explained
<1> DEFINE q == requests[r]
           row == Head(q.left)
           skip == q.found # {} /\ q.ask.mode = "fill"
           w == IF skip THEN [db |-> db, group |-> NoId, tag |-> NoId] ELSE ResolveBoth(db, row.group, row.tag)
           next == [sys |-> q.ask.sys, num |-> row.num, label |-> row.label, group |-> w.group, tag |-> w.tag]
           there == Matches(db, "talkgroups", next)
           id == IF there = {} THEN NoId ELSE IdOf(db, "talkgroups", next)
           put == Put(w.db, "talkgroups", id, next)
           d == IF skip THEN db ELSE put
           p == NextOr(q, "silent")
<1>1. q.pc = "row" /\ q.ask.op = "ImportTalkgroups" /\ (Write(r, w.db, Idle) \/ Write(r, d, p))
  BY Zenon DEF ImportTalkgroups, At, Stop
<1>2. DOMAIN q = Fields /\ Schema(db) /\ MindOK(q, db) /\ q.ask.op \in TalkgroupImports
  BY <1>1, Served, Zenon DEF TalkgroupImports
<1>3. Schema(w.db) /\ SameTalk(db, w.db)
  <2>1. CASE skip
    BY <1>2, <2>1 DEF SameTalk
  <2>2. CASE ~skip
    <3>1. w = ResolveBoth(db, row.group, row.tag)
      BY <2>2
    <3> HIDE DEF w
    <3> QED BY <1>2, <3>1, ResolveBothKeeps, ResolveBothSame
  <2> QED BY <2>1, <2>2
<1> HIDE DEF w
<1>4. next.sys = q.ask.sys /\ next.num = row.num
  OBVIOUS
<1> HIDE DEF next
<1>5. ASSUME NEW g \in DOMAIN db.talkgroups, g = id
      PROVE  db.talkgroups[g].sys = q.ask.sys /\ db.talkgroups[g].num = row.num
  <2>1. NoId \notin DOMAIN db.talkgroups
    BY <1>2, SchemaIs, TableNames
  <2>2. there # {} /\ g = IdOf(db, "talkgroups", next)
    BY <1>5, <2>1
  <2>3. g \in there
    BY <2>2 DEF IdOf
  <2> HIDE DEF row
  <2> QED BY <1>4, <2>3 DEF Matches, UniqueKey, Kinds
<1> HIDE DEF id
<1>6. ASSUME ~skip, NEW fact \in Facts(db) \ Facts(put), fact \notin q.missed PROVE AskedToUndo(q.ask, fact)
  <2>1. /\ \A u \in Tables : u # "talkgroups" => put[u] = w.db[u]
        /\ \A i \in DOMAIN w.db["talkgroups"] :
             i \in DOMAIN put["talkgroups"] /\ put["talkgroups"][i] = IF i = id THEN next ELSE w.db["talkgroups"][i]
    <3>1. "talkgroups" \in IdTables
      BY TableNames
    <3> QED BY <1>3, <3>1, PutChanges
  <2>2. fact \in Facts(w.db) \ Facts(put)
    BY <1>3, <1>6, SameTalkLosesNothing
  <2> HIDE DEF put
  <2>3. put.systems = w.db.systems /\ \A g \in DOMAIN w.db.talkgroups : g \notin {id} => KeepsLabel(w.db, put, g)
    BY <2>1, TableNames DEF KeepsLabel
  <2>4. PICK g \in {id} \intersect DOMAIN w.db.talkgroups : fact = LabelFact(g, w.db.talkgroups[g])
    BY <2>2, <2>3, TalkgroupLost
  <2> DEFINE tg == db.talkgroups[g]
  <2>5. g = id /\ g \in DOMAIN db.talkgroups /\ fact = LabelFact(g, tg)
    BY <1>3, <2>4 DEF SameTalk
  <2>6. tg.sys = q.ask.sys /\ tg.num = row.num
    BY <1>5, <2>5
  <2> HIDE DEF tg
  <2>7. fact[1] = "label" /\ fact[3] = q.ask.sys /\ fact[4] = row.num
    BY <2>5, <2>6, FactSays
  <2>8. Knows(q, fact)
    BY <1>2, <1>6 DEF MindOK
  <2>9. q.found # {}
    BY <1>1, <2>7, <2>8 DEF Knows
  <2>10. q.ask.mode = "overwrite" /\ \E i \in DOMAIN q.ask.rows : q.ask.rows[i].num = tg.num
    BY <1>1, <1>2, <1>6, <2>6, <2>9, RowAsked
  <2> QED BY <1>2, <2>5, <2>6, <2>10, AskedLabel
<1>7. CASE Write(r, w.db, Idle)
  <2>1. Idle.pc # "row"
    BY IdleIs
  <2> QED BY <1>1, <1>2, <1>3, <1>7, <2>1, IdleMind, ImportExplains
<1>8. CASE Write(r, d, p)
  <2>1. \A fact \in Facts(db) \ Facts(d) : AskedToUndo(q.ask, fact) \/ fact \in q.missed
    <3>1. CASE skip
      BY <3>1
    <3>2. CASE ~skip
      <4>1. d = put
        BY <3>2
      <4> HIDE DEF d, put, skip
      <4> QED BY <1>6, <3>2, <4>1
    <3> QED BY <3>1, <3>2
  <2> HIDE DEF d
  <2>2. DOMAIN p = Fields /\ MindOK(p, d) /\ p.pc # "row"
    BY <1>1, <1>2, RowNext
  <2> HIDE DEF p
  <2> QED BY <1>1, <1>2, <1>3, <1>8, <2>1, <2>2, ImportExplains
<1> QED BY <1>1, <1>7, <1>8

LEMMA UnitImportsExplain ==
  ASSUME Inv, Mind, NEW r \in Requests, UnitsImport(r) \/ ImportUnits(r)
  PROVE  Mind' /\ Explained
<1> DEFINE q == requests[r]
           p == NextOr(q, "silent")
<1>1. /\ q.pc = "row" /\ q.ask.op \in UnitImports
      /\ \/ Return(r)
         \/ Write(r, db, p)
         \/ \E id, row : Write(r, Put(db, "units", id, row), p)
  <2>1. CASE UnitsImport(r)
    BY <2>1, Zenon DEF UnitsImport, At, UnitImports
  <2>2. CASE ImportUnits(r)
    BY <2>2, Zenon DEF ImportUnits, At, UnitImports
  <2> QED BY <2>1, <2>2
<1>2. Schema(db)
  BY Served
<1>3. ASSUME NEW d, NothingLost(db, d), Write(r, d, p) PROVE Mind' /\ Explained
  <2>1. DOMAIN p = Fields /\ MindOK(p, d)
    BY <1>1, RowNext
  <2> HIDE DEF p
  <2> QED BY <1>1, <1>3, <2>1, WriteAdds
<1> HIDE DEF p
<1>4. CASE Write(r, db, p)
  BY <1>3, <1>4, SameTalkLosesNothing DEF SameTalk
<1>5. CASE \E id, row : Write(r, Put(db, "units", id, row), p)
  <2>1. PICK id, row : Write(r, Put(db, "units", id, row), p)
    BY <1>5
  <2>2. NothingLost(db, Put(db, "units", id, row))
    BY <1>2, PutElsewhere, TableNames
  <2> QED BY <1>3, <2>1, <2>2
<1> QED BY <1>1, <1>4, <1>5, ReturnExplains

LEMMA LabelImportsExplain ==
  ASSUME Inv, Mind, NEW r \in Requests, labelsImport(r) \/ importLabelOnly(r) \/ EndImport(r)
  PROVE  Mind' /\ Explained
<1> DEFINE q == requests[r]
           row == [label |-> Head(q.left)]
           n == NextOr(q, "silent")
           p == [n EXCEPT !.read = @ \union {Head(q.left)}]
<1>1. DOMAIN q = Fields /\ Schema(db) /\ InOrder(q) /\ (q.pc # "idle" => WellFormed(q.ask))
  BY Served
<1>2. CASE EndImport(r)
  <2>1. q.pc # "idle" /\ Return(r)
    BY <1>2 DEF EndImport
  <2> QED BY <2>1, ReturnExplains
<1>3. CASE labelsImport(r) \/ importLabelOnly(r)
  <2> DEFINE d == Insert(db, q.ask.kind, row)
  <2>1. /\ q.pc = "rows" /\ q.ask.op \in {"LabelsImport", "ImportLabels"}
        /\ Return(r) \/ Write(r, db, p) \/ Write(r, d, p) \/ Write(r, db, n) \/ Write(r, d, n)
    <3>1. CASE labelsImport(r)
      BY <3>1 DEF labelsImport, At
    <3>2. CASE importLabelOnly(r)
      BY <3>2 DEF importLabelOnly, At
    <3> QED BY <1>3, <3>1, <3>2
  <2>2. q.ask.kind \notin {"talkgroups", "systems"}
    BY <1>1, <2>1, KindIs
  <2> HIDE DEF row
  <2>3. NothingLost(db, d)
    BY <1>1, <2>2, InsertElsewhere, SameTalkLosesNothing
  <2>4. NothingLost(db, db)
    BY SameTalkLosesNothing DEF SameTalk
  <2> HIDE DEF d
  <2>5. ASSUME NEW e PROVE DOMAIN n = Fields /\ MindOK(n, e) /\ n.ask = q.ask
    BY <1>1, <2>1, NextRowMind
  <2>6. n.pc \in {"rows", "silent"}
    BY <1>1 DEF NextOr, Fields
  <2> HIDE DEF n
  <2>7. ASSUME NEW e PROVE DOMAIN p = Fields /\ MindOK(p, e)
    <3> DEFINE read == n.read \union {Head(q.left)}
    <3>1. p = [n EXCEPT !.read = read]
      OBVIOUS
    <3> HIDE DEF read, p
    <3>2. DOMAIN p = Fields /\ p.pc = n.pc /\ p.ask = n.ask /\ p.left = n.left
      BY <2>5, <3>1 DEF Fields
    <3>3. InOrder(n)
      BY <2>5 DEF MindOK
    <3>4. InOrder(p)
      BY <2>6, <3>2, <3>3 DEF InOrder
    <3>5. p.pc = "rows" \/ p.pc \in Heedless
      BY <2>6, <3>2 DEF Heedless
    <3> QED BY <3>2, <3>4, <3>5, HeedlessOf
  <2> HIDE DEF p
  <2>8. q.pc # "idle"
    BY <2>1
  <2>9. CASE Return(r)
    BY <2>8, <2>9, ReturnExplains
  <2>10. CASE Write(r, db, p) \/ Write(r, d, p)
    BY <2>3, <2>4, <2>7, <2>8, <2>10, WriteAdds
  <2>11. CASE Write(r, db, n) \/ Write(r, d, n)
    BY <2>3, <2>4, <2>5, <2>8, <2>11, WriteAdds
  <2> QED BY <2>1, <2>9, <2>10, <2>11
<1> QED BY <1>2, <1>3

LEMMA UploadsExplain ==
  ASSUME Inv, Mind, NEW r \in Requests, NewSystem(r) \/ FindTalkgroup(r) \/ ResolveLabels(r) \/ SaveTalkgroup(r)
  PROVE  Mind' /\ Explained
<1> DEFINE q == requests[r]
<1>1. DOMAIN q = Fields /\ Schema(db) /\ MindOK(q, db) /\ RequestOK(q)
  BY Served, RequestIs
<1>2. CASE NewSystem(r)
  <2> DEFINE row == [num |-> q.ask.num, label |-> q.ask.system, auto |-> TRUE, blocked |-> {}]
             read == [sys |-> db.seq.systems + 1, auto |-> TRUE]
             d == Insert(db, "systems", row)
             p == [q EXCEPT !.pc = "cfg", !.after = "find", !.read = read]
  <2>1. q.pc = "newSystem" /\ (Return(r) \/ Write(r, d, p))
    BY <1>2 DEF NewSystem, At
  <2> HIDE DEF row, read
  <2>2. DOMAIN p = Fields /\ p.pc = "cfg"
    BY <1>1 DEF Fields
  <2> HIDE DEF p
  <2>3. MindOK(p, d)
    BY <2>2, HeedlessOf DEF Heedless
  <2>4. d = Put(db, "systems", NoId, row)
    BY DEF Put
  <2> HIDE DEF d
  <2>5. NothingLost(db, d)
    <3>1. NoId \notin DOMAIN db.systems
      BY <1>1, SchemaIs, TableNames
    <3>2. /\ d.talkgroups = db.talkgroups
          /\ \A s \in DOMAIN db.systems : s \in DOMAIN d.systems /\ (s # NoId => d.systems[s] = db.systems[s])
      BY <1>1, <2>4, PutSystem
    <3> QED BY <3>1, <3>2 DEF NothingLost, KeepsLabel, KeepsBlocks
  <2>6. q.pc # "idle"
    BY <2>1
  <2>7. CASE Return(r)
    BY <2>6, <2>7, ReturnExplains
  <2>8. CASE Write(r, d, p)
    BY <2>2, <2>3, <2>5, <2>6, <2>8, WriteAdds
  <2> QED BY <2>1, <2>7, <2>8
<1>3. CASE FindTalkgroup(r)
  <2> DEFINE key == [sys |-> q.read.sys, num |-> q.ask.row.num]
             match == Matches(db, "talkgroups", key)
             found == {<<g, db.talkgroups[g]>> : g \in match}
             p == [q EXCEPT !.pc = "resolve", !.found = found]
  <2>1. q.pc = "find" /\ q.ask.op = "Upload" /\ (Return(r) \/ (Become(r, p) /\ db' = db))
    BY <1>3 DEF FindTalkgroup, At
  <2> HIDE DEF match
  <2>2. \A f \in found : \E h \in match : f[1] = h /\ f[2] = db.talkgroups[h]
    OBVIOUS
  <2> HIDE DEF found
  <2>3. DOMAIN p = Fields /\ p.pc = "resolve" /\ p.ask = q.ask /\ p.found = found
    BY <1>1 DEF Fields
  <2> HIDE DEF p
  <2>4. InOrder(p)
    BY <2>3 DEF InOrder
  <2>5. ASSUME NEW fact \in Facts(db) PROVE Knows(p, fact)
    <3>1. ASSUME fact[1] = "label", NEW f \in found, fact[2] = f[1] PROVE fact = LabelFact(f[1], f[2])
      <4>1. PICK g \in DOMAIN db.talkgroups : fact = LabelFact(g, db.talkgroups[g])
        BY <3>1, FactIs
      <4>2. fact[2] = g
        BY <4>1, FactSays
      <4>3. PICK h \in match : f[1] = h /\ f[2] = db.talkgroups[h]
        BY <2>2
      <4> QED BY <3>1, <4>1, <4>2, <4>3
    <3> QED BY <2>3, <3>1 DEF Knows
  <2>6. MindOK(p, db)
    BY <2>4, <2>5 DEF MindOK
  <2>7. q.pc # "idle"
    BY <2>1
  <2> QED BY <2>1, <2>6, <2>7, ReturnExplains, BecomeExplains
<1>4. CASE ResolveLabels(r)
  <2> DEFINE old == FoundRow(q, NewTalkgroup(q.read.sys, q.ask.row.num))
             group == IF old.group = NoId THEN q.ask.row.group ELSE ""
             tag == IF old.tag = NoId THEN q.ask.row.tag ELSE ""
             w == ResolveBoth(db, group, tag)
             known == <<w.group, w.tag>>
             p == [q EXCEPT !.pc = "save", !.known = known]
  <2>1. q.pc = "resolve" /\ q.ask.op = "Upload" /\ Write(r, w.db, p)
    BY <1>4, Zenon DEF ResolveLabels, At
  <2> HIDE DEF group, tag
  <2>2. SameTalk(db, w.db)
    BY <1>1, ResolveBothSame
  <2> HIDE DEF w, known
  <2>3. DOMAIN p = Fields /\ p.ask = q.ask /\ p.pc = "save" /\ p.found = q.found /\ p.missed = q.missed
    BY <1>1 DEF Fields
  <2> HIDE DEF p
  <2>4. NothingLost(db, w.db) /\ Facts(w.db) = Facts(db)
    BY <2>2, SameTalkLosesNothing
  <2>5. InHand(q)
    BY <2>1 DEF InHand
  <2>6. ASSUME NEW fact, Knows(q, fact) PROVE Knows(p, fact)
    BY <2>1, <2>3, <2>5, <2>6 DEF Knows
  <2>7. InOrder(p)
    BY <2>3 DEF InOrder
  <2>8. MindOK(p, w.db)
    BY <1>1, <2>3, <2>4, <2>6, <2>7 DEF MindOK
  <2>9. q.pc # "idle"
    BY <2>1
  <2> QED BY <2>1, <2>3, <2>4, <2>8, <2>9, WriteAdds
<1>5. CASE SaveTalkgroup(r)
  <2> DEFINE row == Backfilled(q)
             d == Put(db, "talkgroups", FoundId(q), row)
             p == [q EXCEPT !.pc = "cfg", !.after = "done"]
  <2>1. q.pc = "save" /\ q.ask.op = "Upload" /\ (Return(r) \/ Write(r, d, p))
    BY <1>5 DEF SaveTalkgroup, At
  <2>2. DOMAIN p = Fields /\ p.pc = "cfg"
    BY <1>1 DEF Fields
  <2> HIDE DEF p
  <2>3. MindOK(p, d)
    BY <2>2, HeedlessOf DEF Heedless
  <2>4. SameTalk(db, db) /\ InHand(q)
    BY <2>1 DEF SameTalk, InHand
  <2>5. ASSUME NEW fact \in Facts(db) \ Facts(d), fact \notin q.missed PROVE FALSE
    <3> DEFINE f == CHOOSE x \in q.found : TRUE
               old == FoundRow(q, NewTalkgroup(q.read.sys, q.ask.row.num))
    <3> HIDE DEF row
    <3>1. q.found # {} /\ f \in q.found /\ fact = LabelFact(f[1], f[2]) /\ Called(f[2]) /\ LabelFact(f[1], row) # fact
      BY <1>1, <2>4, <2>5, WrittenBack
    <3>2. old = f[2]
      BY <3>1 DEF FoundRow
    <3>3. DOMAIN f[2] = Columns("talkgroups")
      BY <1>1, <2>1, <3>1 DEF RequestOK, RowsOf
    <3>4. row = [old EXCEPT !.label = Pick(@, q.ask.row.label, "", FALSE), !.group = Pick(@, q.known[1], NoId, FALSE),
                            !.tag = Pick(@, q.known[2], NoId, FALSE)]
      BY DEF row, Backfilled
    <3> HIDE DEF f, old
    <3>5. DOMAIN old = {"sys", "num", "label", "group", "tag"}
      BY <3>2, <3>3, ColumnsOf
    <3>6. row.sys = old.sys /\ row.num = old.num /\ row.label = Pick(old.label, q.ask.row.label, "", FALSE)
      BY <3>4, <3>5
    <3>7. row.label = old.label
      BY <3>1, <3>2, <3>6, PickKeeps
    <3> QED BY <3>1, <3>2, <3>6, <3>7, SameLabelFact
  <2> HIDE DEF d
  <2>6. q.pc # "idle" /\ p.pc # q.pc
    BY <2>1, <2>2
  <2>7. CASE Return(r)
    BY <2>6, <2>7, ReturnExplains
  <2>8. CASE Write(r, d, p)
    BY <2>2, <2>3, <2>5, <2>6, <2>8, WriteExplains
  <2> QED BY <2>1, <2>7, <2>8
<1> QED BY <1>2, <1>3, <1>4, <1>5

LEMMA RestoresExplain ==
  ASSUME Inv, Mind, NEW r \in Requests, writePreRestoreSnapshot(r) \/ RestoreBackup(r)
  PROVE  Mind' /\ Explained
<1> DEFINE q == requests[r]
<1>1. DOMAIN q = Fields
  BY Served
<1>2. CASE writePreRestoreSnapshot(r)
  <2> DEFINE p == [q EXCEPT !.pc = "restore"]
  <2>1. Become(r, p) /\ db' = db
    BY <1>2 DEF writePreRestoreSnapshot
  <2>2. p.pc = "restore"
    BY <1>1 DEF Fields
  <2> HIDE DEF p
  <2>3. MindOK(p, db)
    BY <2>2, HeedlessOf DEF Heedless
  <2> QED BY <2>1, <2>3, BecomeExplains
<1>3. CASE RestoreBackup(r)
  <2> DEFINE d == ImportConfig(db, q.read).db
             p == [q EXCEPT !.pc = "cfg"]
  <2>1. q.pc = "restore" /\ q.ask.op \in {"ImportConfig", "Undo"} /\ (Return(r) \/ Write(r, d, p))
    BY <1>3 DEF RestoreBackup, AtOneOf
  <2>2. DOMAIN p = Fields /\ p.pc = "cfg"
    BY <1>1 DEF Fields
  <2> HIDE DEF p, d
  <2>3. MindOK(p, d)
    BY <2>2, HeedlessOf DEF Heedless
  <2>4. \A fact \in Facts(db) \ Facts(d) : AskedToUndo(q.ask, fact)
    BY <2>1 DEF AskedToUndo
  <2>5. q.pc # "idle" /\ p.pc # q.pc
    BY <2>1, <2>2
  <2>6. CASE Return(r)
    BY <2>5, <2>6, ReturnExplains
  <2>7. CASE Write(r, d, p)
    BY <2>2, <2>3, <2>4, <2>5, <2>7, WriteExplains
  <2> QED BY <2>1, <2>6, <2>7
<1> QED BY <1>2, <1>3

LEMMA WholeList ==
  ASSUME NEW S, NEW all \in Seq(S), all # <<>>
  PROVE  PartOf(all, all)
<1> DEFINE T == {all[i] : i \in DOMAIN all}
<1>1. DOMAIN all = 1..Len(all) /\ Len(all) \in Nat /\ all = [i \in 1..Len(all) |-> all[i]]
  OBVIOUS
<1>2. \A i \in 1..Len(all) : all[i] \in T
  BY <1>1
<1> HIDE DEF T
<1>3. all \in Seq(T)
  BY <1>1, <1>2
<1> QED BY <1>3 DEF PartOf, T

\* What a request minds at its start.
LEMMA FirstMind ==
  ASSUME Inv, NEW a \in Asks
  PROVE  MindOK(First(a), db)
<1> DEFINE p == First(a)
<1>1. WellFormed(a)
  BY CatalogAssumption
<1>2. CASE a.op \in {"SystemsBlock", "SystemsUnblock"}
  <2> DEFINE o == Opened(a, "write")
             x == db.systems[a.id].blocked
  <2>1. p = [o EXCEPT !.read = x]
    BY <1>2 DEF First, TalkgroupImports, UnitImports
  <2>2. Fresh(o, a) /\ o.pc = "write"
    BY OpenedIs
  <2> HIDE DEF o, p, x
  <2>3. p.pc = "write" /\ p.ask = a /\ p.read = x
    BY <2>1, <2>2 DEF Fresh, Fields
  <2>4. InOrder(p)
    BY <2>3 DEF InOrder
  <2>5. ~InHand(p)
    BY <2>3 DEF InHand
  <2>6. ASSUME NEW fact \in Facts(db), fact[1] = "block", fact[2] = a.id PROVE fact[3] \in x
    <3>1. CASE \E g \in DOMAIN db.talkgroups : fact = LabelFact(g, db.talkgroups[g])
      BY <2>6, <3>1, FactSays
    <3>2. CASE \E s \in DOMAIN db.systems : \E n \in db.systems[s].blocked : fact = <<"block", s, n>>
      <4>1. PICK s \in DOMAIN db.systems : \E n \in db.systems[s].blocked : fact = <<"block", s, n>>
        BY <3>2
      <4>2. PICK n \in db.systems[s].blocked : fact = <<"block", s, n>>
        BY <4>1
      <4>3. fact[2] = s /\ fact[3] = n
        BY <4>2, FactSays
      <4> QED BY <2>6, <4>3 DEF x
    <3> QED BY <3>1, <3>2, FactIs
  <2>7. \A fact \in Facts(db) : Knows(p, fact)
    BY <2>3, <2>5, <2>6 DEF Knows
  <2> QED BY <2>4, <2>7 DEF MindOK, p
<1>3. CASE a.op \in {"TalkgroupsDelete", "TalkgroupsBulk"} \union TalkgroupImports
  <2> DEFINE o == Opened(a, "rows")
             x == IF a.op \in TalkgroupImports THEN a.rows ELSE a.ids
             y == [k \in Kinds |-> db[k]]
             left == [o EXCEPT !.left = x]
  <2>1. p = left \/ p = [left EXCEPT !.known = y]
    <3>1. CASE a.op \in TalkgroupImports
      <4>1. p = [o EXCEPT !.left = a.rows, !.known = y] /\ x = a.rows
        BY <3>1 DEF First, TalkgroupImports, UnitImports
      <4>2. DOMAIN o = Fields
        BY OpenedIs DEF Fresh
      <4> HIDE DEF o, p, x, y
      <4> QED BY <4>1, <4>2
    <3>2. CASE a.op \notin TalkgroupImports
      BY <1>3, <3>2 DEF First, TalkgroupImports, UnitImports
    <3> QED BY <3>1, <3>2
  <2>2. Fresh(o, a) /\ o.pc = "rows"
    BY OpenedIs
  <2> HIDE DEF o, p, x, y
  <2>3. DOMAIN left = Fields /\ left.pc = "rows" /\ left.ask = a /\ left.left = x
    BY <2>2 DEF Fresh, Fields
  <2> HIDE DEF left
  <2>4. p.pc = "rows" /\ p.ask = a /\ p.left = x
    BY <2>1, <2>3 DEF Fields
  <2>5. ASSUME a.op = "TalkgroupsDelete" PROVE PartOf(x, a.ids)
    <3>1. x = a.ids
      BY <2>5 DEF x, TalkgroupImports
    <3>2. a.ids \in Seq(Int) /\ a.ids # <<>>
      BY <1>1, <2>5 DEF WellFormed
    <3> QED BY <3>1, <3>2, WholeList
  <2>6. ASSUME a.op \in TalkgroupImports PROVE PartOf(x, a.rows)
    <3>1. x = a.rows
      BY <2>6 DEF x
    <3>2. a.rows \in Seq([num : Int, label : STRING, group : STRING, tag : STRING]) /\ a.rows # <<>>
      BY <1>1, <2>6 DEF WellFormed
    <3> QED BY <3>1, <3>2, WholeList
  <2>7. InOrder(p)
    BY <2>4, <2>5, <2>6 DEF InOrder
  <2> QED BY <2>4, <2>7, HeedlessOf DEF p
<1>4. CASE a.op \in {"LabelsImport", "ImportLabels"} \union UnitImports
  <2>1. p.pc = "rows" /\ p.ask = a
    BY <1>4 DEF First, Opened, TalkgroupImports, UnitImports
  <2>2. a.op \notin TalkgroupImports \union {"TalkgroupsDelete"}
    BY <1>4 DEF TalkgroupImports, UnitImports
  <2> HIDE DEF p
  <2>3. InOrder(p)
    BY <2>1, <2>2 DEF InOrder
  <2> QED BY <2>1, <2>3, HeedlessOf DEF p
<1>5. CASE a.op \in {"ImportConfig", "Undo"}
  <2>1. p.pc = "save" /\ p.ask = a /\ a.op # "Upload"
    BY <1>5 DEF First, Opened, TalkgroupImports, UnitImports
  <2> HIDE DEF p
  <2> QED BY <2>1, HeedlessOf DEF p
<1>6. CASE a.op = "Upload"
  <2>1. p.pc \in {"newSystem", "find"}
    BY <1>6 DEF First, Opened, TalkgroupImports, UnitImports
  <2> HIDE DEF p
  <2> QED BY <2>1, HeedlessOf DEF p, Heedless
<1>7. CASE a.op \notin {"SystemsBlock", "SystemsUnblock", "TalkgroupsDelete", "TalkgroupsBulk", "LabelsImport", "ImportLabels",
                        "ImportConfig", "Undo", "Upload"} \union TalkgroupImports \union UnitImports
  <2>1. p.pc \in {"write", "move"} /\ p.ask = a
    BY <1>7 DEF First, Opened, TalkgroupImports, UnitImports
  <2> HIDE DEF p
  <2>2. MindOK(p, db)
    BY <1>7, <2>1, HeedlessOf DEF Heedless
  <2> QED BY <2>2 DEF p
<1> QED BY <1>2, <1>3, <1>4, <1>5, <1>6, <1>7

LEMMA BroadcastsExplain ==
  ASSUME Inv, Mind, NEW r \in Requests, Refetch(r) \/ Build(r) \/ Send(r) \/ BuildScoped(r) \/ Deliver(r) \/ Fail(r)
  PROVE  Mind' /\ Explained
<1> DEFINE q == requests[r]
<1>1. DOMAIN q = Fields /\ q.after \in {"done", "find"}
  BY RequestIs DEF RequestOK
<1>2. ASSUME NEW p, p.pc \in Heedless, Become(r, p), db' = db PROVE Mind' /\ Explained
  BY <1>2, HeedlessOf, BecomeExplains
<1>3. CASE Refetch(r)
  <2> DEFINE p == [q EXCEPT !.pc = "cfg"]
  <2>1. q.pc = "fetch" /\ (Return(r) \/ (Become(r, p) /\ db' = db))
    BY <1>3 DEF Refetch
  <2>2. p.pc = "cfg"
    BY <1>1 DEF Fields
  <2> HIDE DEF p
  <2>3. q.pc # "idle"
    BY <2>1
  <2> QED BY <1>2, <2>1, <2>2, <2>3, ReturnExplains DEF Heedless
<1>4. CASE Build(r)
  <2> DEFINE frames == buildCFGPayload(db, {AllSystems})
             p == [q EXCEPT !.pc = "send", !.frames = frames]
  <2>1. Become(r, p) /\ db' = db
    BY <1>4 DEF Build
  <2> HIDE DEF frames
  <2>2. p.pc = "send"
    BY <1>1 DEF Fields
  <2> HIDE DEF p
  <2> QED BY <1>2, <2>1, <2>2 DEF Heedless
<1>5. CASE Send(r)
  <2> DEFINE found == {l \in Restricted : listeners[l].at = "in"}
             p == [q EXCEPT !.pc = "scoped", !.frames = <<>>, !.found = found]
  <2>1. Become(r, p) /\ db' = db
    BY <1>5 DEF Send
  <2> HIDE DEF found
  <2>2. p.pc = "scoped"
    BY <1>1 DEF Fields
  <2> HIDE DEF p
  <2> QED BY <1>2, <2>1, <2>2 DEF Heedless
<1>6. CASE BuildScoped(r)
  <2> DEFINE frames == [l \in q.found |-> Config(l)]
             p == [q EXCEPT !.pc = "deliver", !.frames = frames]
  <2>1. Become(r, p) /\ db' = db
    BY <1>6 DEF BuildScoped
  <2> HIDE DEF frames
  <2>2. p.pc = "deliver"
    BY <1>1 DEF Fields
  <2> HIDE DEF p
  <2> QED BY <1>2, <2>1, <2>2 DEF Heedless
<1>7. CASE Deliver(r)
  <2> DEFINE on == [q EXCEPT !.pc = q.after, !.frames = <<>>, !.found = {}, !.untold = FALSE]
             p == IF q.after = "done" THEN Idle ELSE on
  <2>1. Become(r, p) /\ db' = db
    BY <1>7 DEF Deliver
  <2>2. on.pc = q.after
    BY <1>1 DEF Fields
  <2> HIDE DEF on
  <2>3. p.pc \in {"idle", "find"}
    BY <1>1, <2>2, IdleIs
  <2> HIDE DEF p
  <2> QED BY <1>2, <2>1, <2>3 DEF Heedless
<1>8. CASE Fail(r)
  BY <1>2, <1>8, IdleIs DEF Fail, Heedless
<1> QED BY <1>3, <1>4, <1>5, <1>6, <1>7, <1>8

LEMMA InitMind == Init => Mind
<1> SUFFICES ASSUME Init PROVE Mind
  OBVIOUS
<1>1. \A r \in Requests : requests[r] = Idle
  BY DEF Init
<1> QED BY <1>1, IdleMind DEF Mind

LEMMA NextExplains ==
  ASSUME Inv, Mind, [Next]_vars
  PROVE  Mind' /\ Explained
<1>1. ASSUME db' = db, requests' = requests PROVE Mind' /\ Explained
  <2>1. \A x \in Requests : MindOK(requests[x], db)
    BY DEF Mind
  <2>2. Mind'
    BY <1>1, <2>1, MindPrimed
  <2> QED BY <1>1, <2>2 DEF Explained
<1>2. CASE UNCHANGED vars
  BY <1>1, <1>2 DEF vars
<1>3. CASE \E l \in Listeners : sendWelcome(l) \/ Register(l)
  BY <1>1, <1>3 DEF sendWelcome, Register
<1>4. CASE HubRun
  BY <1>1, <1>4 DEF HubRun
<1>5. CASE \E r \in Requests, a \in Asks : Begin(r, a)
  <2>1. PICK r \in Requests, a \in Asks : Begin(r, a)
    BY <1>5
  <2>2. Become(r, First(a)) /\ db' = db
    BY <2>1 DEF Begin
  <2> QED BY <2>2, FirstMind, BecomeExplains
<1>6. ASSUME NEW r \in Requests,
             \/ SystemsCreate(r) \/ SystemsUpdate(r) \/ SystemsDelete(r) \/ setBlocked(r)
             \/ TalkgroupsCreate(r) \/ TalkgroupsUpdate(r) \/ TalkgroupsDelete(r) \/ TalkgroupsBulk(r)
             \/ LabelsCreate(r) \/ LabelsUpdate(r) \/ MoveBeforeDelete(r) \/ LabelsDelete(r)
             \/ UnitsCreate(r) \/ UnitsUpdate(r) \/ UnitsDelete(r)
             \/ FindRow(r) \/ TalkgroupsImport(r) \/ RadioReferenceApply(r) \/ ImportTalkgroups(r)
             \/ UnitsImport(r) \/ ImportUnits(r) \/ labelsImport(r) \/ importLabelOnly(r) \/ EndImport(r)
             \/ NewSystem(r) \/ FindTalkgroup(r) \/ ResolveLabels(r) \/ SaveTalkgroup(r)
             \/ writePreRestoreSnapshot(r) \/ RestoreBackup(r)
             \/ Refetch(r) \/ Build(r) \/ Send(r) \/ BuildScoped(r) \/ Deliver(r) \/ Fail(r)
      PROVE  Mind' /\ Explained
  <2>1. CASE SystemsCreate(r) \/ SystemsUpdate(r) \/ SystemsDelete(r) \/ setBlocked(r)
    BY <2>1, SystemsExplain
  <2>2. CASE TalkgroupsCreate(r) \/ TalkgroupsUpdate(r) \/ TalkgroupsDelete(r) \/ TalkgroupsBulk(r)
    BY <2>2, TalkgroupsExplain
  <2>3. CASE LabelsCreate(r) \/ LabelsUpdate(r) \/ MoveBeforeDelete(r) \/ LabelsDelete(r)
    BY <2>3, LabelsExplain
  <2>4. CASE UnitsCreate(r) \/ UnitsUpdate(r) \/ UnitsDelete(r)
    BY <2>4, UnitsExplain
  <2>5. CASE FindRow(r) \/ TalkgroupsImport(r) \/ RadioReferenceApply(r) \/ ImportTalkgroups(r)
    BY <2>5, FindRowExplains, TalkgroupsImportExplains, RadioReferenceExplains, ImportTalkgroupsExplains
  <2>6. CASE UnitsImport(r) \/ ImportUnits(r)
    BY <2>6, UnitImportsExplain
  <2>7. CASE labelsImport(r) \/ importLabelOnly(r) \/ EndImport(r)
    BY <2>7, LabelImportsExplain
  <2>8. CASE NewSystem(r) \/ FindTalkgroup(r) \/ ResolveLabels(r) \/ SaveTalkgroup(r)
    BY <2>8, UploadsExplain
  <2>9. CASE writePreRestoreSnapshot(r) \/ RestoreBackup(r)
    BY <2>9, RestoresExplain
  <2>10. CASE Refetch(r) \/ Build(r) \/ Send(r) \/ BuildScoped(r) \/ Deliver(r) \/ Fail(r)
    BY <2>10, BroadcastsExplain
  <2> QED BY <1>6, <2>1, <2>2, <2>3, <2>4, <2>5, <2>6, <2>7, <2>8, <2>9, <2>10
<1> QED BY <1>2, <1>3, <1>4, <1>5, <1>6 DEF Next

\* A talkgroup's label and a blocked number go only by a request that was
\* asked to change them or that was under way when they were written: uploads,
\* imports and label changes, which write rows whole from what they read a
\* statement earlier, undo nothing that was there when they came
\* (internal/admin, handler/calls).
THEOREM UndoneByOverlapOnly == Spec => OnlyOverlapUndoes
<1>1. Init => Inv /\ Mind
  BY InitKeeps, InitMind
<1>2. Inv /\ Mind /\ [Next]_vars => Inv' /\ Mind'
  BY NextKeeps, NextExplains
<1>3. Inv /\ Mind /\ [Next]_vars =>
        [\A fact \in Facts(db) \ Facts(db') :
           \E r \in Requests : Steps(r) /\ (AskedToUndo(requests[r].ask, fact) \/ fact \in requests[r].missed)]_vars
  BY NextExplains DEF Explained
<1> QED BY <1>1, <1>2, <1>3, PTL DEF Spec, OnlyOverlapUndoes

-----------------------------------------------------------------------------
(* What a restore makes of the tables.                                     *)

\* Two stages of a merge that rewrite the rows of a table alike.
Alike(a, b, t) == t \in {"talkgroups", "units"} => \A u \in {"groups", "tags", "systems"} : a.map[u] = b.map[u]

LEMMA AlikeRewrite ==
  ASSUME NEW a, NEW b, NEW t, Alike(a, b, t), NEW row
  PROVE  Translate(a, t, row) = Translate(b, t, row) /\ (Orphan(a, t, row) <=> Orphan(b, t, row))
<1>1. CASE t = "talkgroups"
  <2>1. \A u \in {"groups", "tags", "systems"} : a.map[u] = b.map[u]
    BY <1>1 DEF Alike
  <2>2. \A u \in {"groups", "tags", "systems"} : \A i : Mapped(a, u, i) = Mapped(b, u, i) /\ (IsMapped(a, u, i) <=> IsMapped(b, u, i))
    BY <2>1 DEF Mapped, IsMapped
  <2> QED BY <1>1, <2>2 DEF Translate, Orphan
<1>2. CASE t = "units"
  <2>1. \A u \in {"groups", "tags", "systems"} : a.map[u] = b.map[u]
    BY <1>2 DEF Alike
  <2>2. \A u \in {"groups", "tags", "systems"} : \A i : Mapped(a, u, i) = Mapped(b, u, i) /\ (IsMapped(a, u, i) <=> IsMapped(b, u, i))
    BY <2>1 DEF Mapped, IsMapped
  <2> QED BY <1>2, <2>2 DEF Translate, Orphan
<1>3. CASE t \notin {"talkgroups", "units"}
  BY <1>3 DEF Translate, Orphan
<1> QED BY <1>1, <1>2, <1>3

\* One row of the file is written, over the row with its key if there is one.
LEMMA RowRestored ==
  ASSUME NEW acc, MergeOK(acc), NEW t \in IdTables, NEW i, NEW row, DOMAIN row = Columns(t), ~Orphan(acc, t, row)
  PROVE  LET out == RestoreRow(acc, t, i, row)
             r == Translate(acc, t, row)
         IN  /\ \A u \in Tables : u # t => out.db[u] = acc.db[u]
             /\ \A u \in IdTables : u # t => out.map[u] = acc.map[u]
             /\ DOMAIN out.map[t] = DOMAIN acc.map[t] \union {i}
             /\ \A j \in DOMAIN acc.map[t] : j # i => out.map[t][j] = acc.map[t][j]
             /\ DOMAIN out.db[t] = DOMAIN acc.db[t] \union {out.map[t][i]}
             /\ out.db[t][out.map[t][i]] = r
             /\ \A k \in DOMAIN acc.db[t] :
                  IF k = out.map[t][i] THEN UniqueKey(t, acc.db[t][k]) = UniqueKey(t, r) ELSE out.db[t][k] = acc.db[t][k]
<1> DEFINE r == Translate(acc, t, row)
           new == Matches(acc.db, t, r) = {}
           old == IdOf(acc.db, t, r)
           d == IF new THEN Insert(acc.db, t, r) ELSE [acc.db EXCEPT ![t][old] = r]
           id == IdOf(d, t, r)
           m == [j \in DOMAIN acc.map[t] \union {i} |-> IF j = i THEN id ELSE acc.map[t][j]]
           n == IF new THEN acc.created + 1 ELSE acc.created
           out == [acc EXCEPT !.db = d, !.map[t] = m, !.created = n]
           full == RestoreRow(acc, t, i, row)
<1>1. full = out
  BY DEF RestoreRow
<1>2. DOMAIN r = Columns(t) /\ References(acc.db, t, r)
  BY Translates
<1>3. Schema(acc.db) /\ Database(acc.db)
  BY SchemaIs DEF MergeOK
<1> HIDE DEF r
<1>4. /\ \A u \in Tables : u # t => d[u] = acc.db[u]
      /\ \E k : /\ DOMAIN d[t] = DOMAIN acc.db[t] \union {k} /\ d[t][k] = r
                /\ \A h \in DOMAIN acc.db[t] : IF h = k THEN UniqueKey(t, acc.db[t][h]) = UniqueKey(t, r) ELSE d[t][h] = acc.db[t][h]
  <2>1. CASE new
    <3> DEFINE e == Insert(acc.db, t, r)
               k == acc.db.seq[t] + 1
    <3>1. /\ \A u \in Tables : u # t => e[u] = acc.db[u]
          /\ k \notin DOMAIN acc.db[t]
          /\ e[t] = [h \in DOMAIN acc.db[t] \union {k} |-> IF h = k THEN r ELSE acc.db[t][h]]
      BY <1>3, Inserts
    <3>2. d = e
      BY <2>1
    <3> HIDE DEF e, k, d
    <3>3. /\ DOMAIN e[t] = DOMAIN acc.db[t] \union {k} /\ e[t][k] = r
          /\ \A h \in DOMAIN acc.db[t] : h # k /\ e[t][h] = acc.db[t][h]
      BY <3>1
    <3> QED BY <3>1, <3>2, <3>3
  <2>2. CASE ~new
    <3>1. old \in DOMAIN acc.db[t] /\ Matches(acc.db, t, r) = {old}
      BY <1>3, <2>2, IdOfMatches
    <3>2. UniqueKey(t, acc.db[t][old]) = UniqueKey(t, r)
      BY <3>1 DEF Matches
    <3> DEFINE e == [acc.db EXCEPT ![t][old] = r]
    <3>3. d = e
      BY <2>2
    <3> HIDE DEF old
    <3>4. /\ \A u \in Tables : u # t => e[u] = acc.db[u]
          /\ DOMAIN e[t] = DOMAIN acc.db[t] /\ \A h \in DOMAIN acc.db[t] : e[t][h] = IF h = old THEN r ELSE acc.db[t][h]
      <4>1. DOMAIN acc.db = Tables \union {"seq"} /\ t \in Tables
        BY <1>3, SchemaIs, TableNames
      <4> QED BY <4>1, Overwrites
    <3> HIDE DEF e, d
    <3> QED BY <3>1, <3>2, <3>3, <3>4
  <2> HIDE DEF d
  <2> QED BY <2>1, <2>2
<1>5. MergeOK(full)
  BY RestoreRowKeeps
<1>6. DOMAIN acc = Work /\ DOMAIN acc.map = IdTables
  BY DEF MergeOK
<1> HIDE DEF d, n
<1>7. id \in DOMAIN d[t] /\ UniqueKey(t, d[t][id]) = UniqueKey(t, r)
  <2>1. Matches(d, t, r) # {}
    BY <1>4 DEF Matches
  <2>2. id \in Matches(d, t, r)
    BY <2>1 DEF IdOf
  <2> QED BY <2>2 DEF Matches
<1> HIDE DEF id, m
<1>8. out.db = d /\ out.map = [acc.map EXCEPT ![t] = m]
  BY <1>6 DEF Work
<1>9. Schema(d)
  BY <1>1, <1>5, <1>8 DEF MergeOK
<1> HIDE DEF out
<1>10. /\ DOMAIN d[t] = DOMAIN acc.db[t] \union {id} /\ d[t][id] = r
       /\ \A h \in DOMAIN acc.db[t] : IF h = id THEN UniqueKey(t, acc.db[t][h]) = UniqueKey(t, r) ELSE d[t][h] = acc.db[t][h]
  <2>1. PICK k : /\ DOMAIN d[t] = DOMAIN acc.db[t] \union {k} /\ d[t][k] = r
                 /\ \A h \in DOMAIN acc.db[t] : IF h = k THEN UniqueKey(t, acc.db[t][h]) = UniqueKey(t, r) ELSE d[t][h] = acc.db[t][h]
    BY <1>4
  <2>2. k \in DOMAIN d[t]
    BY <2>1
  <2>3. k = id
    BY <1>7, <1>9, <2>1, <2>2, SameKey
  <2> QED BY <2>1, <2>3
<1>11. out.map[t] = m /\ \A u \in IdTables : u # t => out.map[u] = acc.map[u]
  BY <1>6, <1>8
<1>12. DOMAIN m = DOMAIN acc.map[t] \union {i} /\ m[i] = id /\ \A j \in DOMAIN acc.map[t] : j # i => m[j] = acc.map[t][j]
  BY DEF m
<1> HIDE DEF full
<1> QED BY <1>1, <1>4, <1>8, <1>10, <1>11, <1>12 DEF r, full

\* The rows of a table of the file up to the n-th are in: each is where the
\* map has it, rewritten, and what was there before is as it was.
RowsIn(a, acc, f, t, n) ==
  /\ MergeOK(a)
  /\ \A u \in Tables : u # t => a.db[u] = acc.db[u]
  /\ \A u \in IdTables : u # t => a.map[u] = acc.map[u]
  /\ DOMAIN a.map[t] = {i \in DOMAIN f.db[t] : i <= n /\ ~Orphan(acc, t, f.db[t][i])}
  /\ \A i \in DOMAIN a.map[t] : a.db[t][a.map[t][i]] = Translate(acc, t, f.db[t][i])
  /\ DOMAIN a.db[t] = DOMAIN acc.db[t] \union Kept(a, t)
  /\ \A k \in DOMAIN acc.db[t] : /\ UniqueKey(t, a.db[t][k]) = UniqueKey(t, acc.db[t][k])
                                 /\ k \notin Kept(a, t) => a.db[t][k] = acc.db[t][k]

\* Rewritten, the rows of the file still differ in their keys.
Distinct(acc, f, t) ==
  \A i, j \in DOMAIN f.db[t] :
    /\ ~Orphan(acc, t, f.db[t][i]) /\ ~Orphan(acc, t, f.db[t][j])
    /\ UniqueKey(t, Translate(acc, t, f.db[t][i])) = UniqueKey(t, Translate(acc, t, f.db[t][j]))
    => i = j

LEMMA SoAlike ==
  ASSUME NEW a, NEW acc, NEW f, NEW t \in IdTables, NEW n, RowsIn(a, acc, f, t, n)
  PROVE  Alike(a, acc, t)
BY TableNames DEF RowsIn, Alike

LEMMA KeptIs ==
  ASSUME NEW a, NEW t, NEW k
  PROVE  k \in Kept(a, t) <=> \E i \in DOMAIN a.map[t] : k = a.map[t][i]
BY DEF Kept

LEMMA RowsInNext ==
  ASSUME NEW acc, NEW f, Database(f.db), NEW t \in IdTables, Distinct(acc, f, t),
         NEW n \in Nat, NEW a, RowsIn(a, acc, f, t, n)
  PROVE  RowsIn(NextRow(a, f, t, n + 1), acc, f, t, n + 1)
<1> DEFINE row == f.db[t][n + 1]
           r == Translate(acc, t, row)
<1>1. Alike(a, acc, t) /\ MergeOK(a)
  BY SoAlike DEF RowsIn
<1>2. \A i \in DOMAIN f.db[t] : i \in Nat
  BY DEF Database
<1>3. CASE n + 1 \notin DOMAIN f.db[t] \/ Orphan(a, t, row)
  <2>1. NextRow(a, f, t, n + 1) = a
    BY <1>3 DEF NextRow
  <2>2. n + 1 \notin DOMAIN f.db[t] \/ Orphan(acc, t, row)
    BY <1>1, <1>3, AlikeRewrite
  <2>3. {i \in DOMAIN f.db[t] : i <= n + 1 /\ ~Orphan(acc, t, f.db[t][i])} = {i \in DOMAIN f.db[t] : i <= n /\ ~Orphan(acc, t, f.db[t][i])}
    <3>1. \A i \in DOMAIN f.db[t] : i <= n + 1 <=> i <= n \/ i = n + 1
      BY <1>2
    <3> QED BY <2>2, <3>1
  <2> QED BY <2>1, <2>3 DEF RowsIn
<1>4. CASE n + 1 \in DOMAIN f.db[t] /\ ~Orphan(a, t, row)
  <2> DEFINE out == RestoreRow(a, t, n + 1, row)
             id == out.map[t][n + 1]
  <2>1. NextRow(a, f, t, n + 1) = out
    BY <1>4 DEF NextRow
  <2>2. DOMAIN row = Columns(t)
    BY <1>4 DEF Database
  <2>3. Translate(a, t, row) = r /\ ~Orphan(acc, t, row)
    BY <1>1, <1>4, AlikeRewrite
  <2> HIDE DEF row
  <2>4. MergeOK(out)
    BY <1>1, <1>4, <2>2, RestoreRowKeeps
  <2>5. /\ \A u \in Tables : u # t => out.db[u] = a.db[u]
        /\ \A u \in IdTables : u # t => out.map[u] = a.map[u]
        /\ DOMAIN out.map[t] = DOMAIN a.map[t] \union {n + 1}
        /\ \A j \in DOMAIN a.map[t] : j # n + 1 => out.map[t][j] = a.map[t][j]
        /\ DOMAIN out.db[t] = DOMAIN a.db[t] \union {id}
        /\ out.db[t][id] = Translate(a, t, row)
        /\ \A k \in DOMAIN a.db[t] :
             IF k = id THEN UniqueKey(t, a.db[t][k]) = UniqueKey(t, Translate(a, t, row)) ELSE out.db[t][k] = a.db[t][k]
    BY <1>1, <1>4, <2>2, RowRestored
  <2> HIDE DEF out
  <2>6. /\ \A u \in Tables : u # t => a.db[u] = acc.db[u]
        /\ \A u \in IdTables : u # t => a.map[u] = acc.map[u]
        /\ DOMAIN a.map[t] = {i \in DOMAIN f.db[t] : i <= n /\ ~Orphan(acc, t, f.db[t][i])}
        /\ \A i \in DOMAIN a.map[t] : a.db[t][a.map[t][i]] = Translate(acc, t, f.db[t][i])
        /\ DOMAIN a.db[t] = DOMAIN acc.db[t] \union Kept(a, t)
        /\ \A k \in DOMAIN acc.db[t] : /\ UniqueKey(t, a.db[t][k]) = UniqueKey(t, acc.db[t][k])
                                       /\ k \notin Kept(a, t) => a.db[t][k] = acc.db[t][k]
    BY DEF RowsIn
  <2>7. n + 1 \notin DOMAIN a.map[t] /\ \A j \in DOMAIN a.map[t] : out.map[t][j] = a.map[t][j]
    BY <2>5, <2>6
  <2>8. \A i \in DOMAIN a.map[t] : a.map[t][i] # id
    <3>1. SUFFICES ASSUME NEW i \in DOMAIN a.map[t], a.map[t][i] = id PROVE FALSE
      OBVIOUS
    <3>2. a.map[t][i] \in DOMAIN a.db[t]
      BY <1>1 DEF MergeOK
    <3>3. UniqueKey(t, a.db[t][id]) = UniqueKey(t, r)
      BY <2>3, <2>5, <3>1, <3>2
    <3>4. UniqueKey(t, Translate(acc, t, f.db[t][i])) = UniqueKey(t, r)
      BY <2>6, <3>1, <3>3
    <3>5. i \in DOMAIN f.db[t] /\ i <= n /\ ~Orphan(acc, t, f.db[t][i])
      BY <2>6
    <3>6. i = n + 1
      BY <1>4, <2>3, <3>4, <3>5 DEF Distinct, row
    <3> QED BY <3>5, <3>6
  <2>9. DOMAIN out.map[t] = {i \in DOMAIN f.db[t] : i <= n + 1 /\ ~Orphan(acc, t, f.db[t][i])}
    <3>1. \A i \in DOMAIN f.db[t] : i <= n + 1 <=> i <= n \/ i = n + 1
      BY <1>2
    <3>2. n + 1 \in DOMAIN f.db[t] /\ ~Orphan(acc, t, f.db[t][n + 1])
      BY <1>4, <2>3 DEF row
    <3> QED BY <2>5, <2>6, <3>1, <3>2
  <2>10. \A i \in DOMAIN out.map[t] : out.db[t][out.map[t][i]] = Translate(acc, t, f.db[t][i])
    <3>1. SUFFICES ASSUME NEW i \in DOMAIN out.map[t] PROVE out.db[t][out.map[t][i]] = Translate(acc, t, f.db[t][i])
      OBVIOUS
    <3>2. CASE i = n + 1
      BY <2>3, <2>5, <3>2 DEF row
    <3>3. CASE i \in DOMAIN a.map[t]
      <4>1. a.map[t][i] \in DOMAIN a.db[t] /\ a.map[t][i] # id
        BY <1>1, <2>8, <3>3 DEF MergeOK
      <4>2. out.db[t][a.map[t][i]] = a.db[t][a.map[t][i]]
        BY <2>5, <4>1
      <4> QED BY <2>6, <2>7, <3>3, <4>2
    <3> QED BY <2>5, <3>2, <3>3
  <2>11. \A k : k \in Kept(out, t) <=> k \in Kept(a, t) \/ k = id
    <3>1. TAKE k
    <3>2. k \in Kept(out, t) <=> \E i \in DOMAIN out.map[t] : k = out.map[t][i]
      BY KeptIs
    <3>3. k \in Kept(a, t) <=> \E i \in DOMAIN a.map[t] : k = a.map[t][i]
      BY KeptIs
    <3> QED BY <2>5, <2>7, <3>2, <3>3
  <2>12. DOMAIN out.db[t] = DOMAIN acc.db[t] \union Kept(out, t)
    BY <2>5, <2>6, <2>11
  <2>13. \A k \in DOMAIN acc.db[t] : /\ UniqueKey(t, out.db[t][k]) = UniqueKey(t, acc.db[t][k])
                                     /\ k \notin Kept(out, t) => out.db[t][k] = acc.db[t][k]
    <3>1. TAKE k \in DOMAIN acc.db[t]
    <3>2. k \in DOMAIN a.db[t]
      BY <2>6
    <3>3. UniqueKey(t, out.db[t][k]) = UniqueKey(t, a.db[t][k])
      <4>1. CASE k = id
        BY <2>5, <3>2, <4>1
      <4>2. CASE k # id
        BY <2>5, <3>2, <4>2
      <4> QED BY <4>1, <4>2
    <3>4. k \notin Kept(out, t) => out.db[t][k] = acc.db[t][k]
      BY <2>5, <2>6, <2>11, <3>2
    <3> QED BY <2>6, <3>3, <3>4
  <2>14. /\ \A u \in Tables : u # t => out.db[u] = acc.db[u]
         /\ \A u \in IdTables : u # t => out.map[u] = acc.map[u]
    BY <2>5, <2>6
  <2> QED BY <2>1, <2>4, <2>9, <2>10, <2>12, <2>13, <2>14 DEF RowsIn
<1> QED BY <1>3, <1>4

LEMMA NoRowsIn ==
  ASSUME NEW acc, MergeOK(acc), NEW f, Database(f.db), NEW t \in IdTables, DOMAIN acc.map[t] = {}, NEW n,
         DOMAIN f.db[t] = {} \/ n = 0
  PROVE  RowsIn(acc, acc, f, t, n)
<1>1. {i \in DOMAIN f.db[t] : i <= n /\ ~Orphan(acc, t, f.db[t][i])} = {}
  <2>1. \A i \in DOMAIN f.db[t] : i \in Nat /\ i >= 1
    BY DEF Database
  <2> QED BY <2>1
<1>2. Kept(acc, t) = {}
  BY KeptIs
<1> QED BY <1>1, <1>2 DEF RowsIn

LEMMA TableRestored ==
  ASSUME NEW acc, MergeOK(acc), NEW f, Database(f.db), NEW t \in IdTables, t \notin f.has => DOMAIN f.db[t] = {},
         DOMAIN acc.map[t] = {}, Distinct(acc, f, t)
  PROVE  RowsIn(RestoreTable(acc, f, t), acc, f, t, f.db.seq[t])
<1>1. CASE t \notin f.has
  <2>1. RestoreTable(acc, f, t) = acc
    BY <1>1 DEF RestoreTable
  <2> QED BY <1>1, <2>1, NoRowsIn
<1>2. CASE t \in f.has
  <2>1. f.db.seq[t] \in Nat
    BY DEF Database
  <2>2. PICK g : /\ g[0] = acc /\ \A n \in 0..f.db.seq[t] : n # 0 => g[n] = NextRow(g[n - 1], f, t, n)
                 /\ RestoreTable(acc, f, t) = g[f.db.seq[t]]
    BY <1>2, <2>1, RestoreTableIs
  <2> DEFINE S == {n \in Nat : n <= f.db.seq[t] => RowsIn(g[n], acc, f, t, n)}
  <2>3. 0 \in S
    BY <2>2, NoRowsIn
  <2>4. ASSUME NEW n \in Nat, n \in S PROVE n + 1 \in S
    <3> SUFFICES ASSUME n + 1 <= f.db.seq[t] PROVE RowsIn(g[n + 1], acc, f, t, n + 1)
      OBVIOUS
    <3>1. n <= f.db.seq[t] /\ n + 1 \in 0..f.db.seq[t] /\ n + 1 # 0 /\ (n + 1) - 1 = n
      BY <2>1
    <3>2. RowsIn(g[n], acc, f, t, n)
      BY <2>4, <3>1
    <3>3. g[n + 1] = NextRow(g[n], f, t, n + 1)
      BY <2>2, <3>1
    <3> QED BY <3>2, <3>3, RowsInNext
  <2>5. \A n \in Nat : n \in S
    <3> HIDE DEF S
    <3> QED BY <2>3, <2>4, Inductive
  <2> QED BY <2>1, <2>2, <2>5
<1> QED BY <1>1, <1>2

\* The systems of the file are in, each as a system of its own.
Apart(a) == \A i, j \in DOMAIN a.map.systems : a.map.systems[i] = a.map.systems[j] => i = j

LEMMA SystemsApart ==
  ASSUME NEW acc, NEW a, NEW f, Backup(f), NEW n, RowsIn(a, acc, f, "systems", n)
  PROVE  Apart(a)
<1>1. SUFFICES ASSUME NEW i \in DOMAIN a.map.systems, NEW j \in DOMAIN a.map.systems, a.map.systems[i] = a.map.systems[j]
               PROVE  i = j
  BY DEF Apart
<1>2. i \in DOMAIN f.db.systems /\ j \in DOMAIN f.db.systems
  BY DEF RowsIn
<1>3. a.db.systems[a.map.systems[i]] = f.db.systems[i] /\ a.db.systems[a.map.systems[j]] = f.db.systems[j]
  BY DEF RowsIn, Translate
<1>4. f.db.systems[i] = f.db.systems[j]
  BY <1>1, <1>3
<1>5. UniqueKey("systems", f.db.systems[i]) = UniqueKey("systems", f.db.systems[j])
  BY <1>4
<1> QED BY <1>2, <1>5, TableNames DEF Backup

LEMMA LabelsDistinct ==
  ASSUME NEW acc, NEW f, Backup(f), NEW t \in IdTables, t \notin {"talkgroups", "units"}
  PROVE  Distinct(acc, f, t)
<1>1. \A row : Translate(acc, t, row) = row
  BY DEF Translate
<1> QED BY <1>1 DEF Distinct, Backup

LEMMA RowsDistinct ==
  ASSUME NEW acc, NEW f, Backup(f), NEW t \in {"talkgroups", "units"}, Apart(acc)
  PROVE  Distinct(acc, f, t)
<1>1. SUFFICES ASSUME NEW i \in DOMAIN f.db[t], NEW j \in DOMAIN f.db[t],
                      ~Orphan(acc, t, f.db[t][i]), ~Orphan(acc, t, f.db[t][j]),
                      UniqueKey(t, Translate(acc, t, f.db[t][i])) = UniqueKey(t, Translate(acc, t, f.db[t][j]))
               PROVE  i = j
  BY DEF Distinct
<1>2. t \in IdTables /\ t \notin Kinds /\ t # "systems"
  BY TableNames
<1>3. \A k \in DOMAIN f.db[t] : DOMAIN f.db[t][k] = Columns(t)
  BY <1>2 DEF Backup, Database
<1>4. \A row : DOMAIN row = Columns(t) => UniqueKey(t, Translate(acc, t, row)) = <<Mapped(acc, "systems", row.sys), row.num>>
  <2>1. SUFFICES ASSUME NEW row, DOMAIN row = Columns(t)
                 PROVE  UniqueKey(t, Translate(acc, t, row)) = <<Mapped(acc, "systems", row.sys), row.num>>
    OBVIOUS
  <2>2. UniqueKey(t, Translate(acc, t, row)) = <<Translate(acc, t, row).sys, Translate(acc, t, row).num>>
    BY <1>2 DEF UniqueKey
  <2>3. Translate(acc, t, row).sys = Mapped(acc, "systems", row.sys) /\ Translate(acc, t, row).num = row.num
    BY <2>1, ColumnsOf DEF Translate
  <2> QED BY <2>2, <2>3
<1> DEFINE p == f.db[t][i]
           q == f.db[t][j]
<1>5. DOMAIN p = Columns(t) /\ DOMAIN q = Columns(t)
  BY <1>3
<1>6. <<Mapped(acc, "systems", p.sys), p.num>> = <<Mapped(acc, "systems", q.sys), q.num>>
  BY <1>1, <1>4, <1>5
<1>7. ~Orphan(acc, t, p) /\ ~Orphan(acc, t, q)
  BY <1>1
<1>8. UniqueKey(t, p) = <<p.sys, p.num>> /\ UniqueKey(t, q) = <<q.sys, q.num>>
  BY <1>2 DEF UniqueKey
<1>9. UniqueKey(t, p) = UniqueKey(t, q) => i = j
  BY <1>2 DEF Backup
<1> HIDE DEF p, q
<1>10. Mapped(acc, "systems", p.sys) = Mapped(acc, "systems", q.sys) /\ p.num = q.num
  BY <1>6
<1>11. p.sys = q.sys
  BY <1>7, <1>10 DEF Apart, Mapped, Orphan, IsMapped
<1> QED BY <1>8, <1>9, <1>10, <1>11

\* The rows of the file are in table t, and what d had of it besides them.
TableIn(a, d, f, t) ==
  /\ DOMAIN a.map[t] = {i \in DOMAIN f.db[t] : ~Orphan(a, t, f.db[t][i])}
  /\ \A i \in DOMAIN a.map[t] : a.db[t][a.map[t][i]] = Translate(a, t, f.db[t][i])
  /\ DOMAIN a.db[t] = DOMAIN d[t] \union Kept(a, t)
  /\ \A k \in DOMAIN d[t] : /\ UniqueKey(t, a.db[t][k]) = UniqueKey(t, d[t][k])
                            /\ k \notin Kept(a, t) => a.db[t][k] = d[t][k]

LEMMA ThenTableIn ==
  ASSUME NEW acc, NEW b, NEW a, NEW d, NEW f, Database(f.db), NEW t \in IdTables,
         RowsIn(b, acc, f, t, f.db.seq[t]), acc.db[t] = d[t], a.db[t] = b.db[t], a.map[t] = b.map[t], Alike(a, acc, t)
  PROVE  TableIn(a, d, f, t)
<1>1. \A i \in DOMAIN f.db[t] : i <= f.db.seq[t]
  BY DEF Database
<1>2. \A row : Translate(a, t, row) = Translate(acc, t, row) /\ (Orphan(a, t, row) <=> Orphan(acc, t, row))
  BY AlikeRewrite
<1>3. Kept(a, t) = Kept(b, t)
  BY DEF Kept
<1>4. DOMAIN a.map[t] = {i \in DOMAIN f.db[t] : ~Orphan(a, t, f.db[t][i])}
  <2>1. DOMAIN b.map[t] = {i \in DOMAIN f.db[t] : i <= f.db.seq[t] /\ ~Orphan(acc, t, f.db[t][i])}
    BY DEF RowsIn
  <2> QED BY <1>1, <1>2, <2>1
<1>5. \A i \in DOMAIN a.map[t] : a.db[t][a.map[t][i]] = Translate(a, t, f.db[t][i])
  <2>1. \A i \in DOMAIN b.map[t] : b.db[t][b.map[t][i]] = Translate(acc, t, f.db[t][i])
    BY DEF RowsIn
  <2> QED BY <1>2, <2>1
<1>6. /\ DOMAIN a.db[t] = DOMAIN d[t] \union Kept(a, t)
      /\ \A k \in DOMAIN d[t] : /\ UniqueKey(t, a.db[t][k]) = UniqueKey(t, d[t][k])
                                /\ k \notin Kept(a, t) => a.db[t][k] = d[t][k]
  BY <1>3 DEF RowsIn
<1> QED BY <1>4, <1>5, <1>6 DEF TableIn

LEMMA TablesMerged ==
  ASSUME NEW d, Schema(d), NEW f, Backup(f), NEW a, NEW b, NEW c, NEW e, NEW g,
         a = RestoreTable(Start(d), f, "groups"), b = RestoreTable(a, f, "tags"), c = RestoreTable(b, f, "systems"),
         e = RestoreTable(c, f, "talkgroups"), g = RestoreTable(e, f, "units")
  PROVE  MergeOK(g) /\ (\A t \in IdTables : TableIn(g, d, f, t)) /\ \A t \in Tables \ IdTables : g.db[t] = d[t]
<1>0. Database(f.db) /\ \A t \in IdTables : t \notin f.has => DOMAIN f.db[t] = {}
  BY TableNames DEF Backup
<1> DEFINE s == Start(d)
<1>1. MergeOK(s)
  BY StartOK
<1>2. s.db = d /\ \A t \in IdTables : DOMAIN s.map[t] = {}
  BY DEF Start
<1> HIDE DEF s
<1>3. RowsIn(a, s, f, "groups", f.db.seq["groups"])
  <2>1. Distinct(s, f, "groups")
    BY LabelsDistinct, TableNames
  <2> QED BY <1>0, <1>1, <1>2, <2>1, TableRestored, TableNames DEF s
<1>4. /\ MergeOK(a) /\ \A u \in Tables : u # "groups" => a.db[u] = s.db[u]
      /\ \A u \in IdTables : u # "groups" => a.map[u] = s.map[u]
  BY <1>3 DEF RowsIn
<1>5. RowsIn(b, a, f, "tags", f.db.seq["tags"])
  <2>1. Distinct(a, f, "tags")
    BY LabelsDistinct, TableNames
  <2>2. DOMAIN a.map["tags"] = {}
    BY <1>2, <1>4, TableNames
  <2> QED BY <1>0, <1>4, <2>1, <2>2, TableRestored, TableNames
<1>6. /\ MergeOK(b) /\ \A u \in Tables : u # "tags" => b.db[u] = a.db[u]
      /\ \A u \in IdTables : u # "tags" => b.map[u] = a.map[u]
  BY <1>5 DEF RowsIn
<1>7. RowsIn(c, b, f, "systems", f.db.seq["systems"])
  <2>1. Distinct(b, f, "systems")
    BY LabelsDistinct, TableNames
  <2>2. DOMAIN b.map["systems"] = {}
    BY <1>2, <1>4, <1>6, TableNames
  <2> QED BY <1>0, <1>6, <2>1, <2>2, TableRestored, TableNames
<1>8. /\ MergeOK(c) /\ \A u \in Tables : u # "systems" => c.db[u] = b.db[u]
      /\ \A u \in IdTables : u # "systems" => c.map[u] = b.map[u]
  BY <1>7 DEF RowsIn
<1>9. Apart(c)
  BY <1>7, SystemsApart
<1>10. RowsIn(e, c, f, "talkgroups", f.db.seq["talkgroups"])
  <2>1. Distinct(c, f, "talkgroups")
    BY <1>9, RowsDistinct
  <2>2. DOMAIN c.map["talkgroups"] = {}
    BY <1>2, <1>4, <1>6, <1>8, TableNames
  <2> QED BY <1>0, <1>8, <2>1, <2>2, TableRestored, TableNames
<1>11. /\ MergeOK(e) /\ \A u \in Tables : u # "talkgroups" => e.db[u] = c.db[u]
       /\ \A u \in IdTables : u # "talkgroups" => e.map[u] = c.map[u]
  BY <1>10 DEF RowsIn
<1>12. RowsIn(g, e, f, "units", f.db.seq["units"])
  <2>1. Distinct(e, f, "units")
    <3>1. e.map["systems"] = c.map["systems"]
      BY <1>11, TableNames
    <3>2. Apart(e)
      BY <1>9, <3>1 DEF Apart
    <3> QED BY <3>2, RowsDistinct
  <2>2. DOMAIN e.map["units"] = {}
    BY <1>2, <1>4, <1>6, <1>8, <1>11, TableNames
  <2> QED BY <1>0, <1>11, <2>1, <2>2, TableRestored, TableNames
<1>13. /\ MergeOK(g) /\ \A u \in Tables : u # "units" => g.db[u] = e.db[u]
       /\ \A u \in IdTables : u # "units" => g.map[u] = e.map[u]
  BY <1>12 DEF RowsIn
<1>14. TableIn(g, d, f, "groups")
  <2>1. Alike(g, s, "groups") /\ s.db["groups"] = d["groups"] /\ g.db["groups"] = a.db["groups"] /\ g.map["groups"] = a.map["groups"]
    BY <1>2, <1>6, <1>8, <1>11, <1>13, TableNames DEF Alike
  <2> QED BY <1>0, <1>3, <2>1, ThenTableIn, TableNames
<1>15. TableIn(g, d, f, "tags")
  <2>1. Alike(g, a, "tags") /\ a.db["tags"] = d["tags"] /\ g.db["tags"] = b.db["tags"] /\ g.map["tags"] = b.map["tags"]
    BY <1>2, <1>4, <1>8, <1>11, <1>13, TableNames DEF Alike
  <2> QED BY <1>0, <1>5, <2>1, ThenTableIn, TableNames
<1>16. TableIn(g, d, f, "systems")
  <2>1. Alike(g, b, "systems") /\ b.db["systems"] = d["systems"] /\ g.db["systems"] = c.db["systems"] /\ g.map["systems"] = c.map["systems"]
    BY <1>2, <1>4, <1>6, <1>11, <1>13, TableNames DEF Alike
  <2> QED BY <1>0, <1>7, <2>1, ThenTableIn, TableNames
<1>17. TableIn(g, d, f, "talkgroups")
  <2>1. c.db["talkgroups"] = d["talkgroups"] /\ g.db["talkgroups"] = e.db["talkgroups"] /\ g.map["talkgroups"] = e.map["talkgroups"]
    BY <1>2, <1>4, <1>6, <1>8, <1>13, TableNames
  <2>2. Alike(g, c, "talkgroups")
    BY <1>11, <1>13, TableNames DEF Alike
  <2> QED BY <1>0, <1>10, <2>1, <2>2, ThenTableIn, TableNames
<1>18. TableIn(g, d, f, "units")
  <2>1. e.db["units"] = d["units"]
    BY <1>2, <1>4, <1>6, <1>8, <1>11, TableNames
  <2>2. Alike(g, e, "units")
    BY <1>13, TableNames DEF Alike
  <2> QED BY <1>0, <1>12, <2>1, <2>2, ThenTableIn, TableNames
<1>19. \A t \in Tables \ IdTables : g.db[t] = d[t]
  BY <1>2, <1>4, <1>6, <1>8, <1>11, <1>13, TableNames
<1> QED BY <1>13, <1>14, <1>15, <1>16, <1>17, <1>18, <1>19, TableNames

\* Keys and monitors of the file, with their references rewritten.
NamedIn(a, f) ==
  /\ \A t \in {"keys", "monitors"} : t \in f.has => DOMAIN f.db[t] \subseteq DOMAIN a.db[t]
  /\ "keys" \in f.has => \A n \in DOMAIN f.db.keys : a.db.keys[n] = RemapGrants(a, f.db.keys[n])
  /\ "monitors" \in f.has => \A n \in DOMAIN f.db.monitors :
       /\ a.db.monitors[n].sys = Mapped(a, "systems", f.db.monitors[n].sys)
       /\ a.db.monitors[n].tg = Mapped(a, "talkgroups", f.db.monitors[n].tg)

\* A user of the file, with tables d before.
UserRow(d, f, n) ==
  IF n \in f.spared \intersect DOMAIN d["users"] THEN d["users"][n] ELSE f.db["users"][n]

LEMMA NamedRestored ==
  ASSUME NEW acc, MergeOK(acc), NEW f, Database(f.db), NEW t \in Tables \ IdTables
  PROVE  LET out == RestoreNamed(acc, f, t)
         IN  /\ MergeOK(out) /\ out.map = acc.map /\ \A u \in Tables : u # t => out.db[u] = acc.db[u]
             /\ t \notin f.has => out = acc
             /\ t \in f.has => DOMAIN out.db[t] = DOMAIN acc.db[t] \union DOMAIN f.db[t]
             /\ t \in f.has => \A n \in DOMAIN acc.db[t] : n \notin DOMAIN f.db[t] => out.db[t][n] = acc.db[t][n]
             /\ t \in f.has /\ t = "users" => \A n \in DOMAIN f.db[t] : out.db[t][n] = UserRow(acc.db, f, n)
             /\ t \in f.has /\ t = "keys" => \A n \in DOMAIN f.db[t] : out.db[t][n] = RemapGrants(acc, f.db[t][n])
             /\ t \in f.has /\ t = "monitors" => \A n \in DOMAIN f.db[t] :
                  /\ out.db[t][n].sys = Mapped(acc, "systems", f.db[t][n].sys)
                  /\ out.db[t][n].tg = Mapped(acc, "talkgroups", f.db[t][n].tg)
<1> DEFINE full == RestoreNamed(acc, f, t)
<1>1. MergeOK(full)
  BY RestoreNamedKeeps
<1>2. CASE t \notin f.has
  BY <1>1, <1>2 DEF RestoreNamed
<1>3. CASE t \in f.has
  <2> DEFINE row(n) == LET r == f.db[t][n]
                       IN  CASE t = "keys" -> RemapGrants(acc, r)
                             [] t = "users" -> IF n \in f.spared \intersect DOMAIN acc.db[t] THEN acc.db[t][n] ELSE r
                             [] OTHER -> [sys |-> Mapped(acc, "systems", r.sys),
                                          tg |-> Mapped(acc, "talkgroups", r.tg)]
             names == DOMAIN f.db[t]
             table == [n \in DOMAIN acc.db[t] \union names |-> IF n \in names THEN row(n) ELSE acc.db[t][n]]
             d == [acc.db EXCEPT ![t] = table]
             count == acc.created + Cardinality(names \ DOMAIN acc.db[t])
             out == [acc EXCEPT !.db[t] = table, !.created = count]
  <2>1. full = out
    BY <1>3 DEF RestoreNamed
  <2>2. DOMAIN acc = Work /\ DOMAIN acc.db = Tables \union {"seq"} /\ t \in Tables
    BY SchemaIs DEF MergeOK
  <2>3. \A n \in names : table[n] = row(n)
    <3> HIDE DEF row
    <3> QED OBVIOUS
  <2>4. t = "keys" => \A n : row(n) = RemapGrants(acc, f.db[t][n])
    OBVIOUS
  <2>5. t = "monitors" => \A n : /\ row(n).sys = Mapped(acc, "systems", f.db[t][n].sys)
                                 /\ row(n).tg = Mapped(acc, "talkgroups", f.db[t][n].tg)
    OBVIOUS
  <2>6. /\ DOMAIN table = DOMAIN acc.db[t] \union names
        /\ \A n \in DOMAIN acc.db[t] : n \notin names => table[n] = acc.db[t][n]
    <3> HIDE DEF row
    <3> QED OBVIOUS
  <2>7. t = "users" => \A n : row(n) = UserRow(acc.db, f, n)
    BY DEF UserRow
  <2> HIDE DEF row, table
  <2>8. d[t] = table /\ \A u \in Tables : u # t => d[u] = acc.db[u]
    BY <2>2
  <2> HIDE DEF count
  <2>9. out.db = d /\ out.map = acc.map
    BY <2>2 DEF Work
  <2> HIDE DEF d, out, full
  <2> QED BY <1>1, <1>3, <2>1, <2>3, <2>4, <2>5, <2>6, <2>8, <2>9, <2>7 DEF full
<1> QED BY <1>2, <1>3

\* The whole merge.
UsersIn(a, d, f) ==
  /\ \A n \in DOMAIN f.db["users"] : a.db["users"][n] = UserRow(d, f, n)
  /\ \A n \in DOMAIN d["users"] : n \notin DOMAIN f.db["users"] => a.db["users"][n] = d["users"][n]
Merged(a, d, f) ==
  /\ MergeOK(a) /\ \A t \in IdTables : TableIn(a, d, f, t)
  /\ NamedIn(a, f) /\ UsersIn(a, d, f)
  /\ \A t \in Tables \ IdTables : DOMAIN a.db[t] = DOMAIN d[t] \union DOMAIN f.db[t]

LEMMA SameMap ==
  ASSUME NEW a, NEW b, a.map = b.map
  PROVE  /\ \A t, i : Mapped(a, t, i) = Mapped(b, t, i) /\ (IsMapped(a, t, i) <=> IsMapped(b, t, i))
         /\ \A t : Kept(a, t) = Kept(b, t)
         /\ \A t, row : Translate(a, t, row) = Translate(b, t, row) /\ (Orphan(a, t, row) <=> Orphan(b, t, row))
         /\ \A grants : RemapGrants(a, grants) = RemapGrants(b, grants)
<1>1. \A t, i : Mapped(a, t, i) = Mapped(b, t, i) /\ (IsMapped(a, t, i) <=> IsMapped(b, t, i))
  BY DEF Mapped, IsMapped
<1>2. \A t : Kept(a, t) = Kept(b, t)
  BY DEF Kept
<1>3. \A t : Alike(a, b, t)
  BY DEF Alike
<1>4. \A t, row : Translate(a, t, row) = Translate(b, t, row) /\ (Orphan(a, t, row) <=> Orphan(b, t, row))
  BY <1>3, AlikeRewrite
<1>5. \A grants : RemapGrants(a, grants) = RemapGrants(b, grants)
  BY DEF RemapGrants
<1> QED BY <1>1, <1>2, <1>4, <1>5

LEMMA FileMerged ==
  ASSUME NEW d, Schema(d), NEW f, Backup(f)
  PROVE  Merged(Merge(d, f), d, f)
<1> DEFINE a == RestoreTable(Start(d), f, "groups")
           b == RestoreTable(a, f, "tags")
           c == RestoreTable(b, f, "systems")
           e == RestoreTable(c, f, "talkgroups")
           g == RestoreTable(e, f, "units")
           h == RestoreNamed(g, f, "users")
           i == RestoreNamed(h, f, "keys")
           j == RestoreNamed(i, f, "monitors")
<1>1. Merge(d, f) = j
  BY DEF Merge
<1>2. MergeOK(g) /\ (\A t \in IdTables : TableIn(g, d, f, t)) /\ \A t \in Tables \ IdTables : g.db[t] = d[t]
  BY TablesMerged
<1> HIDE DEF g
<1>3. Database(f.db) /\ \A t \in Tables : t \in f.has \/ DOMAIN f.db[t] = {}
  BY DEF Backup
<1>4. /\ MergeOK(h) /\ h.map = g.map /\ \A u \in Tables : u # "users" => h.db[u] = g.db[u]
      /\ "users" \notin f.has => h = g
      /\ "users" \in f.has => DOMAIN h.db["users"] = DOMAIN g.db["users"] \union DOMAIN f.db["users"]
      /\ "users" \in f.has => \A n \in DOMAIN g.db["users"] : n \notin DOMAIN f.db["users"] => h.db["users"][n] = g.db["users"][n]
      /\ "users" \in f.has => \A n \in DOMAIN f.db["users"] : h.db["users"][n] = UserRow(g.db, f, n)
  <2>1. "users" \in Tables \ IdTables
    BY TableNames
  <2> QED BY <1>3, <1>2, <2>1, NamedRestored
<1> HIDE DEF h
<1>5. /\ MergeOK(i) /\ i.map = h.map /\ \A u \in Tables : u # "keys" => i.db[u] = h.db[u]
      /\ "keys" \notin f.has => i = h
      /\ "keys" \in f.has => DOMAIN i.db["keys"] = DOMAIN h.db["keys"] \union DOMAIN f.db["keys"]
      /\ "keys" \in f.has => \A n \in DOMAIN f.db["keys"] : i.db["keys"][n] = RemapGrants(h, f.db["keys"][n])
  <2>1. "keys" \in Tables \ IdTables
    BY TableNames
  <2> QED BY <1>3, <1>4, <2>1, NamedRestored
<1> HIDE DEF i
<1>6. /\ MergeOK(j) /\ j.map = i.map /\ \A u \in Tables : u # "monitors" => j.db[u] = i.db[u]
      /\ "monitors" \notin f.has => j = i
      /\ "monitors" \in f.has => DOMAIN j.db["monitors"] = DOMAIN i.db["monitors"] \union DOMAIN f.db["monitors"]
      /\ "monitors" \in f.has => \A n \in DOMAIN f.db["monitors"] :
                  /\ j.db["monitors"][n].sys = Mapped(i, "systems", f.db["monitors"][n].sys)
                  /\ j.db["monitors"][n].tg = Mapped(i, "talkgroups", f.db["monitors"][n].tg)
  <2>1. "monitors" \in Tables \ IdTables
    BY TableNames
  <2> QED BY <1>3, <1>5, <2>1, NamedRestored
<1> HIDE DEF j
<1>7. \A t \in IdTables : TableIn(j, d, f, t)
  <2>1. TAKE t \in IdTables
  <2>2. t \in Tables /\ t # "users" /\ t # "keys" /\ t # "monitors"
    BY TableNames
  <2>3. j.db[t] = g.db[t] /\ j.map = g.map
    BY <1>4, <1>5, <1>6, <2>2
  <2>4. TableIn(g, d, f, t)
    BY <1>2
  <2>5. Kept(j, t) = Kept(g, t) /\ \A row : Translate(j, t, row) = Translate(g, t, row) /\ (Orphan(j, t, row) <=> Orphan(g, t, row))
    BY <2>3, SameMap
  <2> QED BY <2>3, <2>4, <2>5 DEF TableIn
<1>8. \A t \in Tables \ IdTables : DOMAIN j.db[t] = DOMAIN d[t] \union DOMAIN f.db[t]
  <2>1. /\ h.db["keys"] = d["keys"] /\ i.db["monitors"] = d["monitors"] /\ j.db["keys"] = i.db["keys"]
        /\ g.db["users"] = d["users"] /\ j.db["users"] = h.db["users"]
    BY <1>2, <1>4, <1>5, <1>6, TableNames
  <2>2. DOMAIN j.db["keys"] = DOMAIN d["keys"] \union DOMAIN f.db["keys"]
    <3>1. "keys" \in f.has \/ (DOMAIN f.db["keys"] = {} /\ i = h)
      BY <1>3, <1>5, TableNames
    <3> QED BY <1>5, <2>1, <3>1
  <2>3. DOMAIN j.db["monitors"] = DOMAIN d["monitors"] \union DOMAIN f.db["monitors"]
    <3>1. "monitors" \in f.has \/ (DOMAIN f.db["monitors"] = {} /\ j = i)
      BY <1>3, <1>6, TableNames
    <3> QED BY <1>6, <2>1, <3>1
  <2>4. DOMAIN j.db["users"] = DOMAIN d["users"] \union DOMAIN f.db["users"]
    <3>1. "users" \in f.has \/ (DOMAIN f.db["users"] = {} /\ h = g)
      BY <1>3, <1>4, TableNames
    <3> QED BY <1>4, <2>1, <3>1
  <2> QED BY <2>2, <2>3, <2>4, TableNames
<1>9. UsersIn(j, d, f)
  <2>1. g.db["users"] = d["users"] /\ j.db["users"] = h.db["users"]
    BY <1>2, <1>5, <1>6, TableNames
  <2>2. "users" \in f.has \/ (DOMAIN f.db["users"] = {} /\ h = g)
    BY <1>3, <1>4, TableNames
  <2> QED BY <1>4, <2>1, <2>2 DEF UsersIn, UserRow
<1>10. NamedIn(j, f)
  <2>1. j.db["keys"] = i.db["keys"] /\ \A grants : RemapGrants(j, grants) = RemapGrants(h, grants)
    BY <1>5, <1>6, SameMap, TableNames
  <2>2. \A t, k : Mapped(j, t, k) = Mapped(i, t, k)
    BY <1>6, SameMap
  <2>3. "keys" \in f.has => \A n \in DOMAIN f.db.keys : j.db.keys[n] = RemapGrants(j, f.db.keys[n])
    BY <1>5, <2>1
  <2>4. "monitors" \in f.has => \A n \in DOMAIN f.db.monitors :
       /\ j.db.monitors[n].sys = Mapped(j, "systems", f.db.monitors[n].sys)
       /\ j.db.monitors[n].tg = Mapped(j, "talkgroups", f.db.monitors[n].tg)
    BY <1>6, <2>2
  <2>5. \A t \in {"keys", "monitors"} : DOMAIN f.db[t] \subseteq DOMAIN j.db[t]
    BY <1>8, TableNames
  <2> QED BY <2>3, <2>4, <2>5 DEF NamedIn
<1> QED BY <1>1, <1>6, <1>7, <1>8, <1>10, <1>9 DEF Merged

-----------------------------------------------------------------------------
(* Counting rows.                                                          *)

Together(n) ==
  n["groups"] + n["tags"] + n["systems"] + n["talkgroups"] + n["units"] + n["users"] + n["keys"] + n["monitors"]

\* How many rows tables d have that tables e have not.
Rows(d, e) == [t \in Tables |-> Cardinality(DOMAIN d[t] \ DOMAIN e[t])]
Beyond(d, e) == Together(Rows(d, e))

Finite(d) == \A t \in Tables : IsFiniteSet(DOMAIN d[t])
Within(d, e) == \A t \in Tables : DOMAIN d[t] \subseteq DOMAIN e[t]

LEMMA SchemaFinite ==
  ASSUME NEW d, Schema(d)
  PROVE  Finite(d)
<1>1. ASSUME NEW t \in IdTables PROVE IsFiniteSet(DOMAIN d[t])
  <2>1. d.seq[t] \in Nat /\ DOMAIN d[t] \subseteq 1..d.seq[t]
    BY SchemaIs
  <2>2. IsFiniteSet(1..d.seq[t])
    BY <2>1, FS_Interval
  <2> QED BY <2>1, <2>2, FS_Subset
<1>2. \A t \in Tables \ IdTables : IsFiniteSet(DOMAIN d[t])
  BY SchemaIs
<1> QED BY <1>1, <1>2 DEF Finite

LEMMA FewerFinite ==
  ASSUME NEW d, NEW e, Finite(d), Within(e, d)
  PROVE  Finite(e)
<1>1. SUFFICES ASSUME NEW t \in Tables PROVE IsFiniteSet(DOMAIN e[t])
  BY DEF Finite
<1>2. IsFiniteSet(DOMAIN d[t]) /\ DOMAIN e[t] \subseteq DOMAIN d[t]
  BY DEF Finite, Within
<1> QED BY <1>2, FS_Subset

LEMMA CountOf ==
  ASSUME NEW S, IsFiniteSet(S), NEW T
  PROVE  IsFiniteSet(S \ T) /\ Cardinality(S \ T) \in Nat
BY FS_Difference, FS_CardinalityType

LEMMA RowsAre ==
  ASSUME NEW d, NEW e, Finite(d)
  PROVE  /\ DOMAIN Rows(d, e) = Tables
         /\ \A t \in Tables : Rows(d, e)[t] = Cardinality(DOMAIN d[t] \ DOMAIN e[t]) /\ Rows(d, e)[t] \in Nat
<1>1. \A t \in Tables : Rows(d, e)[t] = Cardinality(DOMAIN d[t] \ DOMAIN e[t])
  BY DEF Rows
<1>2. \A t \in Tables : Cardinality(DOMAIN d[t] \ DOMAIN e[t]) \in Nat
  BY CountOf DEF Finite
<1>3. DOMAIN Rows(d, e) = Tables
  BY DEF Rows
<1> QED BY <1>1, <1>2, <1>3

LEMMA Adds ==
  ASSUME NEW n, NEW k, NEW j, \A t \in Tables : n[t] \in Nat /\ k[t] \in Nat /\ j[t] = n[t] + k[t]
  PROVE  Together(j) = Together(n) + Together(k) /\ Together(n) \in Nat
<1>1. \A t \in {"groups", "tags", "systems", "talkgroups", "units", "users", "keys", "monitors"} :
        n[t] \in Nat /\ k[t] \in Nat /\ j[t] = n[t] + k[t]
  BY TableNames
<1> QED BY <1>1 DEF Together

LEMMA Alone ==
  ASSUME NEW n, NEW t \in Tables, n[t] \in Nat, \A u \in Tables : u # t => n[u] = 0
  PROVE  Together(n) = n[t]
<1>1. \A u \in {"groups", "tags", "systems", "talkgroups", "units", "users", "keys", "monitors"} : u # t => n[u] = 0
  BY TableNames
<1> QED BY <1>1, TableNames DEF Together

LEMMA BeyondIn ==
  ASSUME NEW d, NEW e, Finite(d), NEW t \in Tables, \A u \in Tables : u # t => DOMAIN d[u] \subseteq DOMAIN e[u]
  PROVE  Beyond(d, e) = Cardinality(DOMAIN d[t] \ DOMAIN e[t])
<1>1. \A u \in Tables : u # t => Rows(d, e)[u] = 0
  <2>1. TAKE u \in Tables
  <2>2. u # t => DOMAIN d[u] \ DOMAIN e[u] = {}
    OBVIOUS
  <2> QED BY <2>2, RowsAre, FS_EmptySet
<1>2. Rows(d, e)[t] \in Nat /\ Rows(d, e)[t] = Cardinality(DOMAIN d[t] \ DOMAIN e[t])
  BY RowsAre
<1>3. Together(Rows(d, e)) = Rows(d, e)[t]
  BY <1>1, <1>2, Alone
<1> QED BY <1>2, <1>3 DEF Beyond

LEMMA BeyondNone ==
  ASSUME NEW d, NEW e, Finite(d), Within(d, e)
  PROVE  Beyond(d, e) = 0
<1>1. Beyond(d, e) = Cardinality(DOMAIN d["groups"] \ DOMAIN e["groups"])
  BY BeyondIn, TableNames DEF Within
<1>2. DOMAIN d["groups"] \ DOMAIN e["groups"] = {}
  BY TableNames DEF Within
<1> QED BY <1>1, <1>2, FS_EmptySet

LEMMA BeyondThen ==
  ASSUME NEW d, NEW e, NEW g, Finite(d), Within(g, e), Within(e, d)
  PROVE  Beyond(d, g) = Beyond(d, e) + Beyond(e, g) /\ Beyond(d, e) \in Nat /\ Beyond(e, g) \in Nat
<1>1. Finite(e)
  BY FewerFinite
<1>2. ASSUME NEW t \in Tables PROVE Rows(d, g)[t] = Rows(d, e)[t] + Rows(e, g)[t]
  <2> DEFINE A == DOMAIN d[t]
             B == DOMAIN e[t]
             C == DOMAIN g[t]
  <2>1. C \subseteq B /\ B \subseteq A /\ IsFiniteSet(A) /\ IsFiniteSet(B)
    BY <1>1 DEF Within, Finite
  <2>2. Rows(d, g)[t] = Cardinality(A \ C) /\ Rows(d, e)[t] = Cardinality(A \ B) /\ Rows(e, g)[t] = Cardinality(B \ C)
    BY <1>1, RowsAre
  <2> HIDE DEF A, B, C
  <2>3. A \ C = (A \ B) \union (B \ C) /\ (A \ B) \intersect (B \ C) = {}
    BY <2>1
  <2>4. IsFiniteSet(A \ B) /\ IsFiniteSet(B \ C) /\ Cardinality(A \ B) \in Nat /\ Cardinality(B \ C) \in Nat
    BY <2>1, CountOf
  <2>5. Cardinality((A \ B) \union (B \ C)) = Cardinality(A \ B) + Cardinality(B \ C) - Cardinality((A \ B) \intersect (B \ C))
    BY <2>4, FS_Union
  <2>6. Cardinality((A \ B) \intersect (B \ C)) = 0
    BY <2>3, FS_EmptySet
  <2>7. Cardinality(A \ C) = Cardinality((A \ B) \union (B \ C))
    BY <2>3
  <2>8. Cardinality(A \ C) = Cardinality(A \ B) + Cardinality(B \ C)
    BY <2>4, <2>5, <2>6, <2>7
  <2> QED BY <2>2, <2>8
<1>3. \A t \in Tables : Rows(d, e)[t] \in Nat /\ Rows(e, g)[t] \in Nat
  BY <1>1, RowsAre
<1>4. Together(Rows(d, g)) = Together(Rows(d, e)) + Together(Rows(e, g)) /\ Together(Rows(d, e)) \in Nat
  BY <1>2, <1>3, Adds
<1>5. Together(Rows(e, g)) \in Nat
  <2> DEFINE z == [t \in Tables |-> Rows(e, g)[t] + 0]
  <2>1. \A t \in Tables : z[t] = Rows(e, g)[t] + Rows(g, g)[t] /\ Rows(g, g)[t] \in Nat
    <3>1. Finite(g)
      BY <1>1, FewerFinite
    <3>2. \A t \in Tables : Rows(g, g)[t] = 0
      <4>1. TAKE t \in Tables
      <4>2. DOMAIN g[t] \ DOMAIN g[t] = {}
        OBVIOUS
      <4> QED BY <3>1, <4>2, RowsAre, FS_EmptySet
    <3> QED BY <3>2
  <2> HIDE DEF z
  <2> QED BY <1>3, <2>1, Adds
<1> QED BY <1>4, <1>5 DEF Beyond

\* A merge that has come from tables d to acc has added as many rows as it says.
Grown(d, acc) ==
  /\ MergeOK(acc) /\ Within(d, acc.db) /\ acc.created = Beyond(acc.db, d) /\ acc.removed = 0

LEMMA GrownThen ==
  ASSUME NEW d, NEW acc, Grown(d, acc), NEW out, MergeOK(out), Within(acc.db, out.db), out.removed = acc.removed,
         out.created = acc.created + Beyond(out.db, acc.db)
  PROVE  Grown(d, out)
<1>1. Finite(out.db)
  BY SchemaFinite DEF MergeOK
<1>2. Beyond(out.db, d) = Beyond(out.db, acc.db) + Beyond(acc.db, d) /\ Beyond(out.db, acc.db) \in Nat /\ Beyond(acc.db, d) \in Nat
  BY <1>1, BeyondThen DEF Grown
<1>3. Within(d, out.db)
  BY DEF Grown, Within
<1> QED BY <1>2, <1>3 DEF Grown

LEMMA RowGrows ==
  ASSUME NEW d, NEW acc, Grown(d, acc), NEW t \in IdTables, NEW i, NEW row, DOMAIN row = Columns(t), ~Orphan(acc, t, row)
  PROVE  Grown(d, RestoreRow(acc, t, i, row))
<1> DEFINE r == Translate(acc, t, row)
           new == Matches(acc.db, t, r) = {}
           old == IdOf(acc.db, t, r)
           e == IF new THEN Insert(acc.db, t, r) ELSE [acc.db EXCEPT ![t][old] = r]
           m == [j \in DOMAIN acc.map[t] \union {i} |-> IF j = i THEN IdOf(e, t, r) ELSE acc.map[t][j]]
           n == IF new THEN acc.created + 1 ELSE acc.created
           out == [acc EXCEPT !.db = e, !.map[t] = m, !.created = n]
           full == RestoreRow(acc, t, i, row)
<1>1. full = out
  BY DEF RestoreRow
<1>2. MergeOK(acc) /\ DOMAIN acc = Work /\ Schema(acc.db) /\ Database(acc.db) /\ acc.created \in Nat /\ t \in Tables
  <2>1. Schema(acc.db) /\ Finite(acc.db) /\ Within(d, acc.db) /\ Within(d, d)
    BY SchemaFinite DEF Grown, MergeOK, Within
  <2>2. acc.created \in Nat
    BY <2>1, BeyondThen DEF Grown
  <2> QED BY <2>1, <2>2, SchemaIs, TableNames DEF Grown, MergeOK
<1>3. MergeOK(full)
  BY <1>2, RestoreRowKeeps
<1> HIDE DEF r
<1>4. /\ Within(acc.db, e) /\ n = acc.created + Cardinality(DOMAIN e[t] \ DOMAIN acc.db[t])
      /\ \A u \in Tables : u # t => DOMAIN e[u] \subseteq DOMAIN acc.db[u]
  <2>1. CASE new
    <3> DEFINE b == Insert(acc.db, t, r)
               k == acc.db.seq[t] + 1
    <3>1. /\ \A u \in Tables : u # t => b[u] = acc.db[u]
          /\ k \notin DOMAIN acc.db[t]
          /\ b[t] = [h \in DOMAIN acc.db[t] \union {k} |-> IF h = k THEN r ELSE acc.db[t][h]]
      BY <1>2, Inserts
    <3>2. e = b /\ n = acc.created + 1
      BY <2>1
    <3> HIDE DEF b, k, e, n
    <3>3. DOMAIN e[t] = DOMAIN acc.db[t] \union {k} /\ DOMAIN e[t] \ DOMAIN acc.db[t] = {k}
      BY <3>1, <3>2
    <3>4. Cardinality({k}) = 1
      BY FS_Singleton
    <3> QED BY <3>1, <3>2, <3>3, <3>4 DEF Within
  <2>2. CASE ~new
    <3>1. DOMAIN acc.db = Tables \union {"seq"}
      BY <1>2, SchemaIs
    <3> DEFINE b == [acc.db EXCEPT ![t][old] = r]
    <3>2. e = b /\ n = acc.created
      BY <2>2
    <3> HIDE DEF old
    <3>3. /\ \A u \in Tables : u # t => b[u] = acc.db[u]
          /\ DOMAIN b[t] = DOMAIN acc.db[t]
      BY <1>2, <3>1, Overwrites
    <3> HIDE DEF b, e, n
    <3>4. DOMAIN e[t] \ DOMAIN acc.db[t] = {}
      BY <3>2, <3>3
    <3>5. Cardinality(DOMAIN e[t] \ DOMAIN acc.db[t]) = 0
      BY <3>4, FS_EmptySet
    <3> QED BY <1>2, <3>2, <3>3, <3>5 DEF Within
  <2> QED BY <2>1, <2>2
<1> HIDE DEF e, n, m
<1>5. out.db = e /\ out.created = n /\ out.removed = acc.removed
  BY <1>2 DEF Work
<1> HIDE DEF out
<1>6. Finite(e)
  BY <1>1, <1>3, <1>5, SchemaFinite DEF MergeOK
<1>7. Beyond(e, acc.db) = Cardinality(DOMAIN e[t] \ DOMAIN acc.db[t])
  BY <1>2, <1>4, <1>6, BeyondIn
<1> HIDE DEF full
<1>8. Grown(d, full)
  BY <1>1, <1>3, <1>4, <1>5, <1>7, GrownThen
<1> QED BY <1>8 DEF full

LEMMA TableGrows ==
  ASSUME NEW d, NEW acc, Grown(d, acc), NEW f, Database(f.db), NEW t \in IdTables
  PROVE  Grown(d, RestoreTable(acc, f, t))
<1>1. CASE t \notin f.has
  BY <1>1 DEF RestoreTable
<1>2. CASE t \in f.has
  <2>1. f.db.seq[t] \in Nat
    BY DEF Database
  <2>2. PICK g : /\ g[0] = acc /\ \A n \in 0..f.db.seq[t] : n # 0 => g[n] = NextRow(g[n - 1], f, t, n)
                 /\ RestoreTable(acc, f, t) = g[f.db.seq[t]]
    BY <1>2, <2>1, RestoreTableIs
  <2> DEFINE S == {n \in Nat : n <= f.db.seq[t] => Grown(d, g[n])}
  <2>3. 0 \in S
    BY <2>2
  <2>4. ASSUME NEW n \in Nat, n \in S PROVE n + 1 \in S
    <3> SUFFICES ASSUME n + 1 <= f.db.seq[t] PROVE Grown(d, g[n + 1])
      OBVIOUS
    <3>1. n <= f.db.seq[t] /\ n + 1 \in 0..f.db.seq[t] /\ n + 1 # 0 /\ (n + 1) - 1 = n
      BY <2>1
    <3>2. Grown(d, g[n])
      BY <2>4, <3>1
    <3>3. g[n + 1] = NextRow(g[n], f, t, n + 1)
      BY <2>2, <3>1
    <3>4. CASE n + 1 \notin DOMAIN f.db[t] \/ Orphan(g[n], t, f.db[t][n + 1])
      BY <3>2, <3>3, <3>4 DEF NextRow
    <3>5. CASE n + 1 \in DOMAIN f.db[t] /\ ~Orphan(g[n], t, f.db[t][n + 1])
      <4>1. g[n + 1] = RestoreRow(g[n], t, n + 1, f.db[t][n + 1])
        BY <3>3, <3>5 DEF NextRow
      <4>2. DOMAIN f.db[t][n + 1] = Columns(t)
        BY <3>5 DEF Database
      <4> QED BY <3>2, <3>5, <4>1, <4>2, RowGrows
    <3> QED BY <3>4, <3>5
  <2>5. \A n \in Nat : n \in S
    <3> HIDE DEF S
    <3> QED BY <2>3, <2>4, Inductive
  <2> QED BY <2>1, <2>2, <2>5
<1> QED BY <1>1, <1>2

LEMMA NamedGrows ==
  ASSUME NEW d, NEW acc, Grown(d, acc), NEW f, Database(f.db), NEW t \in Tables \ IdTables
  PROVE  Grown(d, RestoreNamed(acc, f, t))
<1> DEFINE out == RestoreNamed(acc, f, t)
<1>1. CASE t \notin f.has
  BY <1>1 DEF RestoreNamed
<1>2. CASE t \in f.has
  <2>1. MergeOK(acc) /\ DOMAIN acc = Work
    BY DEF Grown, MergeOK
  <2>2. MergeOK(out) /\ (\A u \in Tables : u # t => out.db[u] = acc.db[u]) /\ DOMAIN out.db[t] = DOMAIN acc.db[t] \union DOMAIN f.db[t]
    BY <1>2, <2>1, NamedRestored
  <2>3. out.created = acc.created + Cardinality(DOMAIN f.db[t] \ DOMAIN acc.db[t]) /\ out.removed = acc.removed
    <3> DEFINE row(n) == LET r == f.db[t][n]
                         IN  CASE t = "keys" -> RemapGrants(acc, r)
                               [] t = "users" -> IF n \in f.spared \intersect DOMAIN acc.db[t] THEN acc.db[t][n] ELSE r
                               [] OTHER -> [sys |-> Mapped(acc, "systems", r.sys),
                                            tg |-> Mapped(acc, "talkgroups", r.tg)]
               names == DOMAIN f.db[t]
               table == [n \in DOMAIN acc.db[t] \union names |-> IF n \in names THEN row(n) ELSE acc.db[t][n]]
               count == acc.created + Cardinality(names \ DOMAIN acc.db[t])
    <3>1. out = [acc EXCEPT !.db[t] = table, !.created = count]
      BY <1>2 DEF RestoreNamed
    <3> HIDE DEF table, count, out
    <3>2. out.created = count /\ out.removed = acc.removed
      BY <2>1, <3>1 DEF Work
    <3> QED BY <3>2 DEF count
  <2> HIDE DEF out
  <2>4. DOMAIN out.db[t] \ DOMAIN acc.db[t] = DOMAIN f.db[t] \ DOMAIN acc.db[t] /\ Within(acc.db, out.db)
    BY <2>2 DEF Within
  <2>5. Finite(out.db)
    BY <2>2, SchemaFinite DEF MergeOK
  <2>6. Beyond(out.db, acc.db) = Cardinality(DOMAIN out.db[t] \ DOMAIN acc.db[t])
    BY <2>2, <2>5, BeyondIn
  <2>7. Grown(d, out)
    BY <2>2, <2>3, <2>4, <2>6, GrownThen
  <2> QED BY <2>7 DEF out
<1> QED BY <1>1, <1>2

LEMMA MergeGrows ==
  ASSUME NEW d, Schema(d), NEW f, Database(f.db)
  PROVE  Grown(d, Merge(d, f))
<1> DEFINE s == Start(d)
           a == RestoreTable(s, f, "groups")
           b == RestoreTable(a, f, "tags")
           c == RestoreTable(b, f, "systems")
           e == RestoreTable(c, f, "talkgroups")
           g == RestoreTable(e, f, "units")
           h == RestoreNamed(g, f, "users")
           i == RestoreNamed(h, f, "keys")
           j == RestoreNamed(i, f, "monitors")
<1>1. Merge(d, f) = j
  BY DEF Merge
<1>2. Grown(d, s)
  <2>1. MergeOK(s)
    BY StartOK
  <2>2. s.db = d /\ s.created = 0 /\ s.removed = 0
    BY DEF Start
  <2>3. Finite(d) /\ Within(d, d)
    BY SchemaFinite DEF Within
  <2> HIDE DEF s
  <2> QED BY <2>1, <2>2, <2>3, BeyondNone DEF Grown
<1> HIDE DEF s
<1>3. Grown(d, a)
  BY <1>2, TableGrows, TableNames
<1> HIDE DEF a
<1>4. Grown(d, b)
  BY <1>3, TableGrows, TableNames
<1> HIDE DEF b
<1>5. Grown(d, c)
  BY <1>4, TableGrows, TableNames
<1> HIDE DEF c
<1>6. Grown(d, e)
  BY <1>5, TableGrows, TableNames
<1> HIDE DEF e
<1>7. Grown(d, g)
  BY <1>6, TableGrows, TableNames
<1> HIDE DEF g
<1>8. Grown(d, h)
  BY <1>7, NamedGrows, TableNames
<1> HIDE DEF h
<1>9. Grown(d, i)
  BY <1>8, NamedGrows, TableNames
<1> HIDE DEF i
<1>10. Grown(d, j)
  BY <1>9, NamedGrows, TableNames
<1> QED BY <1>1, <1>10

-----------------------------------------------------------------------------
(* What a replacement takes away: from tables d to tables e, none of the   *)
(* rows that the merge of the file put there or found.                     *)

\* The names a replacement leaves in a table.
Staying(f, t) == DOMAIN f.db[t] \union (IF t = "users" THEN f.spared ELSE {})

Less(a, d, e, f) ==
  /\ DOMAIN e = DOMAIN d /\ \A t \in Tables : DOMAIN e[t] \subseteq DOMAIN d[t]
  /\ \A t \in IdTables : \A k \in Kept(a, t) : k \in DOMAIN e[t] /\ e[t][k] = d[t][k]
  /\ \A t \in {"talkgroups", "units"} : \A k \in DOMAIN e[t] : e[t][k].sys = d[t][k].sys
  /\ \A t \in {"keys", "users", "monitors"} : \A n \in DOMAIN e[t] : e[t][n] = d[t][n]
  /\ \A t \in {"keys", "users", "monitors"} : \A n \in Staying(f, t) : n \in DOMAIN d[t] => n \in DOMAIN e[t]

\* The rows of the file are there, and what they refer to is of the file.
Whole(a, d) ==
  /\ DOMAIN d = Tables \union {"seq"} /\ \A t \in IdTables : Kept(a, t) \subseteq DOMAIN d[t]
  /\ \A t \in {"talkgroups", "units"} : \A k \in Kept(a, t) : d[t][k].sys \in Kept(a, "systems")
  /\ \A k \in Kept(a, "talkgroups") : \A kind \in Kinds : d.talkgroups[k][LabelColumn(kind)] \in Kept(a, kind) \union {NoId}

LEMMA LessThen ==
  ASSUME NEW a, NEW d, NEW e, NEW g, NEW f, Less(a, d, e, f), Less(a, e, g, f)
  PROVE  Less(a, d, g, f)
<1>1. \A t \in Tables : DOMAIN g[t] \subseteq DOMAIN d[t]
  BY DEF Less
<1>2. \A t \in IdTables : \A k \in Kept(a, t) : k \in DOMAIN g[t] /\ g[t][k] = d[t][k]
  BY DEF Less
<1>3. \A t \in {"talkgroups", "units"} : \A k \in DOMAIN g[t] : g[t][k].sys = d[t][k].sys
  BY TableNames DEF Less
<1>4. \A t \in {"keys", "users", "monitors"} : \A n \in DOMAIN g[t] : g[t][n] = d[t][n]
  BY TableNames DEF Less
<1>5. \A t \in {"keys", "users", "monitors"} : \A n \in Staying(f, t) : n \in DOMAIN d[t] => n \in DOMAIN g[t]
  BY DEF Less
<1>6. DOMAIN g = DOMAIN d
  BY DEF Less
<1> QED BY <1>1, <1>2, <1>3, <1>4, <1>5, <1>6 DEF Less

LEMMA NoneLess ==
  ASSUME NEW a, NEW d, NEW f, Whole(a, d)
  PROVE  Less(a, d, d, f)
BY DEF Less, Whole

LEMMA WholeStays ==
  ASSUME NEW a, NEW d, NEW e, NEW f, Whole(a, d), Less(a, d, e, f)
  PROVE  Whole(a, e)
<1>1. \A t \in IdTables : \A k \in Kept(a, t) : k \in DOMAIN e[t] /\ e[t][k] = d[t][k]
  BY DEF Less
<1>2. \A t \in IdTables : Kept(a, t) \subseteq DOMAIN e[t]
  BY <1>1
<1>3. \A t \in {"talkgroups", "units"} : \A k \in Kept(a, t) : e[t][k].sys \in Kept(a, "systems")
  BY <1>1, TableNames DEF Whole
<1>4. \A k \in Kept(a, "talkgroups") : \A kind \in Kinds : e.talkgroups[k][LabelColumn(kind)] \in Kept(a, kind) \union {NoId}
  <2>1. \A k \in Kept(a, "talkgroups") : e.talkgroups[k] = d.talkgroups[k]
    BY <1>1, TableNames
  <2> QED BY <2>1 DEF Whole
<1>5. DOMAIN e = Tables \union {"seq"}
  BY DEF Less, Whole
<1> QED BY <1>2, <1>3, <1>4, <1>5 DEF Whole

LEMMA DropLess ==
  ASSUME NEW a, NEW d, Whole(a, d), NEW f, NEW t \in Tables, NEW ids,
         t \in IdTables => ids \intersect Kept(a, t) = {},
         t \in {"keys", "users", "monitors"} => ids \intersect Staying(f, t) = {}
  PROVE  Less(a, d, Drop(d, t, ids), f)
<1> DEFINE e == Drop(d, t, ids)
<1>1. DOMAIN d = Tables \union {"seq"}
  BY DEF Whole
<1>2. DOMAIN e = DOMAIN d /\ (\A u \in Tables : u # t => e[u] = d[u]) /\ e[t] = [i \in DOMAIN d[t] \ ids |-> d[t][i]]
  BY <1>1 DEF Drop
<1> HIDE DEF e
<1>3. DOMAIN e[t] = DOMAIN d[t] \ ids /\ \A i \in DOMAIN e[t] : e[t][i] = d[t][i]
  BY <1>2
<1>4. \A u \in Tables : DOMAIN e[u] \subseteq DOMAIN d[u] /\ \A i \in DOMAIN e[u] : e[u][i] = d[u][i]
  BY <1>2, <1>3
<1>5. \A u \in IdTables : \A k \in Kept(a, u) : k \in DOMAIN e[u]
  <2>1. TAKE u \in IdTables
  <2>2. u \in Tables /\ Kept(a, u) \subseteq DOMAIN d[u]
    BY TableNames DEF Whole
  <2>3. CASE u = t
    BY <1>3, <2>2, <2>3
  <2>4. CASE u # t
    BY <1>2, <2>2, <2>4
  <2> QED BY <2>3, <2>4
<1>6. \A u \in {"keys", "users", "monitors"} : \A n \in Staying(f, u) : n \in DOMAIN d[u] => n \in DOMAIN e[u]
  <2>1. TAKE u \in {"keys", "users", "monitors"}
  <2>2. u \in Tables
    BY TableNames
  <2>3. CASE u = t
    BY <1>3, <2>3
  <2>4. CASE u # t
    BY <1>2, <2>2, <2>4
  <2> QED BY <2>3, <2>4
<1>7. e = Drop(d, t, ids)
  BY DEF e
<1>8. \A u \in IdTables : \A k \in Kept(a, u) : e[u][k] = d[u][k]
  BY <1>4, <1>5, TableNames
<1>9. \A u \in {"talkgroups", "units", "keys", "users", "monitors"} : \A k \in DOMAIN e[u] : e[u][k] = d[u][k]
  BY <1>4, TableNames
<1> QED BY <1>2, <1>4, <1>5, <1>6, <1>7, <1>8, <1>9 DEF Less

\* Talkgroups of the file keep their labels: none of them goes.
LEMMA MoveLess ==
  ASSUME NEW a, NEW d, Whole(a, d), Schema(d), NEW f, NEW kind \in Kinds, NEW ids, NoId \notin ids, ids \intersect Kept(a, kind) = {}
  PROVE  Less(a, d, MoveTalkgroups(d, kind, ids, NoId), f)
<1> DEFINE e == MoveTalkgroups(d, kind, ids, NoId)
<1>1. /\ DOMAIN e = DOMAIN d /\ e.seq = d.seq /\ \A u \in Tables : u # "talkgroups" => e[u] = d[u]
      /\ DOMAIN e.talkgroups = DOMAIN d.talkgroups
      /\ \A g \in DOMAIN d.talkgroups :
           e.talkgroups[g] = IF g \in UsersOf(d, kind, ids) THEN [d.talkgroups[g] EXCEPT ![LabelColumn(kind)] = NoId]
                             ELSE d.talkgroups[g]
  BY Moves
<1>2. e = MoveTalkgroups(d, kind, ids, NoId)
  BY DEF e
<1> HIDE DEF e
<1>3. \A k \in Kept(a, "talkgroups") : k \in DOMAIN d.talkgroups /\ e.talkgroups[k] = d.talkgroups[k]
  <2>1. TAKE k \in Kept(a, "talkgroups")
  <2>2. k \in DOMAIN d.talkgroups
    BY TableNames DEF Whole
  <2>3. d.talkgroups[k][LabelColumn(kind)] \notin ids
    BY DEF Whole
  <2> QED BY <1>1, <2>2, <2>3 DEF UsersOf
<1>4. \A g \in DOMAIN d.talkgroups : e.talkgroups[g].sys = d.talkgroups[g].sys
  <2>1. TAKE g \in DOMAIN d.talkgroups
  <2>2. DOMAIN d.talkgroups[g] = {"sys", "num", "label", "group", "tag"} /\ LabelColumn(kind) # "sys"
    BY SchemaIs, TableNames, ColumnsOf DEF LabelColumn
  <2> QED BY <1>1, <2>2
<1>5. \A u \in Tables : DOMAIN e[u] = DOMAIN d[u] /\ (u # "talkgroups" => e[u] = d[u])
  BY <1>1
<1>6. \A u \in IdTables : \A k \in Kept(a, u) : k \in DOMAIN e[u] /\ e[u][k] = d[u][k]
  <2>1. TAKE u \in IdTables
  <2>2. u \in Tables /\ Kept(a, u) \subseteq DOMAIN d[u]
    BY TableNames DEF Whole
  <2>3. CASE u = "talkgroups"
    BY <1>3, <1>5, <2>2, <2>3
  <2>4. CASE u # "talkgroups"
    BY <1>5, <2>2, <2>4
  <2> QED BY <2>3, <2>4
<1>7. e["units"] = d["units"] /\ e["keys"] = d["keys"] /\ e["users"] = d["users"] /\ e["monitors"] = d["monitors"]
  BY <1>5, TableNames
<1> QED BY <1>1, <1>2, <1>4, <1>5, <1>6, <1>7 DEF Less

\* A file that lists systems and all they take with them.
Covers(f) == "systems" \in f.has => {"talkgroups", "units"} \subseteq f.has
LeftAlone(d, e, f) == \A t \in Tables \ f.has : DOMAIN e[t] = DOMAIN d[t]
Counted(acc, out, f) ==
  out.removed = acc.removed + Beyond(acc.db, out.db) /\ (Covers(f) => LeftAlone(acc.db, out.db, f))

\* The removals so far, after the merge m, and what one more leaves.
Pruning(m, acc, f) ==
  /\ RemoveOK(acc) /\ acc.map = m.map /\ acc.created = m.created
  /\ acc.ok = TRUE => /\ Whole(m, acc.db) /\ Less(m, m.db, acc.db, f) /\ Finite(m.db)
                      /\ acc.removed = Beyond(m.db, acc.db) /\ (Covers(f) => LeftAlone(m.db, acc.db, f))
Tallied(m, out, f) ==
  /\ out.created = m.created /\ out.removed = Beyond(m.db, out.db)
  /\ Covers(f) => LeftAlone(m.db, out.db, f)
Pruned(m, acc, out, f) ==
  Pruning(m, out, f) /\ (out.ok = TRUE => acc.ok = TRUE /\ Less(m, acc.db, out.db, f))

LEMMA ThenPruned ==
  ASSUME NEW m, NEW acc, NEW f, Pruning(m, acc, f), NEW out, RemoveOK(out), out.map = acc.map, out.created = acc.created,
         out.ok = TRUE => acc.ok = TRUE, acc.ok = TRUE /\ out.ok = TRUE => Less(m, acc.db, out.db, f) /\ Counted(acc, out, f)
  PROVE  Pruned(m, acc, out, f)
<1>1. ASSUME out.ok = TRUE PROVE Less(m, acc.db, out.db, f) /\ Less(m, m.db, out.db, f) /\ Whole(m, out.db)
  <2>1. Less(m, acc.db, out.db, f) /\ Less(m, m.db, acc.db, f) /\ Whole(m, acc.db)
    BY <1>1 DEF Pruning
  <2> QED BY <2>1, LessThen, WholeStays
<1>2. ASSUME out.ok = TRUE PROVE out.removed = Beyond(m.db, out.db) /\ (Covers(f) => LeftAlone(m.db, out.db, f))
  <2>1. Within(out.db, acc.db) /\ Within(acc.db, m.db) /\ Finite(m.db)
    BY <1>1, <1>2 DEF Less, Within, Pruning
  <2>2. /\ out.removed = acc.removed + Beyond(acc.db, out.db) /\ acc.removed = Beyond(m.db, acc.db)
        /\ (Covers(f) => LeftAlone(acc.db, out.db, f) /\ LeftAlone(m.db, acc.db, f))
    BY <1>2 DEF Counted, Pruning
  <2>3. Beyond(m.db, out.db) = Beyond(m.db, acc.db) + Beyond(acc.db, out.db)
    BY <2>1, BeyondThen
  <2> QED BY <2>2, <2>3 DEF LeftAlone
<1> QED BY <1>1, <1>2 DEF Pruned, Pruning

\* What goes from one table that the file has is counted.
LEMMA CountedIn ==
  ASSUME NEW acc, Schema(acc.db), NEW out, NEW f, NEW t \in Tables, t \in f.has, NEW gone, gone \subseteq DOMAIN acc.db[t],
         out.removed = acc.removed + Cardinality(gone), DOMAIN out.db[t] = DOMAIN acc.db[t] \ gone,
         \A u \in Tables : u # t => DOMAIN out.db[u] = DOMAIN acc.db[u]
  PROVE  Counted(acc, out, f)
<1>1. Finite(acc.db)
  BY SchemaFinite
<1>2. DOMAIN acc.db[t] \ DOMAIN out.db[t] = gone
  OBVIOUS
<1>3. Beyond(acc.db, out.db) = Cardinality(DOMAIN acc.db[t] \ DOMAIN out.db[t])
  BY <1>1, BeyondIn
<1> QED BY <1>2, <1>3 DEF Counted, LeftAlone

LEMMA NothingRemoved ==
  ASSUME NEW m, NEW acc, NEW f, Pruning(m, acc, f)
  PROVE  Pruned(m, acc, acc, f)
BY NoneLess DEF Pruned, Pruning

LEMMA KeptIn ==
  ASSUME NEW m, NEW acc, NEW f, Pruning(m, acc, f), NEW t
  PROVE  Kept(acc, t) = Kept(m, t)
BY SameMap DEF Pruning

LEMMA RowsRemoved ==
  ASSUME NEW m, NEW acc, NEW f, Pruning(m, acc, f), NEW t \in {"talkgroups", "units"}, NEW out, out = RemoveRows(acc, f, t)
  PROVE  /\ Pruned(m, acc, out, f)
         /\ out.ok = TRUE /\ {t, "systems"} \subseteq f.has =>
              \A k \in DOMAIN out.db[t] : k \in Kept(m, t) \/ out.db[t][k].sys \notin Kept(m, "systems")
<1>1. Kept(acc, t) = Kept(m, t) /\ Kept(acc, "systems") = Kept(m, "systems")
  BY KeptIn
<1> DEFINE gone == {i \in DOMAIN acc.db[t] \ Kept(acc, t) : acc.db[t][i].sys \in Kept(acc, "systems")}
           ok == t = "talkgroups" => \A g \in gone : ~Monitored(acc.db, t, g)
           d == Drop(acc.db, t, gone)
<1>2. CASE ~{t, "systems"} \subseteq f.has
  <2>1. out = acc
    BY <1>2 DEF RemoveRows
  <2> QED BY <1>2, <2>1, NothingRemoved
<1>3. CASE {t, "systems"} \subseteq f.has
  <2>1. out = Removal(acc, d, Cardinality(gone), ok)
    BY <1>3 DEF RemoveRows
  <2>2. RemoveOK(out)
    BY RemoveRowsKeeps DEF Pruning
  <2>3. gone \intersect Kept(m, t) = {} /\ t \in Tables /\ t \notin {"keys", "users", "monitors"}
    BY <1>1, TableNames
  <2>4. ok \in BOOLEAN
    OBVIOUS
  <2>5. \A k \in DOMAIN acc.db[t] \ gone : k \in Kept(m, t) \/ acc.db[t][k].sys \notin Kept(m, "systems")
    BY <1>1
  <2>6. gone \subseteq DOMAIN acc.db[t] /\ t \in f.has
    BY <1>3
  <2> HIDE DEF gone, ok
  <2>7. acc.ok = TRUE => Less(m, acc.db, d, f)
    BY <2>3, DropLess DEF Pruning
  <2>8. acc.ok = TRUE => /\ d[t] = [i \in DOMAIN acc.db[t] \ gone |-> acc.db[t][i]]
                         /\ \A u \in Tables : u # t => d[u] = acc.db[u]
    BY <2>3, Drops DEF Pruning, RemoveOK
  <2> HIDE DEF d
  <2>9. /\ out.db = d /\ out.map = acc.map /\ (out.ok = TRUE => acc.ok = TRUE /\ ok = TRUE)
        /\ out.removed = acc.removed + Cardinality(gone) /\ out.created = acc.created
    BY <2>1, <2>4 DEF Pruning, RemoveOK, Removal, Work
  <2>10. acc.ok = TRUE => Counted(acc, out, f)
    <3>1. acc.ok = TRUE => Schema(acc.db)
      BY DEF Pruning, RemoveOK
    <3> QED BY <2>3, <2>8, <2>9, <2>6, <3>1, CountedIn
  <2>11. Pruned(m, acc, out, f)
    BY <2>2, <2>7, <2>9, <2>10, ThenPruned
  <2> QED BY <2>5, <2>8, <2>9, <2>11
<1> QED BY <1>2, <1>3

LEMMA LabelsRemoved ==
  ASSUME NEW m, NEW acc, NEW f, Pruning(m, acc, f), NEW kind \in Kinds, NEW out, out = RemoveLabels(acc, f, kind)
  PROVE  /\ Pruned(m, acc, out, f)
         /\ out.ok = TRUE /\ kind \in f.has => DOMAIN out.db[kind] \subseteq Kept(m, kind)
<1>1. Kept(acc, kind) = Kept(m, kind)
  BY KeptIn
<1> DEFINE gone == DOMAIN acc.db[kind] \ Kept(acc, kind)
           c == MoveTalkgroups(acc.db, kind, gone, NoId)
           d == Drop(c, kind, gone)
<1>2. CASE kind \notin f.has
  <2>1. out = acc
    BY <1>2 DEF RemoveLabels
  <2> QED BY <1>2, <2>1, NothingRemoved
<1>3. CASE kind \in f.has
  <2>1. out = Removal(acc, d, Cardinality(gone), TRUE)
    BY <1>3 DEF RemoveLabels
  <2>2. RemoveOK(out)
    BY RemoveLabelsKeeps DEF Pruning
  <2>3. gone \intersect Kept(m, kind) = {} /\ kind \in Tables /\ kind \in IdTables /\ kind \notin {"keys", "users", "monitors"} /\ kind # "talkgroups"
    BY <1>1, TableNames
  <2>4. DOMAIN acc.db[kind] \ gone \subseteq Kept(m, kind)
    BY <1>1
  <2>5. ASSUME acc.ok = TRUE
        PROVE  /\ Less(m, acc.db, d, f) /\ DOMAIN d[kind] \subseteq Kept(m, kind)
               /\ DOMAIN d[kind] = DOMAIN acc.db[kind] \ gone /\ \A u \in Tables : u # kind => DOMAIN d[u] = DOMAIN acc.db[u]
    <3>1. Schema(acc.db) /\ Whole(m, acc.db)
      BY <2>5 DEF Pruning, RemoveOK
    <3>2. NoId \notin gone
      BY <2>3, <3>1, SchemaIs
    <3> HIDE DEF gone
    <3>3. Less(m, acc.db, c, f)
      BY <2>3, <3>1, <3>2, MoveLess
    <3>4. (\A u \in Tables : u # "talkgroups" => c[u] = acc.db[u]) /\ DOMAIN c.talkgroups = DOMAIN acc.db.talkgroups
      BY <3>1, Moves
    <3>5. \A u \in Tables : DOMAIN c[u] = DOMAIN acc.db[u]
      BY <3>4
    <3>6. DOMAIN c[kind] = DOMAIN acc.db[kind] /\ Schema(c)
      <4>1. NoId \in DOMAIN acc.db[kind] \union {NoId}
        OBVIOUS
      <4>2. Schema(c)
        BY <3>1, <4>1, MoveKeeps
      <4> QED BY <2>3, <3>4, <4>2
    <3>7. Whole(m, c)
      BY <3>1, <3>3, WholeStays
    <3> HIDE DEF c
    <3>8. Less(m, c, d, f)
      BY <2>3, <3>7, DropLess
    <3>9. d[kind] = [i \in DOMAIN c[kind] \ gone |-> c[kind][i]] /\ \A u \in Tables : u # kind => d[u] = c[u]
      BY <2>3, <3>6, Drops
    <3> HIDE DEF d
    <3>10. DOMAIN d[kind] \subseteq Kept(m, kind)
      BY <2>4, <3>6, <3>9
    <3>11. DOMAIN d[kind] = DOMAIN acc.db[kind] \ gone /\ \A u \in Tables : u # kind => DOMAIN d[u] = DOMAIN acc.db[u]
      BY <3>6, <3>9, <3>5
    <3> QED BY <3>3, <3>8, <3>10, <3>11, LessThen
  <2>6. gone \subseteq DOMAIN acc.db[kind]
    OBVIOUS
  <2> HIDE DEF d, gone
  <2>7. /\ out.db = d /\ out.map = acc.map /\ (out.ok = TRUE => acc.ok = TRUE)
        /\ out.removed = acc.removed + Cardinality(gone) /\ out.created = acc.created
    BY <2>1 DEF Pruning, RemoveOK, Removal, Work
  <2>8. acc.ok = TRUE => Counted(acc, out, f)
    <3>1. acc.ok = TRUE => Schema(acc.db)
      BY DEF Pruning, RemoveOK
    <3> QED BY <1>3, <2>3, <2>5, <2>7, <2>6, <3>1, CountedIn
  <2>9. Pruned(m, acc, out, f)
    BY <2>2, <2>5, <2>7, <2>8, ThenPruned
  <2> QED BY <2>5, <2>7, <2>9
<1> QED BY <1>2, <1>3

LEMMA NamedRemoved ==
  ASSUME NEW m, NEW acc, NEW f, Pruning(m, acc, f), NEW t \in Tables \ IdTables, NEW out, out = RemoveNamed(acc, f, t)
  PROVE  /\ Pruned(m, acc, out, f)
         /\ out.ok = TRUE /\ t \in f.has => \A n \in DOMAIN out.db[t] :
              n \in Staying(f, t) \/ (t = "monitors" /\ "systems" \in f.has /\ out.db[t][n].sys \notin Kept(m, "systems") \union {NoId})
<1>1. Kept(acc, "systems") = Kept(m, "systems")
  BY KeptIn
<1> DEFINE leftToCascade(n) == /\ t = "monitors" /\ "systems" \in f.has
                               /\ acc.db[t][n].sys \notin Kept(acc, "systems") \union {NoId}
           stays(n) == t = "users" /\ n \in f.spared
           gone == {n \in DOMAIN acc.db[t] \ DOMAIN f.db[t] : ~leftToCascade(n) /\ ~stays(n)}
           d == Drop(acc.db, t, gone)
<1>2. CASE t \notin f.has
  <2>1. out = acc
    BY <1>2 DEF RemoveNamed
  <2> QED BY <1>2, <2>1, NothingRemoved
<1>3. CASE t \in f.has
  <2>1. out = Removal(acc, d, Cardinality(gone), TRUE)
    BY <1>3 DEF RemoveNamed
  <2>2. RemoveOK(out)
    BY RemoveNamedKeeps DEF Pruning
  <2>3. gone \intersect Staying(f, t) = {} /\ t \in Tables /\ t \notin IdTables
    BY DEF Staying
  <2>4. \A n \in DOMAIN acc.db[t] \ gone :
          n \in Staying(f, t) \/ (t = "monitors" /\ "systems" \in f.has /\ acc.db[t][n].sys \notin Kept(m, "systems") \union {NoId})
    BY <1>1 DEF Staying
  <2>5. gone \subseteq DOMAIN acc.db[t]
    OBVIOUS
  <2> HIDE DEF gone
  <2>6. acc.ok = TRUE => Less(m, acc.db, d, f)
    BY <2>3, DropLess DEF Pruning
  <2>7. acc.ok = TRUE => /\ d[t] = [i \in DOMAIN acc.db[t] \ gone |-> acc.db[t][i]]
                         /\ \A u \in Tables : u # t => d[u] = acc.db[u]
    BY <2>3, Drops DEF Pruning, RemoveOK
  <2> HIDE DEF d
  <2>8. /\ out.db = d /\ out.map = acc.map /\ (out.ok = TRUE => acc.ok = TRUE)
        /\ out.removed = acc.removed + Cardinality(gone) /\ out.created = acc.created
    BY <2>1 DEF Pruning, RemoveOK, Removal, Work
  <2>9. acc.ok = TRUE => Counted(acc, out, f)
    <3>1. acc.ok = TRUE => Schema(acc.db)
      BY DEF Pruning, RemoveOK
    <3> QED BY <1>3, <2>7, <2>8, <2>5, <3>1, CountedIn
  <2>10. Pruned(m, acc, out, f)
    BY <2>2, <2>6, <2>8, <2>9, ThenPruned
  <2> QED BY <2>4, <2>7, <2>8, <2>10
<1> QED BY <1>2, <1>3

\* A restore that commits has left no monitor to a system that went.
LEMMA SystemsRemoved ==
  ASSUME NEW m, NEW acc, NEW f, Pruning(m, acc, f), NEW out, out = RemoveSystems(acc, f)
  PROVE  /\ Pruned(m, acc, out, f)
         /\ out.ok = TRUE /\ "systems" \in f.has =>
              /\ DOMAIN out.db.systems \subseteq Kept(m, "systems")
              /\ \A t \in {"talkgroups", "units"} : \A k \in DOMAIN out.db[t] : out.db[t][k].sys \in Kept(m, "systems")
              /\ \A n \in DOMAIN out.db.monitors : out.db.monitors[n].sys \in Kept(m, "systems") \union {NoId}
<1>1. Kept(acc, "systems") = Kept(m, "systems")
  BY KeptIn
<1> DEFINE gone == DOMAIN acc.db.systems \ Kept(acc, "systems")
           count == Cardinality(gone) + Cardinality(TalkgroupsOf(acc.db, gone)) + Cardinality(UnitsOf(acc.db, gone))
           b == Drop(acc.db, "talkgroups", TalkgroupsOf(acc.db, gone))
           c == Drop(b, "units", UnitsOf(acc.db, gone))
           e == Drop(c, "systems", gone)
           ok == MayDropSystems(acc.db, gone)
<1>2. CASE "systems" \notin f.has
  <2>1. out = acc
    BY <1>2 DEF RemoveSystems
  <2> QED BY <1>2, <2>1, NothingRemoved
<1>3. CASE "systems" \in f.has
  <2>1. out = Removal(acc, e, count, ok)
    BY <1>3 DEF RemoveSystems, DropSystems
  <2>2. RemoveOK(out)
    BY RemoveSystemsKeeps DEF Pruning
  <2>3. ok \in BOOLEAN
    BY DEF MayDropSystems
  <2>4. /\ gone \intersect Kept(m, "systems") = {} /\ DOMAIN acc.db.systems \ gone \subseteq Kept(m, "systems")
        /\ gone \subseteq DOMAIN acc.db.systems /\ \A s \in DOMAIN acc.db.systems : s \in gone \/ s \in Kept(m, "systems")
    BY <1>1
  <2> HIDE DEF gone, count
  <2>5. ASSUME acc.ok = TRUE PROVE Less(m, acc.db, e, f)
    <3>1. Whole(m, acc.db)
      BY <2>5 DEF Pruning
    <3>2. TalkgroupsOf(acc.db, gone) \intersect Kept(m, "talkgroups") = {} /\ UnitsOf(acc.db, gone) \intersect Kept(m, "units") = {}
      BY <2>4, <3>1 DEF Whole, TalkgroupsOf, UnitsOf
    <3>3. Less(m, acc.db, b, f)
      BY <3>1, <3>2, DropLess, TableNames
    <3>4. Whole(m, b)
      BY <3>1, <3>3, WholeStays
    <3> HIDE DEF b
    <3>5. Less(m, b, c, f)
      BY <3>2, <3>4, DropLess, TableNames
    <3>6. Whole(m, c)
      BY <3>4, <3>5, WholeStays
    <3> HIDE DEF c
    <3>7. Less(m, c, e, f)
      BY <2>4, <3>6, DropLess, TableNames
    <3> HIDE DEF e
    <3>8. Less(m, acc.db, c, f)
      BY <3>3, <3>5, LessThen
    <3> QED BY <3>7, <3>8, LessThen
  <2>6. ASSUME acc.ok = TRUE PROVE Beyond(acc.db, e) = count /\ (Covers(f) => LeftAlone(acc.db, e, f))
    <3>1. Schema(acc.db) /\ Finite(acc.db) /\ DOMAIN acc.db = Tables \union {"seq"}
      BY <2>6, SchemaFinite, SchemaIs DEF Pruning, RemoveOK
    <3> DEFINE x == TalkgroupsOf(acc.db, gone)
               y == UnitsOf(acc.db, gone)
    <3>2. x \subseteq DOMAIN acc.db["talkgroups"] /\ y \subseteq DOMAIN acc.db["units"]
      BY DEF TalkgroupsOf, UnitsOf
    <3> HIDE DEF x, y
    <3>3. /\ DOMAIN b = Tables \union {"seq"} /\ \A u \in Tables : u # "talkgroups" => b[u] = acc.db[u]
          /\ DOMAIN b["talkgroups"] = DOMAIN acc.db["talkgroups"] \ x
      BY <3>1, TableNames DEF Drop, x
    <3> HIDE DEF b
    <3>4. /\ DOMAIN c = Tables \union {"seq"} /\ \A u \in Tables : u # "units" => c[u] = b[u]
          /\ DOMAIN c["units"] = DOMAIN b["units"] \ y
      BY <3>3, TableNames DEF Drop, y
    <3> HIDE DEF c
    <3>5. /\ \A u \in Tables : u # "systems" => e[u] = c[u]
          /\ DOMAIN e["systems"] = DOMAIN c["systems"] \ gone
      BY <3>4, TableNames DEF Drop
    <3> HIDE DEF e
    <3>6. Within(b, acc.db) /\ Within(c, b) /\ Within(e, c) /\ Within(e, b)
      BY <3>3, <3>4, <3>5 DEF Within
    <3>7. Finite(b) /\ Finite(c)
      BY <3>1, <3>6, FewerFinite
    <3>8. Beyond(acc.db, b) = Cardinality(x)
      <4>1. DOMAIN acc.db["talkgroups"] \ DOMAIN b["talkgroups"] = x
        BY <3>2, <3>3
      <4>2. "talkgroups" \in Tables /\ \A u \in Tables : u # "talkgroups" => DOMAIN acc.db[u] \subseteq DOMAIN b[u]
        BY <3>3, TableNames
      <4>3. Beyond(acc.db, b) = Cardinality(DOMAIN acc.db["talkgroups"] \ DOMAIN b["talkgroups"])
        BY <3>1, <4>2, BeyondIn
      <4> QED BY <4>1, <4>3
    <3>9. Beyond(b, c) = Cardinality(y)
      <4>1. DOMAIN b["units"] \ DOMAIN c["units"] = y
        BY <3>2, <3>3, <3>4, TableNames
      <4>2. "units" \in Tables /\ \A u \in Tables : u # "units" => DOMAIN b[u] \subseteq DOMAIN c[u]
        BY <3>4, TableNames
      <4>3. Beyond(b, c) = Cardinality(DOMAIN b["units"] \ DOMAIN c["units"])
        BY <3>7, <4>2, BeyondIn
      <4> QED BY <4>1, <4>3
    <3>10. Beyond(c, e) = Cardinality(gone)
      <4>1. DOMAIN c["systems"] \ DOMAIN e["systems"] = gone
        BY <2>4, <3>3, <3>4, <3>5, TableNames
      <4>2. "systems" \in Tables /\ \A u \in Tables : u # "systems" => DOMAIN c[u] \subseteq DOMAIN e[u]
        BY <3>5, TableNames
      <4>3. Beyond(c, e) = Cardinality(DOMAIN c["systems"] \ DOMAIN e["systems"])
        BY <3>7, <4>2, BeyondIn
      <4> QED BY <4>1, <4>3
    <3>11. /\ Beyond(acc.db, e) = Beyond(acc.db, b) + Beyond(b, e) /\ Beyond(b, e) = Beyond(b, c) + Beyond(c, e)
           /\ Beyond(acc.db, b) \in Nat /\ Beyond(b, c) \in Nat /\ Beyond(c, e) \in Nat
      <4>1. Beyond(acc.db, e) = Beyond(acc.db, b) + Beyond(b, e) /\ Beyond(acc.db, b) \in Nat
        BY <3>1, <3>6, BeyondThen
      <4>2. Beyond(b, e) = Beyond(b, c) + Beyond(c, e) /\ Beyond(b, c) \in Nat /\ Beyond(c, e) \in Nat
        BY <3>6, <3>7, BeyondThen
      <4> QED BY <4>1, <4>2
    <3>12. count = Cardinality(gone) + Cardinality(x) + Cardinality(y)
      BY DEF count, x, y
    <3>13. Beyond(acc.db, e) = count
      BY <3>8, <3>9, <3>10, <3>11, <3>12
    <3>14. Covers(f) => LeftAlone(acc.db, e, f)
      <4>1. Covers(f) => \A u \in Tables \ f.has : u # "systems" /\ u # "talkgroups" /\ u # "units"
        BY <1>3 DEF Covers
      <4> QED BY <3>3, <3>4, <3>5, <4>1 DEF LeftAlone
    <3> QED BY <3>13, <3>14
  <2> HIDE DEF e, ok
  <2>7. /\ out.db = e /\ out.map = acc.map /\ (out.ok = TRUE => acc.ok = TRUE)
        /\ Pruned(m, acc, out, f)
    <3>1. out.db = e /\ out.map = acc.map /\ (out.ok = TRUE => acc.ok = TRUE)
      BY <2>1, <2>3 DEF Pruning, RemoveOK, Removal, Work
    <3>2. out.removed = acc.removed + count /\ out.created = acc.created
      BY <2>1, <2>3 DEF Pruning, RemoveOK, Removal, Work
    <3>3. acc.ok = TRUE => Counted(acc, out, f)
      BY <2>6, <3>1, <3>2 DEF Counted
    <3> QED BY <2>2, <2>5, <3>1, <3>2, <3>3, ThenPruned
  <2>8. ASSUME out.ok = TRUE PROVE DOMAIN out.db.systems \subseteq Kept(m, "systems")
    <3>1. /\ acc.ok = TRUE /\ Schema(acc.db) /\ out.db = e
      BY <2>7, <2>8 DEF Pruning, RemoveOK
    <3>2. Whole(m, acc.db)
      BY <3>1 DEF Pruning
    <3>3. DOMAIN b = Tables \union {"seq"} /\ b["systems"] = acc.db["systems"]
      BY <3>2, TableNames DEF Whole, Drop
    <3> HIDE DEF b
    <3>4. DOMAIN c = Tables \union {"seq"} /\ c["systems"] = b["systems"]
      BY <3>3, TableNames DEF Drop
    <3> HIDE DEF c
    <3>5. e["systems"] = [i \in DOMAIN c["systems"] \ gone |-> c["systems"][i]]
      BY <3>4, TableNames DEF Drop, e
    <3> QED BY <2>4, <3>1, <3>3, <3>4, <3>5
  <2>9. ASSUME out.ok = TRUE, NEW t \in {"talkgroups", "units"}, NEW k \in DOMAIN out.db[t] PROVE out.db[t][k].sys \in Kept(m, "systems")
    <3>1. Schema(out.db)
      BY <2>2, <2>9 DEF RemoveOK
    <3>2. out.db[t][k].sys \in DOMAIN out.db.systems
      BY <3>1, SchemaIs
    <3> QED BY <2>8, <2>9, <3>2
  <2>10. ASSUME out.ok = TRUE, NEW n \in DOMAIN out.db.monitors PROVE out.db.monitors[n].sys \in Kept(m, "systems") \union {NoId}
    <3>1. Schema(out.db)
      BY <2>2, <2>10 DEF RemoveOK
    <3>2. out.db.monitors[n].sys \in DOMAIN out.db.systems \union {NoId}
      BY <3>1, SchemaIs
    <3> QED BY <2>8, <2>10, <3>2
  <2> QED BY <2>7, <2>8, <2>9, <2>10
<1> QED BY <1>2, <1>3

\* After a replacement the tables have the rows of the file and no others.
Replaced(m, e, f) ==
  /\ Less(m, m.db, e, f)
  /\ \A t \in IdTables : Readable(f, t) => DOMAIN e[t] \subseteq Kept(m, t)
  /\ \A t \in {"keys", "users", "monitors"} : t \in f.has => DOMAIN e[t] \subseteq Staying(f, t)

LEMMA TranslatedIs ==
  ASSUME NEW a, NEW row
  PROVE  /\ DOMAIN row = Columns("talkgroups") =>
              LET r == Translate(a, "talkgroups", row)
              IN  /\ r.sys = Mapped(a, "systems", row.sys) /\ r.num = row.num /\ r.label = row.label
                  /\ r.group = Mapped(a, "groups", row.group) /\ r.tag = Mapped(a, "tags", row.tag)
         /\ DOMAIN row = Columns("units") =>
              LET r == Translate(a, "units", row)
              IN  r.sys = Mapped(a, "systems", row.sys) /\ r.num = row.num /\ r.label = row.label
<1>1. ASSUME DOMAIN row = Columns("talkgroups")
      PROVE  LET r == Translate(a, "talkgroups", row)
             IN  /\ r.sys = Mapped(a, "systems", row.sys) /\ r.num = row.num /\ r.label = row.label
                 /\ r.group = Mapped(a, "groups", row.group) /\ r.tag = Mapped(a, "tags", row.tag)
  <2> DEFINE s == Mapped(a, "systems", row.sys)
             g == Mapped(a, "groups", row.group)
             k == Mapped(a, "tags", row.tag)
  <2>1. DOMAIN row = {"sys", "num", "label", "group", "tag"}
    BY <1>1, ColumnsOf
  <2>2. Translate(a, "talkgroups", row) = [row EXCEPT !.sys = s, !.group = g, !.tag = k]
    BY DEF Translate
  <2> HIDE DEF s, g, k
  <2>3. LET r == [row EXCEPT !.sys = s, !.group = g, !.tag = k]
        IN  r.sys = s /\ r.num = row.num /\ r.label = row.label /\ r.group = g /\ r.tag = k
    BY <2>1
  <2> QED BY <2>2, <2>3 DEF s, g, k
<1>2. ASSUME DOMAIN row = Columns("units")
      PROVE  LET r == Translate(a, "units", row)
             IN  r.sys = Mapped(a, "systems", row.sys) /\ r.num = row.num /\ r.label = row.label
  <2> DEFINE s == Mapped(a, "systems", row.sys)
  <2>1. DOMAIN row = {"sys", "num", "label"}
    BY <1>2, ColumnsOf
  <2>2. Translate(a, "units", row) = [row EXCEPT !.sys = s]
    BY DEF Translate
  <2> HIDE DEF s
  <2> QED BY <2>1, <2>2 DEF s
<1> QED BY <1>1, <1>2

LEMMA SameRow ==
  ASSUME NEW a, NEW row, NEW t \in Kinds \union {"systems"}
  PROVE  Translate(a, t, row) = row
BY DEF Translate, Kinds

LEMMA MappedIsKept ==
  ASSUME NEW a, NEW t, NEW i
  PROVE  /\ IsMapped(a, t, i) => Mapped(a, t, i) \in Kept(a, t)
         /\ Mapped(a, t, i) \in Kept(a, t) \union {NoId}
BY KeptIs DEF Mapped, IsMapped

LEMMA MergedIsWhole ==
  ASSUME NEW m, NEW d, NEW f, Backup(f), Merged(m, d, f)
  PROVE  Whole(m, m.db)
<1>1. MergeOK(m) /\ Schema(m.db) /\ DOMAIN m.db = Tables \union {"seq"}
  BY SchemaIs DEF Merged, MergeOK
<1>2. \A t \in IdTables : Kept(m, t) \subseteq DOMAIN m.db[t]
  BY <1>1, KeptIs DEF MergeOK
<1>3. \A t \in IdTables : \A k \in Kept(m, t) : \E i \in DOMAIN f.db[t] :
        DOMAIN f.db[t][i] = Columns(t) /\ ~Orphan(m, t, f.db[t][i]) /\ m.db[t][k] = Translate(m, t, f.db[t][i])
  <2>1. TAKE t \in IdTables
  <2>2. TAKE k \in Kept(m, t)
  <2>3. PICK i \in DOMAIN m.map[t] : k = m.map[t][i]
    BY KeptIs
  <2>4. TableIn(m, d, f, t)
    BY DEF Merged
  <2>5. i \in DOMAIN f.db[t] /\ ~Orphan(m, t, f.db[t][i]) /\ m.db[t][k] = Translate(m, t, f.db[t][i])
    BY <2>3, <2>4 DEF TableIn
  <2>6. DOMAIN f.db[t][i] = Columns(t)
    BY <2>5 DEF Backup, Database
  <2> QED BY <2>5, <2>6
<1>4. \A k \in Kept(m, "talkgroups") : /\ m.db.talkgroups[k].sys \in Kept(m, "systems")
                                       /\ m.db.talkgroups[k].group \in Kept(m, "groups") \union {NoId}
                                       /\ m.db.talkgroups[k].tag \in Kept(m, "tags") \union {NoId}
  <2>1. TAKE k \in Kept(m, "talkgroups")
  <2>2. PICK i \in DOMAIN f.db["talkgroups"] :
          /\ DOMAIN f.db["talkgroups"][i] = Columns("talkgroups") /\ ~Orphan(m, "talkgroups", f.db["talkgroups"][i])
          /\ m.db["talkgroups"][k] = Translate(m, "talkgroups", f.db["talkgroups"][i])
    BY <1>3, TableNames
  <2> DEFINE row == f.db["talkgroups"][i]
             r == Translate(m, "talkgroups", row)
  <2>3. /\ r.sys = Mapped(m, "systems", row.sys) /\ r.group = Mapped(m, "groups", row.group) /\ r.tag = Mapped(m, "tags", row.tag)
    BY <2>2, TranslatedIs
  <2>4. IsMapped(m, "systems", row.sys)
    BY <2>2 DEF Orphan
  <2>5. m.db.talkgroups[k] = r
    BY <2>2
  <2> HIDE DEF row, r
  <2> QED BY <2>3, <2>4, <2>5, MappedIsKept
<1>5. \A k \in Kept(m, "units") : m.db.units[k].sys \in Kept(m, "systems")
  <2>1. TAKE k \in Kept(m, "units")
  <2>2. PICK i \in DOMAIN f.db["units"] :
          /\ DOMAIN f.db["units"][i] = Columns("units") /\ ~Orphan(m, "units", f.db["units"][i])
          /\ m.db["units"][k] = Translate(m, "units", f.db["units"][i])
    BY <1>3, TableNames
  <2> DEFINE row == f.db["units"][i]
             r == Translate(m, "units", row)
  <2>3. r.sys = Mapped(m, "systems", row.sys)
    BY <2>2, TranslatedIs
  <2>4. IsMapped(m, "systems", row.sys)
    BY <2>2 DEF Orphan
  <2>5. m.db.units[k] = r
    BY <2>2
  <2> HIDE DEF row, r
  <2> QED BY <2>3, <2>4, <2>5, MappedIsKept
<1>6. \A k \in Kept(m, "talkgroups") : \A kind \in Kinds : m.db.talkgroups[k][LabelColumn(kind)] \in Kept(m, kind) \union {NoId}
  BY <1>4 DEF Kinds, LabelColumn
<1>7. \A t \in {"talkgroups", "units"} : \A k \in Kept(m, t) : m.db[t][k].sys \in Kept(m, "systems")
  BY <1>4, <1>5
<1> QED BY <1>1, <1>2, <1>6, <1>7 DEF Whole

LEMMA FileReplaced ==
  ASSUME NEW d, Schema(d), NEW f, Backup(f), NEW m, m = Merge(d, f), NEW k, k = removeAbsent(m, f), k.ok = TRUE
  PROVE  Replaced(m, k.db, f) /\ RemoveOK(k) /\ Tallied(m, k, f)
<1> DEFINE b == RemoveRows(m, f, "talkgroups")
           c == RemoveRows(b, f, "units")
           e == RemoveLabels(c, f, "groups")
           g == RemoveLabels(e, f, "tags")
           h == RemoveNamed(g, f, "users")
           i == RemoveNamed(h, f, "keys")
           j == RemoveNamed(i, f, "monitors")
<1>1. k = RemoveSystems(j, f)
  BY DEF removeAbsent
<1>2. Pruning(m, m, f)
  <2>1. Merged(m, d, f)
    BY FileMerged
  <2>2. Whole(m, m.db) /\ RemoveOK(m)
    BY <2>1, MergedIsWhole DEF Merged, MergeOK, RemoveOK
  <2>3. Grown(d, m) /\ Finite(m.db) /\ Within(m.db, m.db)
    BY <2>1, MergeGrows, SchemaFinite DEF Backup, Merged, MergeOK, Within
  <2>4. m.removed = Beyond(m.db, m.db)
    BY <2>3, BeyondNone DEF Grown
  <2> QED BY <2>2, <2>3, <2>4, NoneLess DEF Pruning, LeftAlone
<1>3. /\ Pruned(m, m, b, f)
      /\ b.ok = TRUE /\ {"talkgroups", "systems"} \subseteq f.has =>
              \A x \in DOMAIN b.db["talkgroups"] : x \in Kept(m, "talkgroups") \/ b.db["talkgroups"][x].sys \notin Kept(m, "systems")
  BY <1>2, RowsRemoved
<1> HIDE DEF b
<1>4. Pruning(m, b, f)
  BY <1>3 DEF Pruned
<1>5. /\ Pruned(m, b, c, f)
      /\ c.ok = TRUE /\ {"units", "systems"} \subseteq f.has =>
              \A x \in DOMAIN c.db["units"] : x \in Kept(m, "units") \/ c.db["units"][x].sys \notin Kept(m, "systems")
  BY <1>4, RowsRemoved
<1> HIDE DEF c
<1>6. Pruning(m, c, f)
  BY <1>5 DEF Pruned
<1>7. Pruned(m, c, e, f) /\ (e.ok = TRUE /\ "groups" \in f.has => DOMAIN e.db["groups"] \subseteq Kept(m, "groups"))
  BY <1>6, LabelsRemoved, TableNames
<1> HIDE DEF e
<1>8. Pruning(m, e, f)
  BY <1>7 DEF Pruned
<1>9. Pruned(m, e, g, f) /\ (g.ok = TRUE /\ "tags" \in f.has => DOMAIN g.db["tags"] \subseteq Kept(m, "tags"))
  BY <1>8, LabelsRemoved, TableNames
<1> HIDE DEF g
<1>10. Pruning(m, g, f)
  BY <1>9 DEF Pruned
<1>11. Pruned(m, g, h, f) /\ (h.ok = TRUE /\ "users" \in f.has => DOMAIN h.db["users"] \subseteq Staying(f, "users"))
  <2>1. "users" \in Tables \ IdTables
    BY TableNames
  <2>2. /\ Pruned(m, g, h, f)
        /\ h.ok = TRUE /\ "users" \in f.has => \A n \in DOMAIN h.db["users"] :
             n \in Staying(f, "users") \/ ("users" = "monitors" /\ "systems" \in f.has /\ h.db["users"][n].sys \notin Kept(m, "systems") \union {NoId})
    BY <1>10, <2>1, NamedRemoved
  <2> QED BY <2>2
<1> HIDE DEF h
<1>12. Pruning(m, h, f)
  BY <1>11 DEF Pruned
<1>13. Pruned(m, h, i, f) /\ (i.ok = TRUE /\ "keys" \in f.has => DOMAIN i.db["keys"] \subseteq Staying(f, "keys"))
  <2>1. "keys" \in Tables \ IdTables
    BY TableNames
  <2>2. /\ Pruned(m, h, i, f)
        /\ i.ok = TRUE /\ "keys" \in f.has => \A n \in DOMAIN i.db["keys"] :
             n \in Staying(f, "keys") \/ ("keys" = "monitors" /\ "systems" \in f.has /\ i.db["keys"][n].sys \notin Kept(m, "systems") \union {NoId})
    BY <1>12, <2>1, NamedRemoved
  <2> QED BY <2>2
<1> HIDE DEF i
<1>14. Pruning(m, i, f)
  BY <1>13 DEF Pruned
<1>15. /\ Pruned(m, i, j, f)
       /\ j.ok = TRUE /\ "monitors" \in f.has => \A n \in DOMAIN j.db["monitors"] :
              n \in Staying(f, "monitors") \/ ("systems" \in f.has /\ j.db["monitors"][n].sys \notin Kept(m, "systems") \union {NoId})
  BY <1>14, NamedRemoved, TableNames
<1> HIDE DEF j
<1>16. Pruning(m, j, f)
  BY <1>15 DEF Pruned
<1>17. /\ Pruned(m, j, k, f)
       /\ "systems" \in f.has =>
            /\ DOMAIN k.db.systems \subseteq Kept(m, "systems")
            /\ \A t \in {"talkgroups", "units"} : \A x \in DOMAIN k.db[t] : k.db[t][x].sys \in Kept(m, "systems")
            /\ \A n \in DOMAIN k.db.monitors : k.db.monitors[n].sys \in Kept(m, "systems") \union {NoId}
  BY <1>1, <1>16, SystemsRemoved
<1>18. /\ j.ok = TRUE /\ i.ok = TRUE /\ h.ok = TRUE /\ g.ok = TRUE /\ e.ok = TRUE /\ c.ok = TRUE /\ b.ok = TRUE
       /\ Less(m, j.db, k.db, f) /\ Less(m, i.db, j.db, f) /\ Less(m, h.db, i.db, f) /\ Less(m, g.db, h.db, f)
       /\ Less(m, e.db, g.db, f) /\ Less(m, c.db, e.db, f) /\ Less(m, b.db, c.db, f)
  BY <1>3, <1>5, <1>7, <1>9, <1>11, <1>13, <1>15, <1>17 DEF Pruned
<1>19. Less(m, i.db, k.db, f)
  BY <1>18, LessThen
<1>20. Less(m, h.db, k.db, f)
  BY <1>18, <1>19, LessThen
<1>21. Less(m, g.db, k.db, f)
  BY <1>18, <1>20, LessThen
<1>22. Less(m, e.db, k.db, f)
  BY <1>18, <1>21, LessThen
<1>23. Less(m, c.db, k.db, f)
  BY <1>18, <1>22, LessThen
<1>24. Less(m, b.db, k.db, f)
  BY <1>18, <1>23, LessThen
<1>25. "groups" \in f.has => DOMAIN k.db["groups"] \subseteq Kept(m, "groups")
  BY <1>7, <1>18, <1>22, TableNames DEF Less
<1>26. "tags" \in f.has => DOMAIN k.db["tags"] \subseteq Kept(m, "tags")
  BY <1>9, <1>18, <1>21, TableNames DEF Less
<1>27. {"talkgroups", "systems"} \subseteq f.has => DOMAIN k.db["talkgroups"] \subseteq Kept(m, "talkgroups")
  <2>1. \A x \in DOMAIN k.db["talkgroups"] : x \in DOMAIN b.db["talkgroups"] /\ k.db["talkgroups"][x].sys = b.db["talkgroups"][x].sys
    BY <1>24, TableNames DEF Less
  <2> QED BY <1>3, <1>17, <1>18, <2>1
<1>28. {"units", "systems"} \subseteq f.has => DOMAIN k.db["units"] \subseteq Kept(m, "units")
  <2>1. \A x \in DOMAIN k.db["units"] : x \in DOMAIN c.db["units"] /\ k.db["units"][x].sys = c.db["units"][x].sys
    BY <1>23, TableNames DEF Less
  <2> QED BY <1>5, <1>17, <1>18, <2>1
<1>29. "keys" \in f.has => DOMAIN k.db["keys"] \subseteq Staying(f, "keys")
  BY <1>13, <1>18, <1>19, TableNames DEF Less
<1>30. "monitors" \in f.has => DOMAIN k.db["monitors"] \subseteq Staying(f, "monitors")
  <2>1. \A n \in DOMAIN k.db["monitors"] : n \in DOMAIN j.db["monitors"] /\ k.db["monitors"][n] = j.db["monitors"][n]
    BY <1>18, TableNames DEF Less
  <2> QED BY <1>15, <1>17, <1>18, <2>1
<1>31. Pruning(m, k, f)
  BY <1>17 DEF Pruned
<1>32. Less(m, m.db, k.db, f) /\ RemoveOK(k) /\ Tallied(m, k, f)
  BY <1>31 DEF Pruning, Tallied
<1>33. \A t \in IdTables : Readable(f, t) => DOMAIN k.db[t] \subseteq Kept(m, t)
  BY <1>17, <1>25, <1>26, <1>27, <1>28, TableNames DEF Readable
<1>34. "users" \in f.has => DOMAIN k.db["users"] \subseteq Staying(f, "users")
  BY <1>11, <1>18, <1>20, TableNames DEF Less
<1> QED BY <1>29, <1>30, <1>32, <1>33, <1>34 DEF Replaced

-----------------------------------------------------------------------------
(* What the tables say without primary keys.                               *)

NoText == ""

LEMMA TextOf ==
  ASSUME NEW d, NEW kind, NEW id, id \in DOMAIN d[kind]
  PROVE  LabelText(d, kind, id) = d[kind][id].label
BY DEF LabelText

LEMMA TextOfNone ==
  ASSUME NEW d, NEW kind, NEW id, id \notin DOMAIN d[kind]
  PROVE  LabelText(d, kind, id) = NoText
BY Zenon DEF LabelText, NoText

\* One row for each natural key.
Single(d) == \A t \in IdTables : \A i, j \in DOMAIN d[t] : UniqueKey(t, d[t][i]) = UniqueKey(t, d[t][j]) => i = j

LEMMA KeyOf ==
  ASSUME NEW row
  PROVE  /\ UniqueKey("systems", row) = row.num
         /\ \A t \in Kinds : UniqueKey(t, row) = row.label
         /\ \A t \in {"talkgroups", "units"} : UniqueKey(t, row) = <<row.sys, row.num>>
BY DEF UniqueKey, Kinds

LEMMA RowKeyOf ==
  ASSUME NEW d, NEW i
  PROVE  /\ RowKey(d, "systems", i) = d["systems"][i].num
         /\ \A t \in Kinds : RowKey(d, t, i) = d[t][i].label
         /\ \A t \in {"talkgroups", "units"} : RowKey(d, t, i) = <<SystemNumber(d, d[t][i].sys), d[t][i].num>>
         /\ \A t \in {"keys", "users", "monitors"} : RowKey(d, t, i) = i
BY KeyOf, TableNames DEF RowKey

LEMMA RowKeyIs ==
  ASSUME NEW d, NEW i, NEW t \in Kinds \union {"systems"}
  PROVE  RowKey(d, t, i) = UniqueKey(t, d[t][i])
BY TableNames DEF RowKey

LEMMA KeyIsOne ==
  ASSUME NEW d, Single(d), NEW t \in IdTables \union {"keys", "users", "monitors"}, NEW i \in Stated(d, t), NEW j \in Stated(d, t),
         RowKey(d, t, i) = RowKey(d, t, j)
  PROVE  i = j
<1>1. CASE t \in {"talkgroups", "units"}
  <2>1. /\ i \in DOMAIN d[t] /\ j \in DOMAIN d[t]
        /\ d[t][i].sys \in DOMAIN d.systems /\ d[t][j].sys \in DOMAIN d.systems
    BY <1>1 DEF Stated
  <2>2. <<SystemNumber(d, d[t][i].sys), d[t][i].num>> = <<SystemNumber(d, d[t][j].sys), d[t][j].num>>
    BY <1>1, RowKeyOf
  <2>3. SystemNumber(d, d[t][i].sys) = SystemNumber(d, d[t][j].sys) /\ d[t][i].num = d[t][j].num
    BY <2>2
  <2>4. UniqueKey("systems", d["systems"][d[t][i].sys]) = UniqueKey("systems", d["systems"][d[t][j].sys])
    BY <2>3, KeyOf DEF SystemNumber
  <2>5. d[t][i].sys = d[t][j].sys
    BY <2>1, <2>4, TableNames DEF Single
  <2>6. UniqueKey(t, d[t][i]) = UniqueKey(t, d[t][j])
    BY <1>1, <2>3, <2>5, KeyOf
  <2> QED BY <1>1, <2>1, <2>6, TableNames DEF Single
<1>2. CASE t \in Kinds \union {"systems"}
  <2>1. UniqueKey(t, d[t][i]) = UniqueKey(t, d[t][j])
    BY <1>2, RowKeyIs
  <2>2. i \in DOMAIN d[t] /\ j \in DOMAIN d[t] /\ t \in IdTables
    BY <1>2, TableNames DEF Stated
  <2> QED BY <2>1, <2>2 DEF Single
<1>3. CASE t \in {"keys", "users", "monitors"}
  BY <1>3, RowKeyOf
<1> QED BY <1>1, <1>2, <1>3, TableNames

LEMMA ViewAt ==
  ASSUME NEW d, Single(d), NEW t \in IdTables \union {"keys", "users", "monitors"}, NEW i \in Stated(d, t)
  PROVE  RowKey(d, t, i) \in DOMAIN View(d, t) /\ View(d, t)[RowKey(d, t, i)] = RowText(d, t, i)
<1> DEFINE k == RowKey(d, t, i)
           j == CHOOSE x \in Stated(d, t) : RowKey(d, t, x) = k
<1>1. k \in {RowKey(d, t, x) : x \in Stated(d, t)}
  OBVIOUS
<1>2. View(d, t)[k] = RowText(d, t, j) /\ k \in DOMAIN View(d, t)
  BY <1>1 DEF View
<1>3. j \in Stated(d, t) /\ RowKey(d, t, j) = RowKey(d, t, i)
  OBVIOUS
<1> HIDE DEF j
<1>4. j = i
  BY <1>3, KeyIsOne
<1> QED BY <1>2, <1>4

LEMMA ViewHas ==
  ASSUME NEW d, NEW t, NEW k \in DOMAIN View(d, t)
  PROVE  \E i \in Stated(d, t) : RowKey(d, t, i) = k
BY DEF View

LEMMA ViewIs ==
  ASSUME NEW d, NEW t, NEW V, V = [k \in DOMAIN V |-> V[k]],
         \A i \in Stated(d, t) : RowKey(d, t, i) \in DOMAIN V /\ V[RowKey(d, t, i)] = RowText(d, t, i),
         \A k \in DOMAIN V : \E i \in Stated(d, t) : RowKey(d, t, i) = k
  PROVE  View(d, t) = V
<1> DEFINE S == {RowKey(d, t, i) : i \in Stated(d, t)}
           pick(k) == CHOOSE x \in Stated(d, t) : RowKey(d, t, x) = k
<1>1. S = DOMAIN V
  OBVIOUS
<1>2. View(d, t) = [k \in S |-> RowText(d, t, pick(k))]
  BY DEF View
<1>3. \A k \in S : RowText(d, t, pick(k)) = V[k]
  <2>1. TAKE k \in S
  <2>2. pick(k) \in Stated(d, t) /\ RowKey(d, t, pick(k)) = k
    OBVIOUS
  <2> HIDE DEF pick, S
  <2> QED BY <2>2
<1> HIDE DEF S, pick
<1> QED BY <1>1, <1>2, <1>3

LEMMA ViewIsFunction ==
  ASSUME NEW d, NEW t
  PROVE  View(d, t) = [k \in DOMAIN View(d, t) |-> View(d, t)[k]]
BY DEF View

\* The rows of the file are in e, where m has them.
Landed(m, e, f) ==
  \A t \in IdTables :
    /\ \A i \in DOMAIN f.db[t] : t \in {"talkgroups", "units"} => (i \in DOMAIN m.map[t] <=> f.db[t][i].sys \in DOMAIN f.db.systems)
    /\ t \notin {"talkgroups", "units"} => DOMAIN m.map[t] = DOMAIN f.db[t]
    /\ \A i \in DOMAIN m.map[t] :
         i \in DOMAIN f.db[t] /\ m.map[t][i] \in DOMAIN e[t] /\ e[t][m.map[t][i]] = Translate(m, t, f.db[t][i])

LEMMA StatedLands ==
  ASSUME NEW m, NEW e, NEW f, Landed(m, e, f), NEW t \in IdTables
  PROVE  Stated(f.db, t) = DOMAIN m.map[t]
<1>1. \A i \in DOMAIN m.map[t] : i \in DOMAIN f.db[t]
  BY DEF Landed
<1>2. CASE t \in {"talkgroups", "units"}
  BY <1>1, <1>2 DEF Landed, Stated
<1>3. CASE t \notin {"talkgroups", "units"}
  BY <1>1, <1>3 DEF Landed, Stated
<1> QED BY <1>2, <1>3

LEMMA SystemLands ==
  ASSUME NEW m, NEW e, NEW f, Landed(m, e, f), NEW s \in DOMAIN f.db.systems
  PROVE  /\ IsMapped(m, "systems", s) /\ Mapped(m, "systems", s) \in DOMAIN e.systems
         /\ SystemNumber(e, Mapped(m, "systems", s)) = SystemNumber(f.db, s)
<1>1. "systems" \in IdTables
  BY TableNames
<1>2. s \in DOMAIN m.map["systems"] /\ Mapped(m, "systems", s) = m.map["systems"][s]
  BY <1>1 DEF Landed, Mapped
<1>3. m.map["systems"][s] \in DOMAIN e["systems"] /\ e["systems"][m.map["systems"][s]] = Translate(m, "systems", f.db["systems"][s])
  BY <1>1, <1>2 DEF Landed
<1>4. Translate(m, "systems", f.db["systems"][s]) = f.db["systems"][s]
  BY SameRow
<1> QED BY <1>2, <1>3, <1>4 DEF IsMapped, SystemNumber

LEMMA LabelLands ==
  ASSUME NEW m, NEW e, NEW f, Landed(m, e, f), NEW kind \in Kinds, NoId \notin DOMAIN e[kind], NEW id
  PROVE  LabelText(e, kind, Mapped(m, kind, id)) = LabelText(f.db, kind, id)
<1>1. kind \in IdTables /\ kind \notin {"talkgroups", "units"}
  BY TableNames
<1>2. DOMAIN m.map[kind] = DOMAIN f.db[kind]
  BY <1>1 DEF Landed
<1>3. CASE id \in DOMAIN f.db[kind]
  <2>1. Mapped(m, kind, id) = m.map[kind][id]
    BY <1>2, <1>3 DEF Mapped
  <2>2. m.map[kind][id] \in DOMAIN e[kind] /\ e[kind][m.map[kind][id]] = Translate(m, kind, f.db[kind][id])
    BY <1>1, <1>2, <1>3 DEF Landed
  <2>3. Translate(m, kind, f.db[kind][id]) = f.db[kind][id]
    BY SameRow
  <2>4. LabelText(e, kind, Mapped(m, kind, id)) = e[kind][m.map[kind][id]].label
    BY <2>1, <2>2, TextOf
  <2> QED BY <1>3, <2>2, <2>3, <2>4, TextOf
<1>4. CASE id \notin DOMAIN f.db[kind]
  <2>1. Mapped(m, kind, id) = NoId
    BY <1>2, <1>4 DEF Mapped
  <2>2. LabelText(e, kind, Mapped(m, kind, id)) = NoText
    BY <2>1, TextOfNone
  <2> QED BY <1>4, <2>2, TextOfNone
<1> QED BY <1>3, <1>4

\* A row of the file reads in e as it did in its own database.
LEMMA RowLands ==
  ASSUME NEW m, NEW e, Schema(e), NEW f, Database(f.db), Landed(m, e, f), NEW t \in IdTables, NEW i \in Stated(f.db, t)
  PROVE  LET k == m.map[t][i]
         IN  k \in Stated(e, t) /\ RowKey(e, t, k) = RowKey(f.db, t, i) /\ RowText(e, t, k) = RowText(f.db, t, i)
<1> DEFINE k == m.map[t][i]
           row == f.db[t][i]
<1>1. i \in DOMAIN m.map[t]
  BY StatedLands
<1>2. i \in DOMAIN f.db[t] /\ k \in DOMAIN e[t] /\ e[t][k] = Translate(m, t, row)
  BY <1>1 DEF Landed
<1>3. DOMAIN row = Columns(t)
  BY <1>2 DEF Database
<1>4. k \in Stated(e, t)
  BY <1>2, SchemaIs DEF Stated
<1> HIDE DEF k
<1>5. CASE t = "talkgroups"
  <2>1. /\ e[t][k].sys = Mapped(m, "systems", row.sys) /\ e[t][k].num = row.num /\ e[t][k].label = row.label
        /\ e[t][k].group = Mapped(m, "groups", row.group) /\ e[t][k].tag = Mapped(m, "tags", row.tag)
    BY <1>2, <1>3, <1>5, TranslatedIs
  <2>2. row.sys \in DOMAIN f.db.systems
    BY <1>5 DEF Stated
  <2>3. SystemNumber(e, Mapped(m, "systems", row.sys)) = SystemNumber(f.db, row.sys)
    BY <2>2, SystemLands
  <2>4. NoId \notin DOMAIN e["groups"] /\ NoId \notin DOMAIN e["tags"]
    BY SchemaIs, TableNames
  <2>5. /\ LabelText(e, "groups", Mapped(m, "groups", row.group)) = LabelText(f.db, "groups", row.group)
        /\ LabelText(e, "tags", Mapped(m, "tags", row.tag)) = LabelText(f.db, "tags", row.tag)
    BY <2>4, LabelLands, TableNames
  <2>6. RowKey(e, t, k) = RowKey(f.db, t, i)
    BY <1>5, <2>1, <2>3, RowKeyOf
  <2>7. \A d, x : RowText(d, "talkgroups", x) =
          <<d["talkgroups"][x].label, LabelText(d, "groups", d["talkgroups"][x].group), LabelText(d, "tags", d["talkgroups"][x].tag)>>
    BY DEF RowText
  <2>8. RowText(e, t, k) = RowText(f.db, t, i)
    BY <1>5, <2>1, <2>5, <2>7
  <2> QED BY <1>4, <2>6, <2>8 DEF k
<1>6. CASE t = "units"
  <2>1. e[t][k].sys = Mapped(m, "systems", row.sys) /\ e[t][k].num = row.num /\ e[t][k].label = row.label
    BY <1>2, <1>3, <1>6, TranslatedIs
  <2>2. row.sys \in DOMAIN f.db.systems
    BY <1>6 DEF Stated
  <2>3. SystemNumber(e, Mapped(m, "systems", row.sys)) = SystemNumber(f.db, row.sys)
    BY <2>2, SystemLands
  <2>4. RowKey(e, t, k) = RowKey(f.db, t, i)
    BY <1>6, <2>1, <2>3, RowKeyOf
  <2>5. RowText(e, t, k) = RowText(f.db, t, i)
    BY <1>6, <2>1 DEF RowText
  <2> QED BY <1>4, <2>4, <2>5 DEF k
<1>7. CASE t \in Kinds \union {"systems"}
  <2>1. e[t][k] = row
    BY <1>2, <1>7, SameRow
  <2>2. RowKey(e, t, k) = RowKey(f.db, t, i)
    BY <1>7, <2>1, RowKeyIs
  <2>3. RowText(e, t, k) = RowText(f.db, t, i)
    BY <1>7, <2>1 DEF RowText, Kinds
  <2> QED BY <1>4, <2>2, <2>3 DEF k
<1> QED BY <1>5, <1>6, <1>7, TableNames

LEMMA MergedLands ==
  ASSUME NEW m, NEW d, NEW f, Merged(m, d, f)
  PROVE  Landed(m, m.db, f)
<1>1. SUFFICES ASSUME NEW t \in IdTables
               PROVE  /\ \A i \in DOMAIN f.db[t] : t \in {"talkgroups", "units"} => (i \in DOMAIN m.map[t] <=> f.db[t][i].sys \in DOMAIN f.db.systems)
                      /\ t \notin {"talkgroups", "units"} => DOMAIN m.map[t] = DOMAIN f.db[t]
                      /\ \A i \in DOMAIN m.map[t] :
                           i \in DOMAIN f.db[t] /\ m.map[t][i] \in DOMAIN m.db[t] /\ m.db[t][m.map[t][i]] = Translate(m, t, f.db[t][i])
  BY DEF Landed
<1>2. MergeOK(m) /\ TableIn(m, d, f, t) /\ TableIn(m, d, f, "systems")
  BY TableNames DEF Merged
<1>3. DOMAIN m.map["systems"] = DOMAIN f.db["systems"]
  BY <1>2 DEF TableIn, Orphan
<1>4. DOMAIN m.map[t] = {i \in DOMAIN f.db[t] : ~Orphan(m, t, f.db[t][i])}
  BY <1>2 DEF TableIn
<1>5. \A i \in DOMAIN f.db[t] : t \in {"talkgroups", "units"} => (i \in DOMAIN m.map[t] <=> f.db[t][i].sys \in DOMAIN f.db.systems)
  BY <1>3, <1>4 DEF Orphan, IsMapped
<1>6. t \notin {"talkgroups", "units"} => DOMAIN m.map[t] = DOMAIN f.db[t]
  BY <1>4 DEF Orphan
<1>7. \A i \in DOMAIN m.map[t] : m.map[t][i] \in DOMAIN m.db[t] /\ m.db[t][m.map[t][i]] = Translate(m, t, f.db[t][i])
  BY <1>2 DEF TableIn, MergeOK
<1> QED BY <1>4, <1>5, <1>6, <1>7

LEMMA ReplacedLands ==
  ASSUME NEW m, NEW d, NEW f, Merged(m, d, f), NEW e, Replaced(m, e, f)
  PROVE  Landed(m, e, f)
<1>1. Landed(m, m.db, f)
  BY MergedLands
<1>2. \A t \in IdTables : \A i \in DOMAIN m.map[t] : m.map[t][i] \in DOMAIN e[t] /\ e[t][m.map[t][i]] = m.db[t][m.map[t][i]]
  <2>1. TAKE t \in IdTables
  <2>2. TAKE i \in DOMAIN m.map[t]
  <2>3. m.map[t][i] \in Kept(m, t)
    BY KeptIs
  <2> QED BY <2>3 DEF Replaced, Less
<1> QED BY <1>1, <1>2 DEF Landed

LEMMA NamedText ==
  ASSUME NEW d, NEW t \in {"keys", "monitors"}, NEW i
  PROVE  RowText(d, t, i) = <<>> /\ RowKey(d, t, i) = i /\ Stated(d, t) = DOMAIN d[t]
BY TableNames DEF RowText, RowKey, Stated

LEMMA BackupIsSingle ==
  ASSUME NEW f, Backup(f)
  PROVE  Single(f.db)
BY DEF Backup, Single

LEMMA SchemaIsSingle ==
  ASSUME NEW d, Schema(d)
  PROVE  Single(d)
BY SchemaIs DEF Single

LEMMA ReplacedReads ==
  ASSUME NEW m, NEW e, Schema(e), NEW f, Backup(f), Landed(m, e, f), Replaced(m, e, f), NEW t \in IdTables, Readable(f, t)
  PROVE  View(e, t) = View(f.db, t)
<1> DEFINE V == View(f.db, t)
<1>1. Database(f.db) /\ Single(f.db)
  BY BackupIsSingle DEF Backup
<1>2. ASSUME NEW j \in Stated(f.db, t)
      PROVE  /\ m.map[t][j] \in Stated(e, t) /\ RowKey(e, t, m.map[t][j]) = RowKey(f.db, t, j)
             /\ RowKey(f.db, t, j) \in DOMAIN V /\ V[RowKey(f.db, t, j)] = RowText(e, t, m.map[t][j])
  <2>1. /\ m.map[t][j] \in Stated(e, t) /\ RowKey(e, t, m.map[t][j]) = RowKey(f.db, t, j)
        /\ RowText(e, t, m.map[t][j]) = RowText(f.db, t, j)
    BY <1>1, RowLands
  <2>2. RowKey(f.db, t, j) \in DOMAIN V /\ V[RowKey(f.db, t, j)] = RowText(f.db, t, j)
    BY <1>1, ViewAt
  <2> QED BY <2>1, <2>2
<1>3. ASSUME NEW i \in Stated(e, t)
      PROVE  RowKey(e, t, i) \in DOMAIN V /\ V[RowKey(e, t, i)] = RowText(e, t, i)
  <2>1. i \in Kept(m, t)
    BY DEF Stated, Replaced
  <2>2. PICK j \in DOMAIN m.map[t] : i = m.map[t][j]
    BY <2>1, KeptIs
  <2>3. j \in Stated(f.db, t)
    BY <2>2, StatedLands
  <2> HIDE DEF V
  <2> QED BY <1>2, <2>2, <2>3
<1>4. ASSUME NEW k \in DOMAIN V PROVE \E i \in Stated(e, t) : RowKey(e, t, i) = k
  <2>1. PICK j \in Stated(f.db, t) : RowKey(f.db, t, j) = k
    BY <1>4, ViewHas
  <2> QED BY <1>2, <2>1
<1>5. V = [k \in DOMAIN V |-> V[k]]
  BY ViewIsFunction
<1>6. V = View(f.db, t)
  OBVIOUS
<1> HIDE DEF V
<1>7. View(e, t) = V
  BY <1>3, <1>4, <1>5, ViewIs
<1> QED BY <1>6, <1>7

LEMMA NamedReplaced ==
  ASSUME NEW m, NEW d, NEW f, Merged(m, d, f), NEW e, Replaced(m, e, f), NEW t \in {"keys", "monitors"}, t \in f.has
  PROVE  DOMAIN e[t] = DOMAIN f.db[t] /\ View(e, t) = View(f.db, t)
<1>1. DOMAIN f.db[t] \subseteq DOMAIN m.db[t]
  BY TableNames DEF Merged
<1>2. DOMAIN e[t] = DOMAIN f.db[t]
  BY <1>1 DEF Replaced, Less, Staying
<1>3. Stated(e, t) = Stated(f.db, t) /\ \A i : RowKey(e, t, i) = RowKey(f.db, t, i) /\ RowText(e, t, i) = RowText(f.db, t, i)
  BY <1>2, NamedText
<1> QED BY <1>2, <1>3 DEF View

\* What a merge does not write reads as it did.
LEMMA RowStays ==
  ASSUME NEW m, NEW d, Schema(d), NEW f, Merged(m, d, f), NEW t \in IdTables, NEW i \in DOMAIN d[t]
  PROVE  /\ i \in DOMAIN m.db[t] /\ RowKey(m.db, t, i) = RowKey(d, t, i)
         /\ i \in Kept(m, t) \/ RowText(m.db, t, i) = RowText(d, t, i)
<1> DEFINE e == m.db
<1>1. \A u \in IdTables : TableIn(m, d, f, u)
  BY DEF Merged
<1>2. \A u \in IdTables : \A k \in DOMAIN d[u] : /\ k \in DOMAIN e[u] /\ UniqueKey(u, e[u][k]) = UniqueKey(u, d[u][k])
                                                 /\ k \in Kept(m, u) \/ e[u][k] = d[u][k]
  BY <1>1 DEF TableIn
<1>3. Schema(e)
  BY DEF Merged, MergeOK
<1> HIDE DEF e
<1>4. \A s \in DOMAIN d.systems : SystemNumber(e, s) = SystemNumber(d, s)
  <2>1. TAKE s \in DOMAIN d.systems
  <2>2. UniqueKey("systems", e["systems"][s]) = UniqueKey("systems", d["systems"][s])
    BY <1>2, TableNames
  <2> QED BY <2>2, KeyOf DEF SystemNumber
<1>5. \A kind \in Kinds : \A id \in DOMAIN d[kind] \union {NoId} : LabelText(e, kind, id) = LabelText(d, kind, id)
  <2>1. TAKE kind \in Kinds
  <2>2. TAKE id \in DOMAIN d[kind] \union {NoId}
  <2>3. kind \in IdTables
    BY TableNames
  <2>4. CASE id \in DOMAIN d[kind]
    <3>1. id \in DOMAIN e[kind] /\ e[kind][id].label = d[kind][id].label
      <4>1. id \in DOMAIN e[kind] /\ UniqueKey(kind, e[kind][id]) = UniqueKey(kind, d[kind][id])
        BY <1>2, <2>3, <2>4
      <4>2. \A row : UniqueKey(kind, row) = row.label
        BY KeyOf
      <4> QED BY <4>1, <4>2
    <3> QED BY <2>4, <3>1, TextOf
  <2>5. CASE id = NoId
    <3>1. id \notin DOMAIN d[kind] /\ id \notin DOMAIN e[kind]
      BY <1>3, <2>3, <2>5, SchemaIs
    <3> QED BY <3>1, TextOfNone
  <2> QED BY <2>4, <2>5
<1>6. CASE t = "talkgroups"
  <2>1. d[t][i].sys \in DOMAIN d.systems /\ LabelsIn(d, d.talkgroups[i])
    BY <1>6, SchemaIs
  <2>2. <<e[t][i].sys, e[t][i].num>> = <<d[t][i].sys, d[t][i].num>>
    BY <1>2, <1>6, KeyOf
  <2>3. RowKey(e, t, i) = RowKey(d, t, i)
    BY <1>4, <1>6, <2>1, <2>2, RowKeyOf
  <2>4. \A x, k : RowText(x, "talkgroups", k) =
          <<x["talkgroups"][k].label, LabelText(x, "groups", x["talkgroups"][k].group), LabelText(x, "tags", x["talkgroups"][k].tag)>>
    BY DEF RowText
  <2>5. d[t][i].group \in DOMAIN d["groups"] \union {NoId} /\ d[t][i].tag \in DOMAIN d["tags"] \union {NoId}
    BY <1>6, <2>1 DEF LabelsIn
  <2>6. /\ LabelText(e, "groups", d[t][i].group) = LabelText(d, "groups", d[t][i].group)
        /\ LabelText(e, "tags", d[t][i].tag) = LabelText(d, "tags", d[t][i].tag)
    BY <1>5, <2>5, TableNames
  <2>7. e[t][i] = d[t][i] => RowText(e, t, i) = RowText(d, t, i)
    BY <1>6, <2>4, <2>6
  <2> QED BY <1>2, <2>3, <2>7 DEF e
<1>7. CASE t = "units"
  <2>1. d[t][i].sys \in DOMAIN d.systems
    BY <1>7, SchemaIs
  <2>2. <<e[t][i].sys, e[t][i].num>> = <<d[t][i].sys, d[t][i].num>>
    BY <1>2, <1>7, KeyOf
  <2>3. RowKey(e, t, i) = RowKey(d, t, i)
    BY <1>4, <1>7, <2>1, <2>2, RowKeyOf
  <2>4. e[t][i] = d[t][i] => RowText(e, t, i) = RowText(d, t, i)
    BY <1>7 DEF RowText
  <2> QED BY <1>2, <2>3, <2>4 DEF e
<1>8. CASE t \in Kinds \union {"systems"}
  <2>1. RowKey(e, t, i) = RowKey(d, t, i)
    BY <1>2, <1>8, RowKeyIs
  <2>2. e[t][i] = d[t][i] => RowText(e, t, i) = RowText(d, t, i)
    BY <1>8 DEF RowText, Kinds
  <2> QED BY <1>2, <2>1, <2>2 DEF e
<1> QED BY <1>6, <1>7, <1>8, TableNames

LEMMA OverIs ==
  ASSUME NEW f, NEW g
  PROVE  /\ DOMAIN Over(f, g) = DOMAIN f \union DOMAIN g /\ Over(f, g) = [x \in DOMAIN Over(f, g) |-> Over(f, g)[x]]
         /\ \A x \in DOMAIN f : Over(f, g)[x] = f[x]
         /\ \A x \in DOMAIN g : x \notin DOMAIN f => Over(f, g)[x] = g[x]
BY DEF Over

LEMMA MergedReads ==
  ASSUME NEW m, NEW d, Schema(d), NEW f, Backup(f), Merged(m, d, f), NEW t \in IdTables
  PROVE  View(m.db, t) = Over(View(f.db, t), View(d, t))
<1> DEFINE e == m.db
           F == View(f.db, t)
           D == View(d, t)
           V == Over(F, D)
<1>1. Database(f.db) /\ Single(f.db) /\ Single(d) /\ Schema(e) /\ Single(e) /\ Landed(m, e, f)
  BY BackupIsSingle, SchemaIsSingle, MergedLands DEF Backup, Merged, MergeOK
<1>2. /\ DOMAIN V = DOMAIN F \union DOMAIN D /\ V = [x \in DOMAIN V |-> V[x]]
      /\ \A x \in DOMAIN F : V[x] = F[x]
      /\ \A x \in DOMAIN D : x \notin DOMAIN F => V[x] = D[x]
  <2> HIDE DEF F, D
  <2> QED BY OverIs
<1>3. View(m.db, t) = View(e, t) /\ Over(View(f.db, t), View(d, t)) = V /\ e = m.db
  OBVIOUS
<1> HIDE DEF e, V
<1>4. ASSUME NEW j \in Stated(f.db, t)
      PROVE  /\ m.map[t][j] \in Stated(e, t) /\ RowKey(e, t, m.map[t][j]) = RowKey(f.db, t, j)
             /\ RowKey(f.db, t, j) \in DOMAIN F /\ F[RowKey(f.db, t, j)] = RowText(e, t, m.map[t][j])
  <2>1. /\ m.map[t][j] \in Stated(e, t) /\ RowKey(e, t, m.map[t][j]) = RowKey(f.db, t, j)
        /\ RowText(e, t, m.map[t][j]) = RowText(f.db, t, j)
    BY <1>1, RowLands
  <2>2. RowKey(f.db, t, j) \in DOMAIN F /\ F[RowKey(f.db, t, j)] = RowText(f.db, t, j)
    BY <1>1, ViewAt
  <2> QED BY <2>1, <2>2
<1>5. ASSUME NEW i \in Stated(d, t)
      PROVE  /\ i \in Stated(e, t) /\ RowKey(e, t, i) = RowKey(d, t, i)
             /\ RowKey(d, t, i) \in DOMAIN D /\ D[RowKey(d, t, i)] = RowText(d, t, i)
             /\ i \in Kept(m, t) \/ RowText(e, t, i) = RowText(d, t, i)
  <2>1. i \in DOMAIN d[t]
    BY DEF Stated
  <2>2. i \in DOMAIN e[t] /\ RowKey(e, t, i) = RowKey(d, t, i) /\ (i \in Kept(m, t) \/ RowText(e, t, i) = RowText(d, t, i))
    BY <1>3, <2>1, RowStays
  <2>3. i \in Stated(e, t)
    BY <1>1, <2>2, SchemaIs DEF Stated
  <2>4. RowKey(d, t, i) \in DOMAIN D /\ D[RowKey(d, t, i)] = RowText(d, t, i)
    BY <1>1, ViewAt
  <2> QED BY <2>2, <2>3, <2>4
<1>6. ASSUME NEW i \in Kept(m, t) PROVE \E j \in Stated(f.db, t) : i = m.map[t][j]
  <2>1. PICK j \in DOMAIN m.map[t] : i = m.map[t][j]
    BY KeptIs
  <2>2. j \in Stated(f.db, t)
    BY <1>1, StatedLands
  <2> QED BY <2>1, <2>2
<1>7. ASSUME NEW i \in Stated(e, t), i \notin Kept(m, t) PROVE i \in Stated(d, t) /\ RowKey(e, t, i) \notin DOMAIN F
  <2>1. DOMAIN e[t] = DOMAIN d[t] \union Kept(m, t)
    BY <1>3 DEF Merged, TableIn
  <2>2. i \in DOMAIN d[t]
    BY <1>7, <2>1 DEF Stated
  <2>3. i \in Stated(d, t)
    BY <2>2, SchemaIs DEF Stated
  <2>4. ASSUME RowKey(e, t, i) \in DOMAIN F PROVE FALSE
    <3>1. PICK j \in Stated(f.db, t) : RowKey(f.db, t, j) = RowKey(e, t, i)
      BY <2>4, ViewHas
    <3>2. m.map[t][j] \in Stated(e, t) /\ RowKey(e, t, m.map[t][j]) = RowKey(e, t, i)
      BY <1>4, <3>1
    <3>3. m.map[t][j] = i
      BY <1>1, <3>2, KeyIsOne
    <3>4. j \in DOMAIN m.map[t]
      BY <1>1, StatedLands
    <3> QED BY <1>7, <3>3, <3>4, KeptIs
  <2> QED BY <2>3, <2>4
<1>8. ASSUME NEW k \in DOMAIN F PROVE \E j \in Stated(f.db, t) : RowKey(f.db, t, j) = k
  BY <1>8, ViewHas
<1>9. ASSUME NEW k \in DOMAIN D PROVE \E i \in Stated(d, t) : RowKey(d, t, i) = k
  BY <1>9, ViewHas
<1> HIDE DEF F, D
<1>10. ASSUME NEW i \in Stated(e, t)
       PROVE  RowKey(e, t, i) \in DOMAIN V /\ V[RowKey(e, t, i)] = RowText(e, t, i)
  <2>1. CASE i \in Kept(m, t)
    BY <1>2, <1>4, <1>6, <2>1
  <2>2. CASE i \notin Kept(m, t)
    BY <1>2, <1>5, <1>7, <2>2
  <2> QED BY <2>1, <2>2
<1>11. ASSUME NEW k \in DOMAIN V PROVE \E i \in Stated(e, t) : RowKey(e, t, i) = k
  <2>1. CASE k \in DOMAIN F
    BY <1>4, <1>8, <2>1
  <2>2. CASE k \in DOMAIN D
    BY <1>5, <1>9, <2>2
  <2> QED BY <1>2, <1>11, <2>1, <2>2
<1>12. View(e, t) = V
  BY <1>2, <1>10, <1>11, ViewIs
<1> QED BY <1>3, <1>12

LEMMA NamedMerged ==
  ASSUME NEW m, NEW d, NEW f, Merged(m, d, f), NEW t \in {"keys", "monitors"}, t \in f.has
  PROVE  View(m.db, t) = Over(View(f.db, t), View(d, t))
<1> DEFINE F == View(f.db, t)
           D == View(d, t)
           V == Over(F, D)
<1>1. DOMAIN m.db[t] = DOMAIN d[t] \union DOMAIN f.db[t]
  BY TableNames DEF Merged
<1>2. \A x : /\ Stated(x, t) = DOMAIN x[t] /\ DOMAIN View(x, t) = DOMAIN x[t]
             /\ \A k \in DOMAIN x[t] : View(x, t)[k] = <<>>
  <2>1. TAKE x
  <2>2. /\ Stated(x, t) = DOMAIN x[t] /\ \A i : RowKey(x, t, i) = i /\ RowText(x, t, i) = <<>>
    BY NamedText
  <2> QED BY <2>2 DEF View
<1>3. DOMAIN F = DOMAIN f.db[t] /\ DOMAIN D = DOMAIN d[t] /\ (\A k \in DOMAIN F : F[k] = <<>>) /\ (\A k \in DOMAIN D : D[k] = <<>>)
  BY <1>2
<1>4. V = Over(View(f.db, t), View(d, t))
  OBVIOUS
<1> HIDE DEF F, D
<1>5. DOMAIN V = DOMAIN F \union DOMAIN D /\ (\A k \in DOMAIN V : V[k] = <<>>) /\ V = [k \in DOMAIN V |-> V[k]]
  <2>1. \A x, y : Over(x, y) = [k \in DOMAIN x \union DOMAIN y |-> IF k \in DOMAIN x THEN x[k] ELSE y[k]]
    BY DEF Over
  <2>2. V = [k \in DOMAIN F \union DOMAIN D |-> IF k \in DOMAIN F THEN F[k] ELSE D[k]]
    BY <2>1
  <2> HIDE DEF V
  <2> QED BY <1>3, <2>2
<1> HIDE DEF V
<1>6. \A i : RowKey(m.db, t, i) = i /\ RowText(m.db, t, i) = <<>>
  BY NamedText
<1>7. Stated(m.db, t) = DOMAIN V
  BY <1>1, <1>2, <1>3, <1>5
<1>8. View(m.db, t) = V
  BY <1>5, <1>6, <1>7, ViewIs
<1> QED BY <1>4, <1>8

\* Keys open what they opened, and all if none of that is in the file.
LEMMA ReachLands ==
  ASSUME NEW m, NEW e, Schema(e), NEW f, Landed(m, e, f), NEW g
  PROVE  Reach(e, RemapGrants(m, g)) = IF Reach(f.db, g) = {} THEN {AllSystems} ELSE Reach(f.db, g)
<1> DEFINE map == m.map["systems"]
           kept == {map[s] : s \in g \intersect DOMAIN map}
           reach == Reach(f.db, g)
<1>1. "systems" \in IdTables /\ "systems" \notin {"talkgroups", "units"}
  BY TableNames
<1>2. DOMAIN map = DOMAIN f.db["systems"]
  BY <1>1 DEF Landed
<1>3. \A s \in DOMAIN map : map[s] \in DOMAIN e.systems /\ SystemNumber(e, map[s]) = SystemNumber(f.db, s)
  <2>1. TAKE s \in DOMAIN map
  <2>2. s \in DOMAIN f.db.systems
    BY <1>2
  <2>3. Mapped(m, "systems", s) = map[s]
    BY DEF Mapped
  <2> QED BY <2>2, <2>3, SystemLands
<1>4. AllSystems \notin DOMAIN e.systems
  BY <1>1, SchemaIs DEF AllSystems
<1>5. CASE g = {AllSystems}
  <2>1. RemapGrants(m, g) = {AllSystems}
    BY <1>5 DEF RemapGrants
  <2> QED BY <1>5, <2>1 DEF Reach
<1>6. CASE g # {AllSystems}
  <2>1. RemapGrants(m, g) = IF kept = {} THEN {AllSystems} ELSE kept
    BY <1>6 DEF RemapGrants
  <2>2. reach = {SystemNumber(f.db, s) : s \in g \intersect DOMAIN map}
    BY <1>2, <1>6 DEF Reach
  <2>3. kept = {} <=> reach = {}
    BY <2>2
  <2>4. CASE kept = {}
    BY <2>1, <2>3, <2>4 DEF Reach
  <2>5. CASE kept # {}
    <3>1. kept # {AllSystems} /\ kept \intersect DOMAIN e.systems = kept
      <4>1. \A k \in kept : k \in DOMAIN e.systems
        BY <1>3
      <4> HIDE DEF kept
      <4> QED BY <1>4, <4>1
    <3>2. Reach(e, kept) = {SystemNumber(e, k) : k \in kept}
      <4> HIDE DEF kept
      <4> QED BY <3>1 DEF Reach
    <3>3. {SystemNumber(e, k) : k \in kept} = {SystemNumber(f.db, s) : s \in g \intersect DOMAIN map}
      <4> HIDE DEF map
      <4> QED BY <1>3
    <3> HIDE DEF kept, reach
    <3> QED BY <2>1, <2>2, <2>3, <2>5, <3>2, <3>3 DEF reach
  <2> QED BY <2>4, <2>5
<1> QED BY <1>5, <1>6

\* Monitors point where they pointed.
LEMMA PlaceLands ==
  ASSUME NEW m, NEW e, Schema(e), NEW f, Backup(f), "systems" \in f.has, Landed(m, e, f), NEW n \in DOMAIN f.db.monitors,
         e.monitors[n].sys = Mapped(m, "systems", f.db.monitors[n].sys),
         e.monitors[n].tg = Mapped(m, "talkgroups", f.db.monitors[n].tg)
  PROVE  Place(e, n) = Place(f.db, n)
<1> DEFINE s == f.db.monitors[n].sys
           g == f.db.monitors[n].tg
           es == e.monitors[n].sys
           eg == e.monitors[n].tg
           numberOf(d, x) == IF x \in DOMAIN d.systems THEN SystemNumber(d, x) ELSE NoId
           keyOf(d, x) == IF x \in DOMAIN d.talkgroups THEN RowKey(d, "talkgroups", x) ELSE <<>>
<1>1. /\ NoId \notin DOMAIN e["systems"] /\ NoId \notin DOMAIN e["talkgroups"]
      /\ "systems" \in IdTables /\ "talkgroups" \in IdTables
  BY SchemaIs, TableNames
<1>2. es = Mapped(m, "systems", s) /\ eg = Mapped(m, "talkgroups", g)
  OBVIOUS
<1>3. g \in DOMAIN f.db.talkgroups => f.db.talkgroups[g].sys \in DOMAIN f.db.systems
  BY DEF Backup
<1>4. Place(e, n) = <<numberOf(e, es), keyOf(e, eg)>> /\ Place(f.db, n) = <<numberOf(f.db, s), keyOf(f.db, g)>>
  BY DEF Place
<1> HIDE DEF s, g, es, eg
<1>5. numberOf(e, es) = numberOf(f.db, s)
  <2>1. CASE s \in DOMAIN f.db.systems
    BY <1>2, <2>1, SystemLands
  <2>2. CASE s \notin DOMAIN f.db.systems
    <3>1. DOMAIN m.map["systems"] = DOMAIN f.db["systems"]
      BY <1>1 DEF Landed
    <3>2. es = NoId
      BY <1>2, <2>2, <3>1 DEF Mapped
    <3> QED BY <1>1, <2>2, <3>2
  <2> QED BY <2>1, <2>2
<1>6. keyOf(e, eg) = keyOf(f.db, g)
  <2>1. Stated(f.db, "talkgroups") = DOMAIN m.map["talkgroups"]
    BY <1>1, StatedLands
  <2>2. CASE g \in DOMAIN f.db.talkgroups
    <3>1. g \in Stated(f.db, "talkgroups")
      BY <1>3, <2>2 DEF Stated
    <3>2. eg = m.map["talkgroups"][g]
      BY <1>2, <2>1, <3>1 DEF Mapped
    <3>3. Database(f.db)
      BY DEF Backup
    <3>4. eg \in Stated(e, "talkgroups") /\ RowKey(e, "talkgroups", eg) = RowKey(f.db, "talkgroups", g)
      BY <1>1, <3>1, <3>2, <3>3, RowLands
    <3>5. eg \in DOMAIN e.talkgroups
      BY <3>4 DEF Stated
    <3> QED BY <2>2, <3>4, <3>5
  <2>3. CASE g \notin DOMAIN f.db.talkgroups
    <3>1. g \notin DOMAIN m.map["talkgroups"]
      BY <2>1, <2>3 DEF Stated
    <3>2. eg = NoId
      BY <1>2, <3>1 DEF Mapped
    <3> QED BY <1>1, <2>3, <3>2
  <2> QED BY <2>2, <2>3
<1> HIDE DEF numberOf, keyOf
<1> QED BY <1>4, <1>5, <1>6

\* The tables after the restore of file f, d having been there before.
KeysSay(e, f) ==
  {"systems", "keys"} \subseteq f.has =>
    \A k \in DOMAIN f.db.keys : LET reach == Reach(f.db, f.db.keys[k]) IN
      reach # {} => Reach(e, e.keys[k]) = reach
MonitorsSay(e, f) ==
  {"systems", "talkgroups", "monitors"} \subseteq f.has => \A n \in DOMAIN f.db.monitors : Place(e, n) = Place(f.db, n)
SparedStay(d, e, f) == \A n \in f.spared \intersect DOMAIN d.users : n \in DOMAIN e.users /\ e.users[n] = d.users[n]
SaysTheFile(d, e, f) ==
  /\ \A t \in Tables \ {"users"} : Readable(f, t) =>
       View(e, t) = IF f.mode = "replace" THEN View(f.db, t) ELSE Over(View(f.db, t), View(d, t))
  /\ KeysSay(e, f) /\ MonitorsSay(e, f) /\ SparedStay(d, e, f)

LEMMA SparedUsers ==
  ASSUME NEW m, NEW d, NEW f, Merged(m, d, f), NEW e, e = m.db \/ Less(m, m.db, e, f)
  PROVE  SparedStay(d, e, f)
<1>1. SUFFICES ASSUME NEW n \in f.spared \intersect DOMAIN d.users PROVE n \in DOMAIN e["users"] /\ e["users"][n] = d.users[n]
  BY DEF SparedStay
<1>2. n \in DOMAIN m.db["users"] /\ m.db["users"][n] = d.users[n]
  BY TableNames DEF Merged, UsersIn, UserRow
<1>3. n \in Staying(f, "users")
  BY DEF Staying
<1> QED BY <1>2, <1>3 DEF Less

LEMMA NamedSay ==
  ASSUME NEW m, NEW e, Schema(e), NEW f, Backup(f), Landed(m, e, f), NamedIn(m, f),
         \A t \in {"keys", "monitors"} : t \in f.has => \A n \in DOMAIN f.db[t] : e[t][n] = m.db[t][n]
  PROVE  KeysSay(e, f) /\ MonitorsSay(e, f)
<1>1. ASSUME "keys" \in f.has, NEW k \in DOMAIN f.db.keys
      PROVE  LET reach == Reach(f.db, f.db.keys[k]) IN
               reach # {} => Reach(e, e.keys[k]) = reach
  <2>1. e.keys[k] = RemapGrants(m, f.db.keys[k])
    BY <1>1 DEF NamedIn
  <2> QED BY <2>1, ReachLands
<1>2. ASSUME {"systems", "monitors"} \subseteq f.has, NEW n \in DOMAIN f.db.monitors
      PROVE  Place(e, n) = Place(f.db, n)
  <2>1. /\ e.monitors[n].sys = Mapped(m, "systems", f.db.monitors[n].sys)
        /\ e.monitors[n].tg = Mapped(m, "talkgroups", f.db.monitors[n].tg)
    BY <1>2 DEF NamedIn
  <2>2. "systems" \in f.has
    BY <1>2
  <2> QED BY <2>1, <2>2, PlaceLands
<1> QED BY <1>1, <1>2 DEF KeysSay, MonitorsSay

LEMMA FileRestored ==
  ASSUME NEW d, Schema(d), NEW f, Backup(f), NEW out, out = ImportConfig(d, f), out.ok = TRUE
  PROVE  SaysTheFile(d, out.db, f)
<1> DEFINE m == Merge(d, f)
           e == out.db
<1>1. Merged(m, d, f) /\ m = Merge(d, f)
  BY FileMerged
<1> HIDE DEF m
<1>2. NamedIn(m, f) /\ Schema(m.db)
  BY <1>1 DEF Merged, MergeOK
<1>3. \A t \in Tables \ {"users"} : t \in IdTables \/ t \in {"keys", "monitors"}
  BY TableNames
<1>4. \A t : Readable(f, t) => t \in f.has
  BY DEF Readable
<1>5. CASE f.mode = "replace"
  <2>1. out = removeAbsent(m, f)
    BY <1>1, <1>5 DEF ImportConfig
  <2>2. Replaced(m, e, f) /\ Schema(e)
    BY <1>1, <2>1, FileReplaced DEF RemoveOK
  <2>3. Landed(m, e, f)
    BY <1>1, <2>2, ReplacedLands
  <2> HIDE DEF e
  <2>4. \A t \in IdTables : Readable(f, t) => View(e, t) = View(f.db, t)
    BY <2>2, <2>3, ReplacedReads
  <2>5. \A t \in {"keys", "monitors"} : t \in f.has => DOMAIN e[t] = DOMAIN f.db[t] /\ View(e, t) = View(f.db, t)
    BY <1>1, <2>2, NamedReplaced
  <2>6. \A t \in {"keys", "monitors"} : t \in f.has => \A n \in DOMAIN f.db[t] : e[t][n] = m.db[t][n]
    BY <2>2, <2>5 DEF Replaced, Less
  <2>7. \A t \in Tables \ {"users"} : Readable(f, t) => View(e, t) = View(f.db, t)
    BY <1>3, <1>4, <2>4, <2>5
  <2>8. KeysSay(e, f) /\ MonitorsSay(e, f)
    BY <1>2, <2>2, <2>3, <2>6, NamedSay
  <2>9. SparedStay(d, e, f)
    BY <1>1, <2>2, SparedUsers DEF Replaced
  <2> QED BY <1>5, <2>7, <2>8, <2>9 DEF SaysTheFile, e
<1>6. CASE f.mode # "replace"
  <2>1. e = m.db
    BY <1>1, <1>6 DEF ImportConfig
  <2>2. Landed(m, e, f) /\ Schema(e)
    BY <1>1, <1>2, <2>1, MergedLands
  <2>3. \A t \in IdTables : View(e, t) = Over(View(f.db, t), View(d, t))
    BY <1>1, <2>1, MergedReads
  <2>4. \A t \in {"keys", "monitors"} : t \in f.has => View(e, t) = Over(View(f.db, t), View(d, t))
    BY <1>1, <2>1, NamedMerged
  <2>5. \A t \in {"keys", "monitors"} : t \in f.has => \A n \in DOMAIN f.db[t] : e[t][n] = m.db[t][n]
    BY <2>1
  <2> HIDE DEF e
  <2>6. \A t \in Tables \ {"users"} : Readable(f, t) => View(e, t) = Over(View(f.db, t), View(d, t))
    BY <1>3, <1>4, <2>3, <2>4
  <2>7. KeysSay(e, f) /\ MonitorsSay(e, f)
    BY <1>2, <2>2, <2>5, NamedSay
  <2>8. SparedStay(d, e, f)
    BY <1>1, <2>1, SparedUsers
  <2> QED BY <1>6, <2>6, <2>7, <2>8 DEF SaysTheFile, e
<1> QED BY <1>5, <1>6

-----------------------------------------------------------------------------
(* What the review says.                                                   *)

LEMMA TotalIs ==
  ASSUME NEW f, NEW c
  PROVE  Total(f, c) = Together([t \in Tables |-> IF t \in f.has THEN Cardinality(c[t]) ELSE 0])
<1> DEFINE b == [t \in Tables |-> IF t \in f.has THEN Cardinality(c[t]) ELSE 0]
<1>1. \A t \in Tables : b[t] = IF t \in f.has THEN Cardinality(c[t]) ELSE 0
  OBVIOUS
<1> HIDE DEF b
<1>2. Total(f, c) = Together(b)
  BY <1>1, TableNames DEF Total, Together
<1> QED BY <1>2 DEF b

\* Rows are counted by their keys.
LEMMA CountedAlike ==
  ASSUME NEW d, Single(d), NEW t \in Tables, NEW A, IsFiniteSet(A), A \subseteq Stated(d, t), NEW B,
         \A i \in A : RowKey(d, t, i) \in B, \A k \in B : \E i \in A : RowKey(d, t, i) = k
  PROVE  Cardinality(A) = Cardinality(B)
<1> DEFINE g == [i \in A |-> RowKey(d, t, i)]
<1>1. g \in [A -> B]
  OBVIOUS
<1>2. t \in IdTables \union {"keys", "users", "monitors"}
  BY TableNames
<1>3. \A i, j \in A : g[i] = g[j] => i = j
  BY <1>2, KeyIsOne
<1>4. \A k \in B : \E i \in A : g[i] = k
  OBVIOUS
<1> HIDE DEF g
<1>5. g \in Bijection(A, B)
  <2>1. g \in Injection(A, B)
    BY <1>1, <1>3 DEF Injection, IsInjective
  <2>2. g \in Surjection(A, B)
    BY <1>1, <1>4 DEF Surjection
  <2> QED BY <2>1, <2>2 DEF Bijection
<1>6. ExistsBijection(A, B)
  BY <1>5 DEF ExistsBijection
<1> QED BY <1>6, FS_Bijection

\* The rows of d are in e, under the same keys.
SameKeys(d, e, t) == \A i \in DOMAIN d[t] : i \in DOMAIN e[t] /\ RowKey(e, t, i) = RowKey(d, t, i)

LEMMA ViewKeys ==
  ASSUME NEW d, NEW t
  PROVE  DOMAIN View(d, t) = {RowKey(d, t, i) : i \in Stated(d, t)}
BY DEF View

LEMMA SchemaStates ==
  ASSUME NEW d, Schema(d), NEW t \in Tables
  PROVE  Stated(d, t) = DOMAIN d[t]
BY SchemaIs, TableNames DEF Stated

LEMMA KeysBeyond ==
  ASSUME NEW d, Schema(d), NEW e, Schema(e), NEW t \in Tables, SameKeys(d, e, t)
  PROVE  Cardinality(DOMAIN e[t] \ DOMAIN d[t]) = Cardinality(DOMAIN View(e, t) \ DOMAIN View(d, t))
<1> DEFINE A == DOMAIN e[t] \ DOMAIN d[t]
           B == DOMAIN View(e, t) \ DOMAIN View(d, t)
<1>1. Stated(d, t) = DOMAIN d[t] /\ Stated(e, t) = DOMAIN e[t] /\ Single(e)
  BY SchemaStates, SchemaIsSingle
<1>2. DOMAIN View(d, t) = {RowKey(d, t, i) : i \in DOMAIN d[t]} /\ DOMAIN View(e, t) = {RowKey(e, t, i) : i \in DOMAIN e[t]}
  BY <1>1, ViewKeys
<1>3. IsFiniteSet(A)
  BY SchemaFinite, CountOf DEF Finite
<1>4. \A i \in A : RowKey(e, t, i) \in B
  <2>1. TAKE i \in A
  <2>2. i \in DOMAIN e[t] /\ i \notin DOMAIN d[t]
    OBVIOUS
  <2>3. ASSUME NEW j \in DOMAIN d[t], RowKey(d, t, j) = RowKey(e, t, i) PROVE FALSE
    <3>1. j \in Stated(e, t) /\ i \in Stated(e, t) /\ RowKey(e, t, j) = RowKey(e, t, i)
      BY <1>1, <2>2, <2>3 DEF SameKeys
    <3>2. i = j
      BY <1>1, <3>1, KeyIsOne, TableNames
    <3> QED BY <2>2, <3>2
  <2> QED BY <1>2, <2>2, <2>3
<1>5. \A k \in B : \E i \in A : RowKey(e, t, i) = k
  BY <1>2 DEF SameKeys
<1>6. A \subseteq Stated(e, t)
  BY <1>1
<1> HIDE DEF A, B
<1>7. Cardinality(A) = Cardinality(B)
  BY <1>1, <1>3, <1>4, <1>5, <1>6, CountedAlike
<1> QED BY <1>7 DEF A, B

LEMMA NamedKeys ==
  ASSUME NEW d, NEW t \in {"keys", "users", "monitors"}
  PROVE  (\A i : RowKey(d, t, i) = i) /\ Stated(d, t) = DOMAIN d[t] /\ DOMAIN View(d, t) = DOMAIN d[t]
<1>1. (\A i : RowKey(d, t, i) = i) /\ Stated(d, t) = DOMAIN d[t]
  BY TableNames DEF RowKey, Stated
<1>2. DOMAIN View(d, t) = {RowKey(d, t, i) : i \in Stated(d, t)}
  BY ViewKeys
<1> QED BY <1>1, <1>2

\* The keys of the tables after a merge.
LEMMA MergedKeys ==
  ASSUME NEW m, NEW d, Schema(d), NEW f, Backup(f), Merged(m, d, f), NEW t \in Tables
  PROVE  /\ SameKeys(d, m.db, t)
         /\ DOMAIN View(m.db, t) = DOMAIN View(f.db, t) \union DOMAIN View(d, t)
<1>1. CASE t \in IdTables
  <2>1. View(m.db, t) = Over(View(f.db, t), View(d, t))
    BY <1>1, MergedReads
  <2>2. \A x, y : DOMAIN Over(x, y) = DOMAIN x \union DOMAIN y
    BY OverIs
  <2>3. DOMAIN Over(View(f.db, t), View(d, t)) = DOMAIN View(f.db, t) \union DOMAIN View(d, t)
    BY <2>2
  <2>4. SameKeys(d, m.db, t)
    BY <1>1, RowStays DEF SameKeys
  <2> QED BY <2>1, <2>3, <2>4
<1>2. CASE t \in {"keys", "users", "monitors"}
  <2>1. DOMAIN m.db[t] = DOMAIN d[t] \union DOMAIN f.db[t]
    BY <1>2, TableNames DEF Merged
  <2>2. \A x : (\A i : RowKey(x, t, i) = i) /\ DOMAIN View(x, t) = DOMAIN x[t]
    BY <1>2, NamedKeys
  <2>3. DOMAIN View(m.db, t) = DOMAIN m.db[t] /\ DOMAIN View(f.db, t) = DOMAIN f.db[t] /\ DOMAIN View(d, t) = DOMAIN d[t]
    BY <2>2
  <2>4. SameKeys(d, m.db, t)
    BY <2>1, <2>2 DEF SameKeys
  <2> QED BY <2>1, <2>3, <2>4
<1> QED BY <1>1, <1>2, TableNames

LEMMA ReplacedKeys ==
  ASSUME NEW m, NEW d, NEW f, Backup(f), Merged(m, d, f), NEW e, Schema(e), Replaced(m, e, f), NEW t \in Tables, t \in f.has,
         Readable(f, t)
  PROVE  /\ SameKeys(e, m.db, t)
         /\ DOMAIN View(e, t) = DOMAIN View(f.db, t) \union IF t = "users" THEN f.spared \intersect DOMAIN View(d, t) ELSE {}
<1>1. Landed(m, m.db, f) /\ Landed(m, e, f) /\ Schema(m.db) /\ Database(f.db)
  BY MergedLands, ReplacedLands DEF Merged, MergeOK, Backup
<1>2. CASE t \in IdTables
  <2>1. View(e, t) = View(f.db, t)
    BY <1>1, <1>2, ReplacedReads
  <2>2. SUFFICES ASSUME NEW i \in DOMAIN e[t] PROVE i \in DOMAIN m.db[t] /\ RowKey(m.db, t, i) = RowKey(e, t, i)
    BY <1>2, <2>1, TableNames DEF SameKeys
  <2>3. i \in Kept(m, t) /\ i \in DOMAIN m.db[t]
    BY <1>2 DEF Replaced, Less
  <2>4. PICK j \in DOMAIN m.map[t] : i = m.map[t][j]
    BY <2>3, KeptIs
  <2>5. j \in Stated(f.db, t)
    BY <1>1, <1>2, <2>4, StatedLands
  <2>6. RowKey(m.db, t, i) = RowKey(f.db, t, j)
    BY <1>1, <1>2, <2>4, <2>5, RowLands
  <2>7. RowKey(e, t, i) = RowKey(f.db, t, j)
    BY <1>1, <1>2, <2>4, <2>5, RowLands
  <2> QED BY <2>3, <2>6, <2>7
<1>3. CASE t \in {"keys", "users", "monitors"}
  <2>1. DOMAIN m.db[t] = DOMAIN d[t] \union DOMAIN f.db[t]
    BY <1>3, TableNames DEF Merged
  <2>2. DOMAIN e[t] = DOMAIN f.db[t] \union IF t = "users" THEN f.spared \intersect DOMAIN d[t] ELSE {}
    BY <1>3, <2>1, TableNames DEF Replaced, Less, Staying
  <2>3. \A x : (\A i : RowKey(x, t, i) = i) /\ DOMAIN View(x, t) = DOMAIN x[t]
    BY <1>3, NamedKeys
  <2>4. DOMAIN View(e, t) = DOMAIN e[t] /\ DOMAIN View(f.db, t) = DOMAIN f.db[t] /\ DOMAIN View(d, t) = DOMAIN d[t]
    BY <2>3
  <2>5. SameKeys(e, m.db, t)
    BY <2>1, <2>2, <2>3 DEF SameKeys
  <2> QED BY <2>2, <2>4, <2>5
<1> QED BY <1>2, <1>3, TableNames

\* What a table says of a key, from what the file and the tables said before.
Agrees(d, e, f, t) ==
  LET D == View(d, t)
      E == View(e, t)
      F == View(f.db, t)
  IN  /\ \A k \in DOMAIN F : k \in DOMAIN E /\ E[k] = F[k]
      /\ \A k \in DOMAIN E \intersect DOMAIN D : k \in DOMAIN F \/ E[k] = D[k]

LEMMA SaidAgrees ==
  ASSUME NEW d, NEW e, NEW f, NEW t, View(e, t) = View(f.db, t) \/ View(e, t) = Over(View(f.db, t), View(d, t))
  PROVE  Agrees(d, e, f, t)
<1> DEFINE D == View(d, t)
           E == View(e, t)
           F == View(f.db, t)
<1>1. E = F \/ E = Over(F, D)
  OBVIOUS
<1> HIDE DEF D, E, F
<1>2. ASSUME E = Over(F, D)
      PROVE  (\A k \in DOMAIN F : k \in DOMAIN E /\ E[k] = F[k]) /\ (\A k \in DOMAIN E \intersect DOMAIN D : k \in DOMAIN F \/ E[k] = D[k])
  <2> DEFINE O == Over(F, D)
  <2>1. /\ DOMAIN O = DOMAIN F \union DOMAIN D /\ \A x \in DOMAIN F : O[x] = F[x]
        /\ \A x \in DOMAIN D : x \notin DOMAIN F => O[x] = D[x]
    BY DEF Over
  <2>2. E = O
    BY <1>2
  <2> HIDE DEF O
  <2> QED BY <2>1, <2>2
<1>3. (\A k \in DOMAIN F : k \in DOMAIN E /\ E[k] = F[k]) /\ (\A k \in DOMAIN E \intersect DOMAIN D : k \in DOMAIN F \/ E[k] = D[k])
  BY <1>1, <1>2
<1> QED BY <1>3 DEF Agrees, D, E, F

LEMMA UsersRead ==
  ASSUME NEW d, Single(d), NEW n \in DOMAIN d["users"]
  PROVE  n \in DOMAIN View(d, "users") /\ View(d, "users")[n] = <<d["users"][n]>>
<1>1. n \in Stated(d, "users") /\ RowKey(d, "users", n) = n
  BY NamedKeys
<1>2. RowText(d, "users", n) = <<d["users"][n]>>
  BY DEF RowText
<1> QED BY <1>1, <1>2, ViewAt

\* The rows the review finds to differ, and those that were changed.
Differ(d, f, t) ==
  {k \in DOMAIN View(f.db, t) \intersect DOMAIN View(d, t) : View(d, t)[k] # View(f.db, t)[k]}
Changed(d, e, t) == {k \in DOMAIN View(d, t) \intersect DOMAIN View(e, t) : View(d, t)[k] # View(e, t)[k]}
Did(d, e, t) == IF t \in {"keys", "monitors"} THEN {} ELSE Changed(d, e, t)

\* Among users, the accounts spared differ and are not changed.
UsersDiffer(d, e, f) ==
  /\ Differ(d, f, "users") = Changed(d, e, "users") \union SparedIn(d, f)
  /\ Changed(d, e, "users") \intersect SparedIn(d, f) = {}

LEMMA UsersReviewed ==
  ASSUME NEW m, NEW d, Schema(d), NEW f, Backup(f), Merged(m, d, f), NEW e, Schema(e), "users" \in f.has,
         e = m.db \/ Replaced(m, e, f)
  PROVE  UsersDiffer(d, e, f)
<1>1. Single(d) /\ Single(e) /\ Single(f.db)
  BY SchemaIsSingle, BackupIsSingle
<1>2. \A x : DOMAIN View(x, "users") = DOMAIN x["users"]
  BY NamedKeys
<1>3. DOMAIN m.db["users"] = DOMAIN d["users"] \union DOMAIN f.db["users"] /\ UsersIn(m, d, f)
  BY TableNames DEF Merged
<1>4. (\A n \in DOMAIN f.db["users"] : n \in DOMAIN e["users"]) /\ \A n \in DOMAIN e["users"] : e["users"][n] = m.db["users"][n]
  BY <1>3 DEF Replaced, Less, Staying
<1>5. \A n \in DOMAIN f.db["users"] : n \in DOMAIN e["users"] /\ e["users"][n] = UserRow(d, f, n)
  BY <1>3, <1>4 DEF UsersIn
<1>6. \A n \in DOMAIN e["users"] \intersect DOMAIN d["users"] : n \in DOMAIN f.db["users"] \/ e["users"][n] = d["users"][n]
  BY <1>3, <1>4 DEF UsersIn
<1>7. ASSUME NEW k, NEW x, NEW y, Single(x), Single(y), k \in DOMAIN x["users"], k \in DOMAIN y["users"]
      PROVE  View(x, "users")[k] = View(y, "users")[k] <=> x["users"][k] = y["users"][k]
  <2>1. View(x, "users")[k] = <<x["users"][k]>> /\ View(y, "users")[k] = <<y["users"][k]>>
    BY <1>7, UsersRead
  <2> QED BY <2>1
<1>8. Differ(d, f, "users") = {k \in DOMAIN f.db["users"] \intersect DOMAIN d["users"] : d["users"][k] # f.db["users"][k]}
  BY <1>1, <1>2, <1>7 DEF Differ
<1>9. Changed(d, e, "users") = {k \in DOMAIN d["users"] \intersect DOMAIN e["users"] : d["users"][k] # e["users"][k]}
  BY <1>1, <1>2, <1>7 DEF Changed
<1>10. SparedIn(d, f) = {k \in f.spared \intersect DOMAIN d["users"] \intersect DOMAIN f.db["users"] : d["users"][k] # f.db["users"][k]}
  BY DEF SparedIn
<1> QED BY <1>5, <1>6, <1>8, <1>9, <1>10 DEF UsersDiffer, UserRow

\* The rows that differ are those the restore changes.
LEMMA DifferIs ==
  ASSUME NEW d, NEW e, NEW f, NEW t, Agrees(d, e, f, t)
  PROVE  Differ(d, f, t) = Changed(d, e, t)
<1> DEFINE D == View(d, t)
           E == View(e, t)
           F == View(f.db, t)
<1>1. (\A k \in DOMAIN F : k \in DOMAIN E /\ E[k] = F[k]) /\ (\A k \in DOMAIN E \intersect DOMAIN D : k \in DOMAIN F \/ E[k] = D[k])
  BY DEF Agrees
<1>2. /\ Differ(d, f, t) = {k \in DOMAIN F \intersect DOMAIN D : D[k] # F[k]}
      /\ Changed(d, e, t) = {k \in DOMAIN D \intersect DOMAIN E : D[k] # E[k]}
  BY DEF Differ, Changed
<1> HIDE DEF D, E, F
<1> QED BY <1>1, <1>2

\* Keys and monitors say no more than that they are there.
LEMMA NamedAlike ==
  ASSUME NEW d, NEW e, NEW t \in {"keys", "monitors"}
  PROVE  Changed(d, e, t) = {}
<1>1. \A x : \A k \in DOMAIN View(x, t) : View(x, t)[k] = <<>>
  BY NamedText DEF View
<1> QED BY <1>1 DEF Changed

LEMMA ViewFinite ==
  ASSUME NEW d, Schema(d), NEW t \in Tables
  PROVE  IsFiniteSet(DOMAIN View(d, t))
<1> DEFINE A == DOMAIN d[t]
           B == DOMAIN View(d, t)
           g == [i \in A |-> RowKey(d, t, i)]
<1>1. B = {RowKey(d, t, i) : i \in A} /\ IsFiniteSet(A)
  BY ViewKeys, SchemaStates, SchemaFinite DEF Finite
<1>2. g \in [A -> B] /\ \A k \in B : \E i \in A : g[i] = k
  BY <1>1
<1> HIDE DEF A, B, g
<1>3. g \in Surjection(A, B)
  BY <1>2 DEF Surjection
<1> QED BY <1>1, <1>3, FS_Surjection DEF B

LEMMA BothCounted ==
  ASSUME NEW A, NEW B, IsFiniteSet(A), IsFiniteSet(B), A \intersect B = {}
  PROVE  Cardinality(A) \in Nat /\ Cardinality(B) \in Nat /\ Cardinality(A \union B) = Cardinality(A) + Cardinality(B)
<1>1. Cardinality(A \union B) = Cardinality(A) + Cardinality(B) - Cardinality(A \intersect B)
  BY FS_Union
<1>2. Cardinality(A \intersect B) = 0
  BY FS_EmptySet
<1>3. Cardinality(A) \in Nat /\ Cardinality(B) \in Nat
  BY FS_CardinalityType
<1> QED BY <1>1, <1>2, <1>3

\* Two totals that differ only in users.
LEMMA TotalBut ==
  ASSUME NEW f, NEW a, NEW b, NEW n \in Nat,
         \A t \in Tables : t \in f.has => Cardinality(b[t]) \in Nat /\ (t # "users" => Cardinality(a[t]) = Cardinality(b[t])),
         IF "users" \in f.has THEN Cardinality(a["users"]) = Cardinality(b["users"]) + n ELSE n = 0
  PROVE  Total(f, a) = Total(f, b) + n
<1> DEFINE A(t) == IF t \in f.has THEN Cardinality(a[t]) ELSE 0
           B(t) == IF t \in f.has THEN Cardinality(b[t]) ELSE 0
<1>1. \A t \in Tables : B(t) \in Nat /\ A(t) = IF t = "users" THEN B(t) + n ELSE B(t)
  OBVIOUS
<1>2. /\ Total(f, a) = A("groups") + A("tags") + A("systems") + A("talkgroups") + A("units") + A("users") + A("keys") + A("monitors")
      /\ Total(f, b) = B("groups") + B("tags") + B("systems") + B("talkgroups") + B("units") + B("users") + B("keys") + B("monitors")
  BY DEF Total
<1> HIDE DEF A, B
<1> QED BY <1>1, <1>2, TableNames

\* A total of rows told apart by what they say is the number of rows.
LEMMA TotalRows ==
  ASSUME NEW f, NEW d, NEW e, NEW c, \A t \in Tables : Cardinality(DOMAIN d[t] \ DOMAIN e[t]) = IF t \in f.has THEN Cardinality(c[t]) ELSE 0
  PROVE  Total(f, c) = Beyond(d, e)
<1>1. Rows(d, e) = [t \in Tables |-> IF t \in f.has THEN Cardinality(c[t]) ELSE 0]
  BY DEF Rows
<1> QED BY <1>1, TotalIs DEF Beyond

\* What the review of file f says of tables d is what becomes of them.
Reviewed(d, e, f, out) ==
  (\A t \in f.has : Readable(f, t)) =>
    /\ Review(d, f).added = out.created
    /\ Review(d, f).changed = Total(f, [t \in Tables |-> Did(d, e, t)]) + Cardinality(SparedIn(d, f))
    /\ f.mode = "replace" /\ Covers(f) => Review(d, f).removed = out.removed + Cardinality(SparedOut(d, f))

LEMMA ReviewedBy ==
  ASSUME NEW d, Schema(d), NEW e, NEW f, NEW out,
         out.created = Total(f, [t \in Tables |-> DOMAIN View(f.db, t) \ DOMAIN View(d, t)]),
         \A t \in Tables : t \in f.has /\ Readable(f, t) => IF t = "users" THEN UsersDiffer(d, e, f) ELSE Agrees(d, e, f, t),
         (\A t \in f.has : Readable(f, t)) /\ f.mode = "replace" /\ Covers(f) =>
           Total(f, [t \in Tables |-> DOMAIN View(d, t) \ DOMAIN View(f.db, t)]) = out.removed + Cardinality(SparedOut(d, f))
  PROVE  Reviewed(d, e, f, out)
<1> DEFINE said == Review(d, f)
           a == [t \in Tables |-> Differ(d, f, t)]
           b == [t \in Tables |-> Did(d, e, t)]
           n == Cardinality(SparedIn(d, f))
<1>1. /\ said.added = Total(f, [t \in Tables |-> DOMAIN View(f.db, t) \ DOMAIN View(d, t)])
      /\ said.changed = Total(f, a)
      /\ said.removed = Total(f, [t \in Tables |-> DOMAIN View(d, t) \ DOMAIN View(f.db, t)])
  BY DEF Review, Differ
<1>2. ASSUME \A t \in f.has : Readable(f, t) PROVE Total(f, a) = Total(f, b) + n
  <2>1. \A t \in Tables : IsFiniteSet(Did(d, e, t)) /\ Cardinality(Did(d, e, t)) \in Nat
    <3>1. TAKE t \in Tables
    <3>2. Did(d, e, t) \subseteq DOMAIN View(d, t)
      BY DEF Did, Changed
    <3> QED BY <3>2, ViewFinite, FS_Subset, FS_CardinalityType
  <2>2. \A t \in Tables : t \in f.has /\ t # "users" => Differ(d, f, t) = Did(d, e, t)
    BY <1>2, DifferIs, NamedAlike DEF Did
  <2>3. CASE "users" \in f.has
    <3> DEFINE C == Did(d, e, "users")
               S == SparedIn(d, f)
    <3>1. Differ(d, f, "users") = C \union S /\ C \intersect S = {} /\ IsFiniteSet(C)
      BY <1>2, <2>1, <2>3, TableNames DEF UsersDiffer, Did
    <3>2. S \subseteq DOMAIN d["users"] /\ IsFiniteSet(DOMAIN d["users"])
      BY SchemaIs, TableNames DEF SparedIn
    <3> HIDE DEF C, S
    <3>3. IsFiniteSet(S)
      BY <3>2, FS_Subset
    <3>4. Cardinality(S) \in Nat /\ Cardinality(C \union S) = Cardinality(C) + Cardinality(S)
      BY <3>1, <3>3, BothCounted
    <3>5. a["users"] = C \union S /\ b["users"] = C /\ n = Cardinality(S)
      BY <3>1, TableNames DEF C, S
    <3>6. \A t \in Tables : t \in f.has => Cardinality(b[t]) \in Nat /\ (t # "users" => Cardinality(a[t]) = Cardinality(b[t]))
      BY <2>1, <2>2
    <3> HIDE DEF a, b, n
    <3>7. n \in Nat /\ Cardinality(a["users"]) = Cardinality(b["users"]) + n
      BY <3>4, <3>5
    <3> QED BY <2>3, <3>6, <3>7, TotalBut
  <2>4. CASE "users" \notin f.has
    <3>1. n = 0
      BY <2>4, FS_EmptySet DEF SparedIn
    <3>2. \A t \in Tables : t \in f.has => Cardinality(b[t]) \in Nat /\ (t # "users" => Cardinality(a[t]) = Cardinality(b[t]))
      BY <2>1, <2>2
    <3> HIDE DEF a, b, n
    <3> QED BY <2>4, <3>1, <3>2, TotalBut
  <2> QED BY <2>3, <2>4
<1> HIDE DEF said, a
<1> QED BY <1>1, <1>2 DEF Reviewed, said

LEMMA CreatedIs ==
  ASSUME NEW m, NEW d, Schema(d), NEW f, Backup(f), Merged(m, d, f)
  PROVE  Beyond(m.db, d) = Total(f, [t \in Tables |-> DOMAIN View(f.db, t) \ DOMAIN View(d, t)])
<1> DEFINE c(t) == DOMAIN View(f.db, t) \ DOMAIN View(d, t)
<1>1. ASSUME NEW t \in Tables PROVE Cardinality(DOMAIN m.db[t] \ DOMAIN d[t]) = IF t \in f.has THEN Cardinality(c(t)) ELSE 0
  <2>1. SameKeys(d, m.db, t) /\ DOMAIN View(m.db, t) = DOMAIN View(f.db, t) \union DOMAIN View(d, t)
    BY MergedKeys
  <2>2. Schema(m.db)
    BY DEF Merged, MergeOK
  <2>3. Cardinality(DOMAIN m.db[t] \ DOMAIN d[t]) = Cardinality(DOMAIN View(m.db, t) \ DOMAIN View(d, t))
    BY <2>1, <2>2, KeysBeyond
  <2>4. DOMAIN View(m.db, t) \ DOMAIN View(d, t) = c(t)
    BY <2>1
  <2>5. t \notin f.has => c(t) = {}
    <3>1. ASSUME t \notin f.has PROVE DOMAIN View(f.db, t) = {}
      <4>1. DOMAIN f.db[t] = {}
        BY <3>1 DEF Backup
      <4>2. Stated(f.db, t) = {}
        BY <4>1 DEF Stated
      <4>3. DOMAIN View(f.db, t) = {RowKey(f.db, t, i) : i \in Stated(f.db, t)}
        BY ViewKeys
      <4> QED BY <4>2, <4>3
    <3> QED BY <3>1
  <2> HIDE DEF c
  <2> QED BY <2>3, <2>4, <2>5, FS_EmptySet
<1> DEFINE a == [t \in Tables |-> c(t)]
<1>2. \A t \in Tables : Cardinality(DOMAIN m.db[t] \ DOMAIN d[t]) = IF t \in f.has THEN Cardinality(a[t]) ELSE 0
  BY <1>1
<1> HIDE DEF c
<1> HIDE DEF a
<1>3. Total(f, a) = Beyond(m.db, d)
  BY <1>2, TotalRows
<1> QED BY <1>3 DEF a, c

LEMMA RemovedIs ==
  ASSUME NEW m, NEW d, Schema(d), NEW f, Backup(f), Merged(m, d, f), NEW e, Schema(e), Replaced(m, e, f),
         \A t \in f.has : Readable(f, t), LeftAlone(m.db, e, f)
  PROVE  Total(f, [t \in Tables |-> DOMAIN View(d, t) \ DOMAIN View(f.db, t)]) = Beyond(m.db, e) + Cardinality(SparedOut(d, f))
<1> DEFINE a == [t \in Tables |-> DOMAIN View(d, t) \ DOMAIN View(f.db, t)]
           b == [t \in Tables |-> DOMAIN View(m.db, t) \ DOMAIN View(e, t)]
           n == Cardinality(SparedOut(d, f))
<1>1. \A t \in Tables : t \in f.has =>
        /\ Cardinality(DOMAIN m.db[t] \ DOMAIN e[t]) = Cardinality(b[t]) /\ Cardinality(b[t]) \in Nat
        /\ a[t] = b[t] \union IF t = "users" THEN SparedOut(d, f) ELSE {}
  <2>1. SUFFICES ASSUME NEW t \in Tables, t \in f.has
                 PROVE  /\ Cardinality(DOMAIN m.db[t] \ DOMAIN e[t]) = Cardinality(b[t]) /\ Cardinality(b[t]) \in Nat
                        /\ a[t] = b[t] \union IF t = "users" THEN SparedOut(d, f) ELSE {}
    OBVIOUS
  <2>2. DOMAIN View(m.db, t) = DOMAIN View(f.db, t) \union DOMAIN View(d, t) /\ Schema(m.db)
    <3>1. Schema(m.db)
      BY DEF Merged, MergeOK
    <3> QED BY <3>1, MergedKeys
  <2>3. /\ SameKeys(e, m.db, t)
        /\ DOMAIN View(e, t) = DOMAIN View(f.db, t) \union IF t = "users" THEN f.spared \intersect DOMAIN View(d, t) ELSE {}
    BY <2>1, ReplacedKeys
  <2>4. Cardinality(DOMAIN m.db[t] \ DOMAIN e[t]) = Cardinality(DOMAIN View(m.db, t) \ DOMAIN View(e, t))
    BY <2>3, <2>2, KeysBeyond
  <2>5. Cardinality(DOMAIN m.db[t] \ DOMAIN e[t]) \in Nat
    BY <2>2, SchemaFinite, CountOf DEF Finite
  <2>6. t = "users" => SparedOut(d, f) = (f.spared \intersect DOMAIN View(d, t)) \ DOMAIN View(f.db, t)
    BY <2>1, NamedKeys DEF SparedOut
  <2> QED BY <2>2, <2>3, <2>4, <2>5, <2>6
<1>2. Total(f, b) = Beyond(m.db, e)
  <2>1. ASSUME NEW t \in Tables, t \notin f.has PROVE Cardinality(DOMAIN m.db[t] \ DOMAIN e[t]) = 0
    <3>1. DOMAIN m.db[t] \ DOMAIN e[t] = {}
      BY <2>1 DEF LeftAlone
    <3> QED BY <3>1, FS_EmptySet
  <2>2. \A t \in Tables : Cardinality(DOMAIN m.db[t] \ DOMAIN e[t]) = IF t \in f.has THEN Cardinality(b[t]) ELSE 0
    BY <1>1, <2>1
  <2> HIDE DEF b
  <2> QED BY <2>2, TotalRows
<1>3. CASE "users" \in f.has
  <2>1. b["users"] \intersect SparedOut(d, f) = {} /\ a["users"] = b["users"] \union SparedOut(d, f)
    <3>1. DOMAIN View(e, "users") = DOMAIN View(f.db, "users") \union (f.spared \intersect DOMAIN View(d, "users"))
      <4>1. "users" \in Tables /\ Readable(f, "users")
        BY <1>3, TableNames
      <4> QED BY <1>3, <4>1, ReplacedKeys
    <3>2. SparedOut(d, f) \subseteq f.spared \intersect DOMAIN View(d, "users")
      BY NamedKeys DEF SparedOut
    <3> QED BY <1>1, <1>3, <3>1, <3>2, TableNames
  <2>2. IsFiniteSet(SparedOut(d, f)) /\ IsFiniteSet(b["users"])
    <3>1. SparedOut(d, f) \subseteq DOMAIN d["users"] /\ IsFiniteSet(DOMAIN d["users"])
      BY SchemaIs, TableNames DEF SparedOut
    <3>2. b["users"] \subseteq DOMAIN View(m.db, "users") /\ IsFiniteSet(DOMAIN View(m.db, "users"))
      BY ViewFinite, TableNames DEF Merged, MergeOK
    <3> QED BY <3>1, <3>2, FS_Subset
  <2> DEFINE B == b["users"]
             S == SparedOut(d, f)
  <2>3. B \intersect S = {} /\ a["users"] = B \union S /\ IsFiniteSet(S) /\ IsFiniteSet(B) /\ n = Cardinality(S) /\ B = b["users"]
    BY <2>1, <2>2
  <2>4. \A t \in Tables : t \in f.has => Cardinality(b[t]) \in Nat /\ (t # "users" => Cardinality(a[t]) = Cardinality(b[t]))
    BY <1>1
  <2> HIDE DEF a, b, n, B, S
  <2>5. n \in Nat /\ Cardinality(a["users"]) = Cardinality(b["users"]) + n
    BY <2>3, BothCounted
  <2>6. Total(f, a) = Total(f, b) + n
    BY <1>3, <2>4, <2>5, TotalBut
  <2> QED BY <1>2, <2>6 DEF a, n
<1>4. CASE "users" \notin f.has
  <2>1. n = 0
    BY <1>4, FS_EmptySet DEF SparedOut
  <2>2. \A t \in Tables : t \in f.has => Cardinality(b[t]) \in Nat /\ (t # "users" => Cardinality(a[t]) = Cardinality(b[t]))
    BY <1>1
  <2> HIDE DEF a, b, n
  <2>3. Total(f, a) = Total(f, b) + n
    BY <1>4, <2>1, <2>2, TotalBut
  <2> QED BY <1>2, <2>3 DEF a, n
<1> QED BY <1>3, <1>4

LEMMA FileReviewed ==
  ASSUME NEW d, Schema(d), NEW f, Backup(f), NEW out, out = ImportConfig(d, f), out.ok = TRUE
  PROVE  Reviewed(d, out.db, f, out)
<1> DEFINE m == Merge(d, f)
           e == out.db
<1>1. Merged(m, d, f) /\ Grown(d, m) /\ m = Merge(d, f)
  BY FileMerged, MergeGrows DEF Backup
<1> HIDE DEF m
<1>2. m.created = Total(f, [t \in Tables |-> DOMAIN View(f.db, t) \ DOMAIN View(d, t)])
  BY <1>1, CreatedIs DEF Grown
<1>3. SaysTheFile(d, e, f)
  BY FileRestored
<1>4. \A t \in Tables \ {"users"} : Readable(f, t) => Agrees(d, e, f, t)
  BY <1>3, SaidAgrees DEF SaysTheFile
<1>5. CASE f.mode = "replace"
  <2>1. out = removeAbsent(m, f)
    BY <1>1, <1>5 DEF ImportConfig
  <2>2. /\ Replaced(m, e, f) /\ RemoveOK(out)
        /\ out.created = m.created /\ out.removed = Beyond(m.db, e) /\ (Covers(f) => LeftAlone(m.db, e, f))
    <3>1. Replaced(m, e, f) /\ RemoveOK(out) /\ Tallied(m, out, f)
      BY <1>1, <2>1, FileReplaced
    <3> QED BY <3>1 DEF Tallied
  <2>3. Schema(e)
    BY <2>2 DEF RemoveOK
  <2> HIDE DEF e
  <2>4. "users" \in f.has => UsersDiffer(d, e, f)
    BY <1>1, <2>2, <2>3, UsersReviewed
  <2>5. (\A t \in f.has : Readable(f, t)) /\ Covers(f) =>
          Total(f, [t \in Tables |-> DOMAIN View(d, t) \ DOMAIN View(f.db, t)]) = out.removed + Cardinality(SparedOut(d, f))
    BY <1>1, <2>2, <2>3, RemovedIs
  <2>6. \A t \in Tables : t \in f.has /\ Readable(f, t) => IF t = "users" THEN UsersDiffer(d, e, f) ELSE Agrees(d, e, f, t)
    BY <1>4, <2>4
  <2>7. Reviewed(d, e, f, out)
    BY <1>2, <2>2, <2>5, <2>6, ReviewedBy
  <2> QED BY <2>7 DEF e
<1>6. CASE f.mode # "replace"
  <2>1. out = m
    BY <1>1, <1>6 DEF ImportConfig
  <2>2. e = m.db /\ Schema(e)
    BY <1>1, <2>1 DEF Merged, MergeOK
  <2> HIDE DEF e
  <2>3. "users" \in f.has => UsersDiffer(d, e, f)
    BY <1>1, <2>2, UsersReviewed
  <2>4. \A t \in Tables : t \in f.has /\ Readable(f, t) => IF t = "users" THEN UsersDiffer(d, e, f) ELSE Agrees(d, e, f, t)
    BY <1>4, <2>3
  <2>5. Reviewed(d, e, f, out)
    BY <1>2, <1>6, <2>1, <2>4, ReviewedBy
  <2> QED BY <2>5 DEF e
<1> QED BY <1>5, <1>6

\* What a restore under way has in hand, and the snapshot, are backups.
Restorers == {"ImportConfig", "Undo"}
Restoring(q) == q.pc \in {"save", "restore"} /\ q.ask.op \in Restorers
Copies ==
  /\ \A r \in Requests : Restoring(requests[r]) => Backup(requests[r].read)
  /\ snapshot.has # {} => Backup(snapshot)

\* A restore of file f that takes tables d to tables e.
Made(d, e, f) == SaysTheFile(d, e, f) /\ Reviewed(d, e, f, ImportConfig(d, f))

\* A step that keeps them, and restores what a file says if it restores one.
Says == \A x \in Requests : Restores(x) => Made(db, db', requests[x].read)

LEMMA CopiesPrimed ==
  ASSUME \A x \in Requests : Restoring(requests'[x]) => Backup(requests'[x].read),
         snapshot'.has # {} => Backup(snapshot')
  PROVE  Copies'
BY Zenon DEF Copies, Restoring, Backup, Database

LEMMA ExportIsBackup ==
  ASSUME NEW d, Schema(d)
  PROVE  Backup(exportConfigData(d))
<1> DEFINE f == exportConfigData(d)
<1>1. f.has = Tables /\ f.db = d
  BY DEF exportConfigData
<1>2. /\ Database(d)
      /\ \A t \in IdTables : \A i, j \in DOMAIN d[t] : UniqueKey(t, d[t][i]) = UniqueKey(t, d[t][j]) => i = j
      /\ "talkgroups" \in IdTables
      /\ \A i \in DOMAIN d["talkgroups"] : d["talkgroups"][i].sys \in DOMAIN d.systems
  BY SchemaIs, TableNames
<1> HIDE DEF f
<1>3. \A t \in Tables \ f.has : DOMAIN f.db[t] = {}
  BY <1>1
<1>4. \A m \in DOMAIN d.monitors : LET tg == d.monitors[m].tg IN
        tg \in DOMAIN d.talkgroups => d.talkgroups[tg].sys \in DOMAIN d.systems
  BY <1>2
<1>5. Backup(f)
  BY <1>1, <1>2, <1>3, <1>4 DEF Backup
<1> QED BY <1>5 DEF f

\* The other requests stay where they are.
LEMMA OthersStay ==
  ASSUME Inv, NEW r \in Requests, NEW q, Become(r, q) \/ \E d : Write(r, d, q), NEW x \in Requests, x # r
  PROVE  requests'[x].pc = requests[x].pc /\ requests'[x].ask = requests[x].ask /\ requests'[x].read = requests[x].read
<1> DEFINE old == requests[x]
<1>1. DOMAIN requests = Requests /\ DOMAIN old = Fields /\ (old.pc = "idle" => old = Idle)
  BY RequestIs DEF Inv, RequestOK
<1>2. CASE Become(r, q)
  BY <1>1, <1>2 DEF Become
<1>3. CASE \E d : Write(r, d, q)
  <2>1. PICK d : Write(r, d, q)
    BY <1>3
  <2>2. CASE old.pc = "idle"
    <3>1. requests'[x] = Idle
      BY <2>1, <2>2 DEF Write
    <3> QED BY <1>1, <2>2, <3>1
  <2>3. CASE old.pc # "idle"
    <3> DEFINE missed == old.missed \union (Facts(d) \ Facts(db))
    <3>1. requests'[x] = [old EXCEPT !.missed = missed]
      BY <2>1, <2>3 DEF Write
    <3> HIDE DEF missed
    <3> QED BY <1>1, <3>1 DEF Fields
  <2> QED BY <2>2, <2>3
<1> QED BY <1>2, <1>3

\* The request that takes the step goes where it says.
LEMMA OwnPlace ==
  ASSUME Inv, NEW r \in Requests, requests[r].pc # "idle", NEW q, DOMAIN q = Fields,
         Become(r, q) \/ \E d : Write(r, d, q)
  PROVE  requests'[r].pc = q.pc /\ requests'[r].ask = q.ask /\ requests'[r].read = q.read
<1>1. CASE Become(r, q)
  BY <1>1 DEF Become, Inv
<1>2. CASE \E d : Write(r, d, q)
  <2>1. PICK d : Write(r, d, q)
    BY <1>2
  <2>2. \A f \in Fields \ {"untold"} : requests'[r][f] = q[f]
    BY <2>1, Written
  <2> QED BY <2>2 DEF Fields
<1> QED BY <1>1, <1>2

LEMMA CopiesStay ==
  ASSUME Inv, Copies, NEW r \in Requests, requests[r].pc # "idle", NEW q, DOMAIN q = Fields,
         Become(r, q) \/ \E d : Write(r, d, q), Restoring(q) => Backup(q.read),
         snapshot'.has # {} => Backup(snapshot'),
         requests[r].pc = "restore" /\ requests[r].ask.op \in Restorers /\ q.pc = "cfg" =>
           Made(db, db', requests[r].read)
  PROVE  Copies' /\ Says
<1>1. requests'[r].pc = q.pc /\ requests'[r].ask = q.ask /\ requests'[r].read = q.read
  BY OwnPlace
<1>2. \A x \in Requests : x # r =>
        requests'[x].pc = requests[x].pc /\ requests'[x].ask = requests[x].ask /\ requests'[x].read = requests[x].read
  BY OthersStay
<1>3. ASSUME NEW x \in Requests, Restoring(requests'[x]) PROVE Backup(requests'[x].read)
  <2>1. CASE x = r
    BY <1>1, <1>3, <2>1 DEF Restoring
  <2>2. CASE x # r
    BY <1>2, <1>3, <2>2 DEF Restoring, Copies
  <2> QED BY <2>1, <2>2
<1>4. ASSUME NEW x \in Requests, Restores(x) PROVE Made(db, db', requests[x].read)
  <2>1. requests[x].pc = "restore" /\ requests[x].ask.op \in Restorers /\ requests'[x].pc = "cfg"
    BY <1>4 DEF Restores, AtOneOf, Restorers
  <2>2. x = r
    BY <1>2, <2>1
  <2> QED BY <1>1, <2>1, <2>2
<1>5. Copies'
  BY <1>3, CopiesPrimed
<1> QED BY <1>4, <1>5 DEF Says

\* A request that restores nothing, now or next.
LEMMA NoRestore ==
  ASSUME Inv, Copies, NEW r \in Requests, requests[r].pc \notin {"idle", "restore"}, NEW q, DOMAIN q = Fields,
         Become(r, q) \/ \E d : Write(r, d, q), ~Restoring(q), snapshot' = snapshot
  PROVE  Copies' /\ Says
<1>1. snapshot'.has # {} => Backup(snapshot')
  BY DEF Copies
<1> QED BY <1>1, CopiesStay

LEMMA StopRestores ==
  ASSUME Inv, Copies, NEW r \in Requests, requests[r].pc # "idle", NEW d, Stop(r, d)
  PROVE  Copies' /\ Says
<1>1. Write(r, d, Idle) /\ snapshot' = snapshot
  BY DEF Stop
<1>2. snapshot'.has # {} => Backup(snapshot')
  BY <1>1 DEF Copies
<1>3. DOMAIN Idle = Fields /\ Idle.pc = "idle"
  BY IdleIs
<1>4. ~Restoring(Idle)
  BY <1>3 DEF Restoring
<1> QED BY <1>1, <1>2, <1>3, <1>4, CopiesStay

\* One that was asked for something else.
Asked(r) == requests[r].pc \notin {"idle", "restore"} /\ requests[r].ask.op \notin Restorers

LEMMA AskedElse ==
  ASSUME Inv, Copies, NEW r \in Requests, Asked(r), NEW q, DOMAIN q = Fields, q.ask = requests[r].ask,
         Become(r, q) \/ \E d : Write(r, d, q), snapshot' = snapshot
  PROVE  Copies' /\ Says
<1>1. ~Restoring(q)
  BY DEF Asked, Restoring
<1> QED BY <1>1, NoRestore DEF Asked

LEMMA AskedPlace ==
  ASSUME Inv, Copies, NEW r \in Requests, Asked(r), NEW q, NEW pc, q = [requests[r] EXCEPT !.pc = pc],
         Become(r, q) \/ \E d : Write(r, d, q), snapshot' = snapshot
  PROVE  Copies' /\ Says
<1>1. DOMAIN requests[r] = Fields
  BY RequestIs
<1>2. DOMAIN q = Fields /\ q.ask = requests[r].ask
  BY <1>1 DEF Fields
<1> QED BY <1>2, AskedElse

LEMMA AskedRow ==
  ASSUME Inv, Copies, NEW r \in Requests, Asked(r), NEW pc, NEW d, Write(r, d, NextOr(requests[r], pc)), snapshot' = snapshot
  PROVE  Copies' /\ Says
<1> DEFINE q == NextOr(requests[r], pc)
<1>1. DOMAIN requests[r] = Fields
  BY RequestIs
<1>2. DOMAIN q = Fields /\ q.ask = requests[r].ask
  BY <1>1 DEF Fields, NextOr
<1>3. Write(r, d, q)
  OBVIOUS
<1> HIDE DEF q
<1> QED BY <1>2, <1>3, AskedElse

LEMMA SaveRestores ==
  ASSUME Inv, Copies, NEW r \in Requests, Asked(r), NEW t, NEW id, NEW row, Save(r, t, id, row)
  PROVE  Copies' /\ Says
<1> DEFINE x == <<t, IF id = NoId THEN db.seq[t] + 1 ELSE id>>
           q == [requests[r] EXCEPT !.pc = "fetch", !.read = x]
<1>1. CASE Return(r)
  BY <1>1, StopRestores DEF Return, Asked
<1>2. CASE Write(r, Put(db, t, id, row), q) /\ UNCHANGED Rest
  <2>1. DOMAIN requests[r] = Fields /\ snapshot' = snapshot
    BY <1>2, RequestIs DEF Rest
  <2> HIDE DEF x
  <2>2. DOMAIN q = Fields /\ q.ask = requests[r].ask
    BY <2>1 DEF Fields
  <2>3. \E d : Write(r, d, q)
    BY <1>2
  <2> HIDE DEF q
  <2> QED BY <2>1, <2>2, <2>3, AskedElse
<1> QED BY <1>1, <1>2 DEF Save

LEMMA AdminRestores ==
  ASSUME Inv, Copies, NEW r \in Requests,
         \/ SystemsCreate(r) \/ SystemsUpdate(r) \/ SystemsDelete(r) \/ setBlocked(r)
         \/ TalkgroupsCreate(r) \/ TalkgroupsUpdate(r) \/ TalkgroupsDelete(r) \/ TalkgroupsBulk(r)
         \/ LabelsCreate(r) \/ LabelsUpdate(r) \/ MoveBeforeDelete(r) \/ LabelsDelete(r)
         \/ UnitsCreate(r) \/ UnitsUpdate(r) \/ UnitsDelete(r)
  PROVE  Copies' /\ Says
<1> DEFINE q == requests[r]
           a == q.ask
<1>1. ASSUME NEW d, Stop(r, d), Asked(r) PROVE Copies' /\ Says
  BY <1>1, StopRestores DEF Asked
<1>2. ASSUME Return(r), Asked(r) PROVE Copies' /\ Says
  BY <1>1, <1>2 DEF Return
<1>3. ASSUME NEW d, NEW pc, Write(r, d, [requests[r] EXCEPT !.pc = pc]), UNCHANGED Rest, Asked(r) PROVE Copies' /\ Says
  <2> DEFINE p == [requests[r] EXCEPT !.pc = pc]
  <2>1. p = [requests[r] EXCEPT !.pc = pc] /\ (\E e : Write(r, e, p)) /\ snapshot' = snapshot
    BY <1>3 DEF Rest
  <2> HIDE DEF p
  <2> QED BY <1>3, <2>1, AskedPlace
<1>4. ASSUME NEW d, NEW pc, Write(r, d, NextOr(requests[r], pc)), UNCHANGED Rest, Asked(r) PROVE Copies' /\ Says
  BY <1>4, AskedRow DEF Rest
<1>5. CASE SystemsCreate(r)
  <2>1. Asked(r) /\ Save(r, "systems", NoId, a.row)
    BY <1>5 DEF SystemsCreate, At, Asked, Restorers
  <2> QED BY <2>1, SaveRestores
<1>6. CASE SystemsUpdate(r)
  <2>1. Asked(r) /\ Save(r, "systems", a.id, a.row)
    BY <1>6 DEF SystemsUpdate, At, Asked, Restorers
  <2> QED BY <2>1, SaveRestores
<1>7. CASE SystemsDelete(r)
  <2>1. Asked(r) /\ (Return(r) \/ (Write(r, DropSystems(db, {a.id}), [requests[r] EXCEPT !.pc = "cfg"]) /\ UNCHANGED Rest))
    BY <1>7 DEF SystemsDelete, At, Asked, Restorers
  <2> QED BY <1>2, <1>3, <2>1
<1>8. CASE setBlocked(r)
  <2>1. Asked(r) /\ \E d : Stop(r, d)
    BY <1>8 DEF setBlocked, AtOneOf, Asked, Restorers
  <2> QED BY <1>1, <2>1
<1>9. CASE TalkgroupsCreate(r)
  <2>1. Asked(r) /\ Save(r, "talkgroups", NoId, a.row)
    BY <1>9 DEF TalkgroupsCreate, At, Asked, Restorers
  <2> QED BY <2>1, SaveRestores
<1>10. CASE TalkgroupsUpdate(r)
  <2>1. Asked(r) /\ Save(r, "talkgroups", a.id, InItsSystem("talkgroups", a.id, a.row))
    BY <1>10 DEF TalkgroupsUpdate, At, Asked, Restorers
  <2> QED BY <2>1, SaveRestores
<1>11. CASE TalkgroupsDelete(r)
  <2>1. Asked(r) /\ (Return(r) \/ (Write(r, Drop(db, "talkgroups", {Head(q.left)}), NextOr(requests[r], "cfg")) /\ UNCHANGED Rest))
    BY <1>11 DEF TalkgroupsDelete, At, Asked, Restorers
  <2> QED BY <1>2, <1>4, <2>1
<1>12. CASE TalkgroupsBulk(r)
  <2>1. Asked(r) /\ (Return(r) \/ ((\E d : Write(r, d, NextOr(requests[r], "cfg"))) /\ UNCHANGED Rest))
    BY <1>12 DEF TalkgroupsBulk, At, Asked, Restorers
  <2> QED BY <1>2, <1>4, <2>1
<1>13. CASE LabelsCreate(r)
  <2>1. Asked(r) /\ Save(r, a.kind, NoId, [label |-> a.label])
    BY <1>13 DEF LabelsCreate, At, Asked, Restorers
  <2> QED BY <2>1, SaveRestores
<1>14. CASE LabelsUpdate(r)
  <2>1. Asked(r) /\ Save(r, a.kind, a.id, [label |-> a.label])
    BY <1>14 DEF LabelsUpdate, At, Asked, Restorers
  <2> QED BY <2>1, SaveRestores
<1>15. CASE MoveBeforeDelete(r)
  <2>1. Asked(r) /\ (Return(r) \/ ((\E d : Write(r, d, [requests[r] EXCEPT !.pc = "write"])) /\ UNCHANGED Rest))
    BY <1>15 DEF MoveBeforeDelete, At, Asked, Restorers
  <2> QED BY <1>2, <1>3, <2>1
<1>16. CASE LabelsDelete(r)
  <2>1. Asked(r) /\ (Return(r) \/ ((\E d : Write(r, d, [requests[r] EXCEPT !.pc = "cfg"])) /\ UNCHANGED Rest))
    BY <1>16 DEF LabelsDelete, At, Asked, Restorers
  <2> QED BY <1>2, <1>3, <2>1
<1>17. CASE UnitsCreate(r)
  <2>1. Asked(r) /\ Save(r, "units", NoId, a.row)
    BY <1>17 DEF UnitsCreate, At, Asked, Restorers
  <2> QED BY <2>1, SaveRestores
<1>18. CASE UnitsUpdate(r)
  <2>1. Asked(r) /\ Save(r, "units", a.id, InItsSystem("units", a.id, a.row))
    BY <1>18 DEF UnitsUpdate, At, Asked, Restorers
  <2> QED BY <2>1, SaveRestores
<1>19. CASE UnitsDelete(r)
  <2>1. Asked(r) /\ \E d : Stop(r, d)
    BY <1>19 DEF UnitsDelete, At, Asked, Restorers
  <2> QED BY <1>1, <2>1
<1> QED BY <1>5, <1>6, <1>7, <1>8, <1>9, <1>10, <1>11, <1>12, <1>13, <1>14, <1>15, <1>16, <1>17, <1>18, <1>19

LEMMA ImportsRestore ==
  ASSUME Inv, Copies, NEW r \in Requests,
         \/ FindRow(r) \/ TalkgroupsImport(r) \/ RadioReferenceApply(r) \/ ImportTalkgroups(r)
         \/ UnitsImport(r) \/ ImportUnits(r) \/ labelsImport(r) \/ importLabelOnly(r)
  PROVE  Copies' /\ Says
<1> DEFINE q == requests[r]
<1>1. ASSUME NEW d, Stop(r, d), Asked(r) PROVE Copies' /\ Says
  BY <1>1, StopRestores DEF Asked
<1>2. ASSUME Return(r), Asked(r) PROVE Copies' /\ Says
  BY <1>1, <1>2 DEF Return
<1>3. ASSUME NEW d, NEW pc, Write(r, d, NextOr(requests[r], pc)), UNCHANGED Rest, Asked(r) PROVE Copies' /\ Says
  BY <1>3, AskedRow DEF Rest
<1>4. DOMAIN q = Fields
  BY RequestIs
<1>5. ASSUME NEW pc PROVE DOMAIN NextOr(q, pc) = Fields /\ NextOr(q, pc).ask = q.ask
  BY <1>4 DEF NextOr, Fields
<1>6. CASE FindRow(r)
  <2>1. Asked(r) /\ UNCHANGED Rest /\ \E x : Become(r, [q EXCEPT !.pc = "row", !.found = x])
    BY <1>6 DEF FindRow, AtOneOf, Asked, Restorers, TalkgroupImports, UnitImports
  <2>2. PICK x : Become(r, [q EXCEPT !.pc = "row", !.found = x])
    BY <2>1
  <2> DEFINE p == [q EXCEPT !.pc = "row", !.found = x]
  <2>3. DOMAIN p = Fields /\ p.ask = requests[r].ask
    BY <1>4 DEF Fields
  <2>4. Become(r, p) /\ snapshot' = snapshot
    BY <2>1, <2>2 DEF Rest
  <2> HIDE DEF p
  <2> QED BY <2>1, <2>3, <2>4, AskedElse
<1>7. CASE TalkgroupsImport(r)
  <2>1. Asked(r) /\ \/ \E d : Stop(r, d)
                    \/ (\E d, x : Write(r, d, [NextOr(q, "cfg") EXCEPT !.known = x])) /\ UNCHANGED Rest
    BY <1>7, Zenon DEF TalkgroupsImport, At, Asked, Restorers
  <2>2. CASE \E d : Stop(r, d)
    BY <1>1, <2>1, <2>2
  <2>3. CASE (\E d, x : Write(r, d, [NextOr(q, "cfg") EXCEPT !.known = x])) /\ UNCHANGED Rest
    <3>1. PICK d, x : Write(r, d, [NextOr(q, "cfg") EXCEPT !.known = x])
      BY <2>3
    <3> DEFINE next == NextOr(q, "cfg")
               p == [next EXCEPT !.known = x]
    <3>2. DOMAIN next = Fields /\ next.ask = requests[r].ask
      BY <1>5
    <3> HIDE DEF next
    <3>3. DOMAIN p = Fields /\ p.ask = requests[r].ask
      BY <3>2 DEF Fields
    <3>4. Write(r, d, p) /\ snapshot' = snapshot
      BY <2>3, <3>1 DEF Rest, next
    <3> HIDE DEF p
    <3> QED BY <2>1, <3>3, <3>4, AskedElse
  <2> QED BY <2>1, <2>2, <2>3
<1>8. CASE RadioReferenceApply(r)
  <2>1. Asked(r) /\ (\E d : Write(r, d, NextOr(q, "silent"))) /\ UNCHANGED Rest
    BY <1>8, Zenon DEF RadioReferenceApply, At, Asked, Restorers
  <2> QED BY <1>3, <2>1
<1>9. CASE ImportTalkgroups(r)
  <2>1. Asked(r) /\ \/ \E d : Stop(r, d)
                    \/ (\E d : Write(r, d, NextOr(q, "silent"))) /\ UNCHANGED Rest
    BY <1>9, Zenon DEF ImportTalkgroups, At, Asked, Restorers
  <2> QED BY <1>1, <1>3, <2>1
<1>10. CASE UnitsImport(r)
  <2>1. Asked(r) /\ \/ Return(r)
                    \/ (\E d : Write(r, d, NextOr(q, "silent"))) /\ UNCHANGED Rest
    BY <1>10 DEF UnitsImport, At, Asked, Restorers
  <2> QED BY <1>2, <1>3, <2>1
<1>11. CASE ImportUnits(r)
  <2>1. Asked(r) /\ \/ Return(r)
                    \/ (\E d : Write(r, d, NextOr(q, "silent"))) /\ UNCHANGED Rest
    BY <1>11, Zenon DEF ImportUnits, At, Asked, Restorers
  <2> QED BY <1>2, <1>3, <2>1
<1>12. CASE labelsImport(r)
  <2> DEFINE next == NextOr(q, "silent")
  <2>1. Asked(r) /\ \/ Return(r)
                    \/ (\E d : Write(r, d, [next EXCEPT !.read = @ \union {Head(q.left)}])) /\ UNCHANGED Rest
    BY <1>12 DEF labelsImport, At, Asked, Restorers
  <2>2. CASE Return(r)
    BY <1>2, <2>1, <2>2
  <2>3. CASE (\E d : Write(r, d, [next EXCEPT !.read = @ \union {Head(q.left)}])) /\ UNCHANGED Rest
    <3> DEFINE p == [next EXCEPT !.read = @ \union {Head(q.left)}]
    <3>1. DOMAIN next = Fields /\ next.ask = requests[r].ask
      BY <1>5
    <3>2. (\E d : Write(r, d, p)) /\ snapshot' = snapshot
      BY <2>3 DEF Rest
    <3> HIDE DEF next
    <3>3. DOMAIN p = Fields /\ p.ask = requests[r].ask
      BY <3>1 DEF Fields
    <3> HIDE DEF p
    <3> QED BY <2>1, <3>2, <3>3, AskedElse
  <2> QED BY <2>1, <2>2, <2>3
<1>13. CASE importLabelOnly(r)
  <2>1. Asked(r) /\ (\E d : Write(r, d, NextOr(q, "silent"))) /\ UNCHANGED Rest
    BY <1>13 DEF importLabelOnly, At, Asked, Restorers
  <2> QED BY <1>3, <2>1
<1> QED BY <1>6, <1>7, <1>8, <1>9, <1>10, <1>11, <1>12, <1>13

LEMMA UploadsRestore ==
  ASSUME Inv, Copies, NEW r \in Requests, NewSystem(r) \/ FindTalkgroup(r) \/ ResolveLabels(r) \/ SaveTalkgroup(r)
  PROVE  Copies' /\ Says
<1> DEFINE q == requests[r]
<1>1. DOMAIN q = Fields
  BY RequestIs
<1>2. ASSUME Return(r), Asked(r) PROVE Copies' /\ Says
  BY <1>2, StopRestores DEF Return, Asked
<1>3. ASSUME NEW p, DOMAIN p = Fields, p.ask = q.ask, Become(r, p) \/ \E d : Write(r, d, p), UNCHANGED Rest, Asked(r)
      PROVE  Copies' /\ Says
  BY <1>3, AskedElse DEF Rest
<1>4. CASE NewSystem(r)
  <2> DEFINE x == [sys |-> db.seq.systems + 1, auto |-> TRUE]
             p == [q EXCEPT !.pc = "cfg", !.after = "find", !.read = x]
  <2>1. Asked(r) /\ (Return(r) \/ ((\E d : Write(r, d, p)) /\ UNCHANGED Rest))
    BY <1>4 DEF NewSystem, At, Asked, Restorers
  <2> HIDE DEF x
  <2>2. DOMAIN p = Fields /\ p.ask = q.ask
    BY <1>1 DEF Fields
  <2> HIDE DEF p
  <2> QED BY <1>2, <1>3, <2>1, <2>2
<1>5. CASE FindTalkgroup(r)
  <2>1. Asked(r) /\ (Return(r) \/ ((\E x : Become(r, [q EXCEPT !.pc = "resolve", !.found = x])) /\ UNCHANGED Rest))
    BY <1>5 DEF FindTalkgroup, At, Asked, Restorers
  <2>2. ASSUME NEW x, Become(r, [q EXCEPT !.pc = "resolve", !.found = x]), UNCHANGED Rest PROVE Copies' /\ Says
    <3> DEFINE p == [q EXCEPT !.pc = "resolve", !.found = x]
    <3>1. DOMAIN p = Fields /\ p.ask = q.ask
      BY <1>1 DEF Fields
    <3>2. Become(r, p)
      BY <2>2
    <3> HIDE DEF p
    <3> QED BY <1>3, <2>1, <2>2, <3>1, <3>2
  <2> QED BY <1>2, <2>1, <2>2
<1>6. CASE ResolveLabels(r)
  <2>1. Asked(r) /\ (\E d, x : Write(r, d, [q EXCEPT !.pc = "save", !.known = x])) /\ UNCHANGED Rest
    BY <1>6, Zenon DEF ResolveLabels, At, Asked, Restorers
  <2>2. ASSUME NEW d, NEW x, Write(r, d, [q EXCEPT !.pc = "save", !.known = x]), UNCHANGED Rest PROVE Copies' /\ Says
    <3> DEFINE p == [q EXCEPT !.pc = "save", !.known = x]
    <3>1. DOMAIN p = Fields /\ p.ask = q.ask
      BY <1>1 DEF Fields
    <3>2. Write(r, d, p)
      BY <2>2
    <3> HIDE DEF p
    <3> QED BY <1>3, <2>1, <2>2, <3>1, <3>2
  <2> QED BY <2>1, <2>2
<1>7. CASE SaveTalkgroup(r)
  <2> DEFINE p == [q EXCEPT !.pc = "cfg", !.after = "done"]
  <2>1. Asked(r) /\ (Return(r) \/ ((\E d : Write(r, d, p)) /\ UNCHANGED Rest))
    BY <1>7 DEF SaveTalkgroup, At, Asked, Restorers
  <2>2. DOMAIN p = Fields /\ p.ask = q.ask
    BY <1>1 DEF Fields
  <2> HIDE DEF p
  <2> QED BY <1>2, <1>3, <2>1, <2>2
<1> QED BY <1>4, <1>5, <1>6, <1>7

LEMMA BroadcastsRestore ==
  ASSUME Inv, Copies, NEW r \in Requests,
         EndImport(r) \/ Refetch(r) \/ Build(r) \/ Send(r) \/ BuildScoped(r) \/ Deliver(r) \/ Fail(r)
  PROVE  Copies' /\ Says
<1> DEFINE q == requests[r]
<1>1. DOMAIN q = Fields /\ q.after \in {"done", "find"}
  BY RequestIs DEF RequestOK
<1>2. ASSUME NEW p, DOMAIN p = Fields, p.pc \notin {"save", "restore"}, Become(r, p), q.pc \notin {"idle", "restore"},
             snapshot' = snapshot
      PROVE  Copies' /\ Says
  <2>1. ~Restoring(p)
    BY <1>2 DEF Restoring
  <2> QED BY <1>2, <2>1, NoRestore
<1>3. CASE EndImport(r)
  BY <1>3, StopRestores DEF EndImport, Return
<1>4. CASE Refetch(r)
  <2> DEFINE p == [q EXCEPT !.pc = "cfg"]
  <2>1. q.pc = "fetch" /\ (Return(r) \/ (Become(r, p) /\ snapshot' = snapshot))
    BY <1>4 DEF Refetch, Rest
  <2>2. DOMAIN p = Fields /\ p.pc = "cfg"
    BY <1>1 DEF Fields
  <2> HIDE DEF p
  <2> QED BY <1>2, <2>1, <2>2, StopRestores DEF Return
<1>5. CASE Build(r)
  <2> DEFINE frames == buildCFGPayload(db, {AllSystems})
             p == [q EXCEPT !.pc = "send", !.frames = frames]
  <2>1. q.pc = "cfg" /\ Become(r, p) /\ snapshot' = snapshot
    BY <1>5 DEF Build, Rest
  <2> HIDE DEF frames
  <2>2. DOMAIN p = Fields /\ p.pc = "send"
    BY <1>1 DEF Fields
  <2> HIDE DEF p
  <2> QED BY <1>2, <2>1, <2>2
<1>6. CASE Send(r)
  <2> DEFINE found == {l \in Restricted : listeners[l].at = "in"}
             p == [q EXCEPT !.pc = "scoped", !.frames = <<>>, !.found = found]
  <2>1. q.pc = "send" /\ Become(r, p) /\ snapshot' = snapshot
    BY <1>6 DEF Send
  <2> HIDE DEF found
  <2>2. DOMAIN p = Fields /\ p.pc = "scoped"
    BY <1>1 DEF Fields
  <2> HIDE DEF p
  <2> QED BY <1>2, <2>1, <2>2
<1>7. CASE BuildScoped(r)
  <2> DEFINE frames == [l \in q.found |-> Config(l)]
             p == [q EXCEPT !.pc = "deliver", !.frames = frames]
  <2>1. q.pc = "scoped" /\ Become(r, p) /\ snapshot' = snapshot
    BY <1>7 DEF BuildScoped, Rest
  <2> HIDE DEF frames
  <2>2. DOMAIN p = Fields /\ p.pc = "deliver"
    BY <1>1 DEF Fields
  <2> HIDE DEF p
  <2> QED BY <1>2, <2>1, <2>2
<1>8. CASE Deliver(r)
  <2> DEFINE on == [q EXCEPT !.pc = q.after, !.frames = <<>>, !.found = {}, !.untold = FALSE]
             p == IF q.after = "done" THEN Idle ELSE on
  <2>1. q.pc = "deliver" /\ Become(r, p) /\ snapshot' = snapshot
    BY <1>8 DEF Deliver
  <2>2. DOMAIN on = Fields /\ on.pc = q.after
    BY <1>1 DEF Fields
  <2> HIDE DEF on
  <2>3. DOMAIN p = Fields /\ p.pc \in {"idle", "find"}
    BY <1>1, <2>2, IdleIs
  <2> HIDE DEF p
  <2> QED BY <1>2, <2>1, <2>3
<1>9. CASE Fail(r)
  <2>1. q.pc # "idle" /\ Become(r, Idle) /\ snapshot' = snapshot
    BY <1>9 DEF Fail
  <2>2. DOMAIN Idle = Fields /\ Idle.pc = "idle"
    BY IdleIs
  <2>3. (Restoring(Idle) => Backup(Idle.read)) /\ (snapshot'.has # {} => Backup(snapshot'))
    BY <2>1, <2>2 DEF Restoring, Copies
  <2> QED BY <2>1, <2>2, <2>3, CopiesStay
<1> QED BY <1>3, <1>4, <1>5, <1>6, <1>7, <1>8, <1>9

LEMMA RestoresSay ==
  ASSUME Inv, Copies, NEW r \in Requests, writePreRestoreSnapshot(r) \/ RestoreBackup(r)
  PROVE  Copies' /\ Says
<1> DEFINE q == requests[r]
<1>1. DOMAIN q = Fields /\ Schema(db)
  BY RequestIs DEF Inv
<1>2. CASE writePreRestoreSnapshot(r)
  <2> DEFINE p == [q EXCEPT !.pc = "restore"]
  <2>1. /\ q.pc = "save" /\ q.ask.op \in Restorers /\ Become(r, p)
        /\ snapshot' = exportConfigData(db)
    BY <1>2 DEF writePreRestoreSnapshot, AtOneOf, Restorers
  <2>2. DOMAIN p = Fields /\ p.pc = "restore" /\ p.read = q.read
    BY <1>1 DEF Fields
  <2>3. Backup(q.read)
    BY <2>1 DEF Copies, Restoring
  <2>4. Backup(snapshot')
    BY <1>1, <2>1, ExportIsBackup
  <2> HIDE DEF p
  <2> QED BY <2>1, <2>2, <2>3, <2>4, CopiesStay
<1>3. CASE RestoreBackup(r)
  <2> DEFINE out == ImportConfig(db, q.read)
             p == [q EXCEPT !.pc = "cfg"]
  <2>1. q.pc = "restore" /\ q.ask.op \in Restorers
    BY <1>3 DEF RestoreBackup, AtOneOf, Restorers
  <2>2. Backup(q.read)
    BY <2>1 DEF Copies, Restoring
  <2>3. CASE Return(r)
    BY <2>1, <2>3, StopRestores DEF Return
  <2>4. CASE out.ok /\ Write(r, out.db, p) /\ UNCHANGED Rest
    <3>1. (snapshot'.has # {} => Backup(snapshot')) /\ db' = out.db
      BY <2>4 DEF Rest, Copies, Write
    <3>2. DOMAIN p = Fields /\ p.pc = "cfg"
      BY <1>1 DEF Fields
    <3>3. ~Restoring(p)
      BY <3>2 DEF Restoring
    <3>4. \E d : Write(r, d, p)
      BY <2>4
    <3>5. Made(db, out.db, q.read)
      <4> HIDE DEF p
      <4>1. out = ImportConfig(db, q.read) /\ out.ok = TRUE
        BY <2>4
      <4> HIDE DEF out
      <4>2. SaysTheFile(db, out.db, q.read)
        BY <1>1, <2>2, <4>1, FileRestored
      <4>3. Reviewed(db, out.db, q.read, out)
        BY <1>1, <2>2, <4>1, FileReviewed
      <4> QED BY <4>1, <4>2, <4>3 DEF Made
    <3> HIDE DEF p, out
    <3> QED BY <2>1, <3>1, <3>2, <3>3, <3>4, <3>5, CopiesStay
  <2> QED BY <1>3, <2>3, <2>4 DEF RestoreBackup
<1> QED BY <1>2, <1>3

LEMMA BeginCopies ==
  ASSUME FilesAreBackups, Inv, Copies, NEW r \in Requests, NEW a \in Asks, Begin(r, a)
  PROVE  Copies' /\ Says
<1> DEFINE p == First(a)
<1>1. /\ requests[r].pc = "idle" /\ Accepted(a) /\ Become(r, p) /\ snapshot' = snapshot
      /\ DOMAIN requests = Requests
  BY DEF Begin, Inv
<1>2. DOMAIN p = Fields /\ p.ask = a
  BY FirstIs DEF Fresh
<1>3. ASSUME Restoring(p) PROVE Backup(p.read)
  <2>1. a.op \in Restorers
    BY <1>2, <1>3 DEF Restoring
  <2> DEFINE o == Opened(a, "save")
             x == IF a.op = "ImportConfig" THEN a.file ELSE OfSnapshot(a.spared)
             new == [o EXCEPT !.read = x]
  <2>2. p = new
    BY <2>1 DEF First, Restorers, TalkgroupImports, UnitImports
  <2>3. DOMAIN o = Fields
    BY OpenedIs DEF Fresh
  <2> HIDE DEF o, x
  <2>4. new.read = x
    BY <2>3 DEF Fields
  <2>5. CASE a.op = "ImportConfig"
    BY <2>2, <2>4, <2>5 DEF x, FilesAreBackups
  <2>6. CASE a.op = "Undo"
    <3>1. snapshot.has # {}
      BY <1>1, <2>6 DEF Accepted, TalkgroupImports, UnitImports
    <3>2. x.db = snapshot.db /\ x.has = snapshot.has
      BY <2>6 DEF x, OfSnapshot
    <3> QED BY <2>2, <2>4, <3>1, <3>2 DEF Copies, Backup
  <2> QED BY <2>1, <2>5, <2>6 DEF Restorers
<1> HIDE DEF p
<1>4. requests'[r] = p /\ \A x \in Requests : x # r => requests'[x] = requests[x]
  BY <1>1 DEF Become
<1>5. ASSUME NEW x \in Requests, Restoring(requests'[x]) PROVE Backup(requests'[x].read)
  <2>1. CASE x = r
    BY <1>3, <1>4, <1>5, <2>1
  <2>2. CASE x # r
    BY <1>4, <1>5, <2>2 DEF Copies
  <2> QED BY <2>1, <2>2
<1>6. ASSUME NEW x \in Requests PROVE ~Restores(x)
  <2>1. CASE x = r
    BY <1>1, <2>1 DEF Restores, AtOneOf
  <2>2. CASE x # r
    BY <1>4, <2>2 DEF Restores, AtOneOf
  <2> QED BY <2>1, <2>2
<1>7. snapshot'.has # {} => Backup(snapshot')
  BY <1>1 DEF Copies
<1>8. Copies'
  BY <1>5, <1>7, CopiesPrimed
<1> QED BY <1>6, <1>8 DEF Says

LEMMA NextSays ==
  ASSUME FilesAreBackups, Inv, Copies, [Next]_vars
  PROVE  Copies' /\ Says
<1>1. ASSUME snapshot' = snapshot, requests' = requests PROVE Copies' /\ Says
  <2>1. \A x \in Requests : ~Restores(x)
    BY <1>1 DEF Restores, AtOneOf
  <2>2. \A x \in Requests : Restoring(requests'[x]) => Backup(requests'[x].read)
    BY <1>1 DEF Copies
  <2>3. snapshot'.has # {} => Backup(snapshot')
    BY <1>1 DEF Copies
  <2>4. Copies'
    BY <2>2, <2>3, CopiesPrimed
  <2> QED BY <2>1, <2>4 DEF Says
<1>2. CASE UNCHANGED vars
  BY <1>1, <1>2 DEF vars
<1>3. CASE \E l \in Listeners : sendWelcome(l) \/ Register(l)
  BY <1>1, <1>3 DEF sendWelcome, Register
<1>4. CASE HubRun
  BY <1>1, <1>4 DEF HubRun
<1>5. CASE \E r \in Requests, a \in Asks : Begin(r, a)
  BY <1>5, BeginCopies
<1>6. ASSUME NEW r \in Requests,
             \/ SystemsCreate(r) \/ SystemsUpdate(r) \/ SystemsDelete(r) \/ setBlocked(r)
             \/ TalkgroupsCreate(r) \/ TalkgroupsUpdate(r) \/ TalkgroupsDelete(r) \/ TalkgroupsBulk(r)
             \/ LabelsCreate(r) \/ LabelsUpdate(r) \/ MoveBeforeDelete(r) \/ LabelsDelete(r)
             \/ UnitsCreate(r) \/ UnitsUpdate(r) \/ UnitsDelete(r)
             \/ FindRow(r) \/ TalkgroupsImport(r) \/ RadioReferenceApply(r) \/ ImportTalkgroups(r)
             \/ UnitsImport(r) \/ ImportUnits(r) \/ labelsImport(r) \/ importLabelOnly(r) \/ EndImport(r)
             \/ NewSystem(r) \/ FindTalkgroup(r) \/ ResolveLabels(r) \/ SaveTalkgroup(r)
             \/ writePreRestoreSnapshot(r) \/ RestoreBackup(r)
             \/ Refetch(r) \/ Build(r) \/ Send(r) \/ BuildScoped(r) \/ Deliver(r) \/ Fail(r)
      PROVE  Copies' /\ Says
  <2>1. CASE \/ SystemsCreate(r) \/ SystemsUpdate(r) \/ SystemsDelete(r) \/ setBlocked(r)
             \/ TalkgroupsCreate(r) \/ TalkgroupsUpdate(r) \/ TalkgroupsDelete(r) \/ TalkgroupsBulk(r)
             \/ LabelsCreate(r) \/ LabelsUpdate(r) \/ MoveBeforeDelete(r) \/ LabelsDelete(r)
             \/ UnitsCreate(r) \/ UnitsUpdate(r) \/ UnitsDelete(r)
    BY <2>1, AdminRestores
  <2>2. CASE \/ FindRow(r) \/ TalkgroupsImport(r) \/ RadioReferenceApply(r) \/ ImportTalkgroups(r)
             \/ UnitsImport(r) \/ ImportUnits(r) \/ labelsImport(r) \/ importLabelOnly(r)
    BY <2>2, ImportsRestore
  <2>3. CASE NewSystem(r) \/ FindTalkgroup(r) \/ ResolveLabels(r) \/ SaveTalkgroup(r)
    BY <2>3, UploadsRestore
  <2>4. CASE writePreRestoreSnapshot(r) \/ RestoreBackup(r)
    BY <2>4, RestoresSay
  <2>5. CASE EndImport(r) \/ Refetch(r) \/ Build(r) \/ Send(r) \/ BuildScoped(r) \/ Deliver(r) \/ Fail(r)
    BY <2>5, BroadcastsRestore
  <2> QED BY <1>6, <2>1, <2>2, <2>3, <2>4, <2>5
<1> QED BY <1>2, <1>3, <1>4, <1>5, <1>6 DEF Next

LEMMA InitCopies == Init => Copies
<1> SUFFICES ASSUME Init PROVE Copies
  OBVIOUS
<1>1. (\A r \in Requests : requests[r] = Idle) /\ snapshot.has = {}
  BY DEF Init
<1>2. Idle.pc = "idle"
  BY IdleIs
<1> QED BY <1>1, <1>2 DEF Copies, Restoring

\* Whatever other requests did before, a restore that commits makes of the
\* tables but users what its file says of them, in place of what they said
\* (Replace) or over it (Merge); a key that opened systems of the file opens
\* the same ones (nothing is claimed of a key that opened none of them), and
\* monitors point at the same places, whatever primary keys the two databases
\* use; and the accounts of who asked and of the first admin stay as they were
\* (ImportConfig, admin/imports.go).  What Undo restores is what the last
\* snapshot said (writePreRestoreSnapshot, admin/backup.go).  Files are
\* backups of some database.
THEOREM RestoredSaysTheFile ==
  ASSUME FilesAreBackups PROVE Spec => RestoredIsTheFile
<1>1. Init => Inv /\ Copies
  BY InitKeeps, InitCopies
<1>2. Inv /\ Copies /\ [Next]_vars => Inv' /\ Copies'
  BY NextKeeps, NextSays
<1>3. ASSUME Inv, Copies, [Next]_vars
      PROVE  \A r \in Requests : Restores(r) => SaysTheFile(db, db', requests[r].read)
  BY <1>3, NextSays DEF Says, Made
<1>4. Inv /\ Copies /\ [Next]_vars =>
        [\A r \in Requests : Restores(r) =>
           LET f == requests[r].read IN
           /\ \A t \in Tables \ {"users"} : Readable(f, t) =>
                View(db', t) = IF f.mode = "replace" THEN View(f.db, t) ELSE Over(View(f.db, t), View(db, t))
           /\ {"systems", "keys"} \subseteq f.has =>
                \A k \in DOMAIN f.db.keys : LET reach == Reach(f.db, f.db.keys[k]) IN
                  reach # {} => Reach(db', db'.keys[k]) = reach
           /\ {"systems", "talkgroups", "monitors"} \subseteq f.has =>
                \A m \in DOMAIN f.db.monitors : Place(db', m) = Place(f.db, m)
           /\ \A n \in f.spared \intersect DOMAIN db.users : n \in DOMAIN db'.users /\ db'.users[n] = db.users[n]]_vars
  BY <1>3 DEF SaysTheFile, KeysSay, MonitorsSay, SparedStay
<1> QED BY <1>1, <1>2, <1>4, PTL DEF Spec, RestoredIsTheFile

\* What the review shows before a restore is what the restore then does: it
\* adds as many rows as were announced, changes as many (keys and monitors not
\* counted) and, when it replaces, takes away as many, the rows that go with a
\* system among them; but the accounts a restore leaves alone are announced
\* among the changes and removals too (previewBackup, ImportConfig and
\* removeAbsent's counts, admin/imports.go and admin/backup.go).  Files are
\* backups of some database.
THEOREM ReviewsAreRight ==
  ASSUME FilesAreBackups PROVE Spec => ReviewMatches
<1>1. Init => Inv /\ Copies
  BY InitKeeps, InitCopies
<1>2. Inv /\ Copies /\ [Next]_vars => Inv' /\ Copies'
  BY NextKeeps, NextSays
<1>3. ASSUME Inv, Copies, [Next]_vars
      PROVE  \A r \in Requests : Restores(r) => Reviewed(db, db', requests[r].read, ImportConfig(db, requests[r].read))
  BY <1>3, NextSays DEF Says, Made
<1>4. Inv /\ Copies /\ [Next]_vars =>
        [\A r \in Requests : Restores(r) =>
           LET f == requests[r].read
               said == Review(db, f)
               out == ImportConfig(db, f)
               both(t) == DOMAIN View(db, t) \intersect DOMAIN View(db', t)
               did(t) == IF t \in {"keys", "monitors"} THEN {}
                         ELSE {k \in both(t) : View(db, t)[k] # View(db', t)[k]}
               changed == Total(f, [t \in Tables |-> did(t)])
           IN  (\A t \in f.has : Readable(f, t)) =>
                 /\ said.added = out.created
                 /\ said.changed = changed + Cardinality(SparedIn(db, f))
                 /\ f.mode = "replace" /\ ("systems" \in f.has => {"talkgroups", "units"} \subseteq f.has) =>
                      said.removed = out.removed + Cardinality(SparedOut(db, f))]_vars
  BY <1>3 DEF Reviewed, Covers, Did, Changed
<1> QED BY <1>1, <1>2, <1>4, PTL DEF Spec, ReviewMatches

=============================================================================
