------------------------------ MODULE MCCatalog ------------------------------
(* Two requests at a time over two systems: one with talkgroups, labelled and
   not, the other with a folder monitor; and backups of another database that
   keeps the same radio systems under other primary keys. *)
EXTENDS Catalog

CONSTANTS everyone, limited

MCListeners == {everyone, limited}
\* Two requests at once; or one, while both listeners connect.
MCLoads == {[connected |-> MCListeners, work |-> 2], [connected |-> {}, work |-> 1]}
MCGrants == (everyone :> {AllSystems}) @@ (limited :> {1})

System(num, label) == [num |-> num, label |-> label, auto |-> TRUE, blocked |-> {}]
Tg(sys, num, label, group, tag) == [sys |-> sys, num |-> num, label |-> label, group |-> group, tag |-> tag]
Label(l) == [label |-> l]

MCFirstDb ==
  [systems |-> (1 :> [System(10, "A") EXCEPT !.blocked = {500}]) @@ (2 :> System(20, "B")),
   groups |-> (1 :> Label("G1")), tags |-> (1 :> Label("T1")),
   talkgroups |-> (1 :> Tg(1, 100, "", NoId, NoId)) @@ (2 :> Tg(1, 200, "fire", 1, 1)),
   units |-> (1 :> [sys |-> 1, num |-> 7, label |-> "E7"]),
   keys |-> ("key" :> {1}), users |-> ("admin" :> {AllSystems}) @@ ("user" :> {AllSystems}),
   monitors |-> ("folder" :> [sys |-> 2, tg |-> NoId]),
   seq |-> [t \in IdTables |-> IF t \in {"systems", "talkgroups"} THEN 2 ELSE 1]]

\* Another database: system 10 is its number 5, system 30 its number 1.
Elsewhere ==
  [systems |-> (5 :> System(10, "A2")) @@ (1 :> System(30, "C")),
   groups |-> (3 :> Label("G1")) @@ (1 :> Label("G2")), tags |-> (2 :> Label("T2")),
   talkgroups |-> (8 :> Tg(5, 100, "police", 1, 2)) @@ (2 :> Tg(1, 300, "bus", 3, NoId)),
   units |-> (1 :> [sys |-> 1, num |-> 9, label |-> "B9"]),
   keys |-> ("key" :> {1, 4}) @@ ("new" :> {5}) @@ ("lost" :> {4}),
   users |-> ("admin" :> {5}) @@ ("deputy" :> {AllSystems}),
   monitors |-> ("folder" :> [sys |-> 5, tg |-> 8]),
   seq |-> [t \in IdTables |-> 9]]

File(mode, has) ==
  [mode |-> mode, has |-> has, spared |-> {"admin"}, db |-> [Elsewhere EXCEPT
     !.systems = IF "systems" \in has THEN @ ELSE <<>>, !.groups = IF "groups" \in has THEN @ ELSE <<>>,
     !.tags = IF "tags" \in has THEN @ ELSE <<>>, !.talkgroups = IF "talkgroups" \in has THEN @ ELSE <<>>,
     !.units = IF "units" \in has THEN @ ELSE <<>>, !.keys = IF "keys" \in has THEN @ ELSE <<>>,
     !.users = IF "users" \in has THEN @ ELSE <<>>, !.monitors = IF "monitors" \in has THEN @ ELSE <<>>]]

Files == {File("replace", Tables), File("merge", Tables), File("replace", {"systems", "talkgroups", "keys"})}

Row(num, label, group, tag) == [num |-> num, label |-> label, group |-> group, tag |-> tag]
Rows == <<Row(100, "ems", "G1", ""), Row(400, "dock", "G2", "T1")>>

MCAsks ==
  {[op |-> "SystemsCreate", row |-> System(30, "C")],
   [op |-> "SystemsUpdate", id |-> 1, row |-> System(10, "A*")],
   [op |-> "SystemsDelete", id |-> 1],
   [op |-> "SystemsBlock", id |-> 1, num |-> 400], [op |-> "SystemsUnblock", id |-> 1, num |-> 500],
   [op |-> "TalkgroupsCreate", row |-> Tg(1, 400, "dock", 1, NoId)],
   [op |-> "TalkgroupsUpdate", id |-> 1, row |-> Tg(1, 100, "rescue", 1, NoId)],
   [op |-> "TalkgroupsDelete", ids |-> <<2, 1>>],
   [op |-> "TalkgroupsBulk", ids |-> <<1>>, group |-> 1],
   [op |-> "LabelsCreate", kind |-> "groups", label |-> "G2"],
   [op |-> "LabelsUpdate", kind |-> "tags", id |-> 1, label |-> "T3"],
   [op |-> "LabelsDelete", kind |-> "groups", id |-> 1, reassign |-> TRUE, to |-> NoId],
   [op |-> "ImportLabels", kind |-> "groups", labels |-> <<"G2">>],
   [op |-> "LabelsImport", kind |-> "groups", labels |-> <<"G2">>],
   [op |-> "UnitsCreate", row |-> [sys |-> 1, num |-> 9, label |-> "B9"]],
   [op |-> "UnitsUpdate", id |-> 1, row |-> [sys |-> 1, num |-> 9, label |-> "B9"]],
   [op |-> "UnitsDelete", id |-> 1],
   [op |-> "TalkgroupsImport", sys |-> 1, mode |-> "fill", rows |-> Rows],
   [op |-> "RadioReferenceApply", sys |-> 1, mode |-> "overwrite", rows |-> <<Rows[1]>>],
   [op |-> "ImportTalkgroups", sys |-> 1, mode |-> "fill", rows |-> <<Rows[2]>>],
   [op |-> "ImportUnits", sys |-> 1, mode |-> "overwrite", rows |-> <<[num |-> 7, label |-> "L7"]>>],
   [op |-> "UnitsImport", sys |-> 1, mode |-> "fill", rows |-> <<[num |-> 9, label |-> "B9"]>>],
   [op |-> "Upload", num |-> 30, system |-> "C", row |-> Row(300, "bus", "G2", "")],
   [op |-> "Upload", num |-> 10, system |-> "A", row |-> Row(100, "ems", "G1", "T2")],
   [op |-> "Undo", spared |-> {"admin", "deputy"}]}
  \union {[op |-> "ImportConfig", file |-> f] : f \in Files}

Symmetry == Permutations(Requests)

ASSUME FilesAreBackups
==============================================================================
