--------------------------- MODULE Archive_proof ----------------------------
(***************************************************************************)
(* Proofs about Archive, and about the steps of Ingest in it, for every    *)
(* set of uploads, users and visitors and every bound.                     *)
(***************************************************************************)
EXTENDS Archive, FiniteSetTheorems, FunctionTheorems, WellFoundedInduction, TLAPS

-----------------------------------------------------------------------------
(* Types.  What is uploaded is a wav or an m4a file, and so is every       *)
(* recording kept; a conversion beside its input writes to a third kind.   *)

Wavs == Stems \X {"wav"}
M4as == Stems \X {"m4a"}
Tmps == Stems \X {"tmp.m4a"}
Name == Wavs \union M4as \union Tmps \union {NoPath}

PCs == {"new", "createSystem", "talkgroup", "createTalkgroup", "duplicate",
        "store", "submit", "convert", "insert", "ended"}

Handler == [pc : PCs, sys : Nat, tg : Nat, path : Name, in : Name, out : Name,
            seen : SUBSET Uploads, blind : BOOLEAN, left : BOOLEAN]
Row     == [path : Name, tg : Nat]
Job     == [of : Uploads, in : Name, out : Name, read : Uploads \union {None}]
Entry   == [of : Uploads, path : Name]
Id      == 0..MaxIds

UploadType == upload \in [Uploads -> Handler]
IdsType ==
  /\ ids \in [sys : Id, tg : Id, tgOf : Id, usedSys : Id, usedTg : Id]
  /\ (ids.sys = 0 => ids.usedSys < MaxIds)
  /\ (ids.tg = 0 => ids.usedTg < MaxIds)
RowsType ==
  /\ rows \in [Uploads -> Row]
  /\ \A u \in HasRow : rows[u].path \in Wavs \union M4as
FilesType ==
  /\ DOMAIN files \subseteq Wavs \union M4as \union Tmps
  /\ \A p \in DOMAIN files : files[p] \in Uploads \union {None}
JobsType ==
  /\ jobs \in Seq(Job) /\ running \subseteq Job
  /\ outcome \in [Uploads -> {"none", "done", "failed"}]
PrunerType ==
  /\ pruner \in [pc : {"idle", "remove", "delete"}, batch : Seq(Entry)]
  /\ (pruner.pc = "idle" <=> pruner.batch = <<>>)
  /\ reclaimed \subseteq Wavs \union M4as
CountType == failures \in 0..MaxFailures /\ restarts \in 0..MaxRestarts

IngestType ==
  /\ call \in Calls /\ UploadType /\ IdsType /\ RowsType /\ FilesType
  /\ JobsType /\ PrunerType /\ CountType

-----------------------------------------------------------------------------
(* The inductive invariant about recordings.                               *)

Holding == {"submit", "convert", "insert"}

\* The names of an upload: the file it was stored in, the one its conversion
\* writes, and the one it is known by, which is one of the two.
NamesOK ==
  \A u \in Uploads :
    LET r == upload[u] IN
    /\ r.in \in Wavs \union M4as \union {NoPath}
    /\ r.out \in M4as \union Tmps \union {NoPath}
    /\ (r.out \in M4as => r.in \in Wavs)
    /\ (r.out \in Tmps => r.in \in M4as)
    /\ (r.path = r.in \/ (r.path = r.out /\ r.in \in Wavs /\ r.out \in M4as))
    /\ (r.pc \in Holding \/ u \in HasRow => r.in # NoPath)
    /\ (r.pc \in {"submit", "convert"} => r.path = r.in)
    /\ (r.pc = "convert" => r.out # NoPath)
    /\ (r.left => r.pc = "ended" /\ r.out # NoPath)
    /\ ((r.pc = "insert" \/ u \in HasRow) /\ r.out \in M4as => r.path = r.out)
    /\ (r.pc \notin Holding \union {"ended"} => r.in = NoPath /\ r.out = NoPath)
    /\ (r.pc = "submit" => r.out = NoPath)

\* A row is of an upload that has ended, and so is what the pruner read of one.
RowsOK ==
  \A u \in HasRow : upload[u].pc = "ended" /\ rows[u].path = upload[u].path

Entries == 1..Len(pruner.batch)
BatchOK ==
  /\ \A i \in Entries :
       LET e == pruner.batch[i] IN
       upload[e.of].pc = "ended" /\ e.path = upload[e.of].path /\ e.path \in Wavs \union M4as
  /\ \A i, k \in Entries : pruner.batch[i].of = pruner.batch[k].of => i = k

\* A job is that of an upload which waits for it, or was given up waiting.
JobOK(j) ==
  /\ j.in = upload[j.of].in /\ j.out = upload[j.of].out
  /\ upload[j.of].left \/ (upload[j.of].pc = "convert" /\ outcome[j.of] = "none")
Queued == 1..Len(jobs)
JobsOK ==
  /\ \A i \in Queued : JobOK(jobs[i])
  /\ \A j \in running : JobOK(j)
  /\ \A i, k \in Queued : jobs[i].of = jobs[k].of => i = k
  /\ \A j, k \in running : j.of = k.of => j = k
  /\ \A i \in Queued, j \in running : jobs[i].of # j.of
  /\ \A u \in Uploads : outcome[u] # "none" => upload[u].pc = "convert" \/ upload[u].left

\* What is on disk has a name that some upload was given.
NamesTaken ==
  DOMAIN files \subseteq {upload[u].in : u \in Uploads} \union {upload[u].out : u \in Uploads}

\* Who counts on the file by which an upload is known: its handler; its row,
\* and the pruner, until he has removed the file.
Doomed(u) == \E i \in Entries : pruner.batch[i].of = u
Gone(u)   == pruner.pc = "delete" /\ Victim.of = u
Holds(u)  == upload[u].pc \in Holding \/ (~Gone(u) /\ (u \in HasRow \/ Doomed(u)))
Claims(u, p) ==
  Holds(u) /\ (p = upload[u].path \/ (upload[u].pc = "convert" /\ p = upload[u].out))

\* Names of which nothing can be said: of a row that could not be deleted, and
\* of a conversion that nobody waits for.
Bad(p)     == p \in reclaimed \/ (\E v \in Uploads : upload[v].left /\ upload[v].out = p)
Spoiled(u) == Bad(upload[u].in) \/ Bad(upload[u].out)
Intact(u, p) == Exists(p) /\ files[p] = u

\* A name somebody counts on is there, and is nobody else's.
ClaimsStand ==
  \A u \in Uploads, p \in Name : Claims(u, p) => Exists(p) \/ Bad(p)
ClaimsDiffer ==
  \A u, v \in Uploads, p \in Name : u # v /\ Claims(u, p) /\ Claims(v, p) => Bad(p)

\* The audio an upload counts on is its own.
StoredIsOwn == \A u \in Uploads : Holds(u) => Spoiled(u) \/ Intact(u, upload[u].path)
WrittenIsOwn ==
  \A u \in Uploads :
    upload[u].pc = "convert" /\ outcome[u] = "done" => Spoiled(u) \/ Intact(u, upload[u].out)
ReadIsOwn == \A j \in running : Spoiled(j.of) \/ j.read = j.of

Audio ==
  /\ NamesOK /\ RowsOK /\ BatchOK /\ JobsOK /\ NamesTaken
  /\ ClaimsStand /\ ClaimsDiffer /\ StoredIsOwn /\ WrittenIsOwn /\ ReadIsOwn

-----------------------------------------------------------------------------
(* The kinds of files, and the names drawn for them.                       *)

LEMMA Kinds ==
  /\ Wavs \intersect M4as = {} /\ Wavs \intersect Tmps = {} /\ M4as \intersect Tmps = {}
  /\ NoPath \notin Wavs \union M4as \union Tmps
  /\ Paths = Wavs \union M4as \union Tmps
<1>1. Wavs \intersect M4as = {} /\ Wavs \intersect Tmps = {} /\ M4as \intersect Tmps = {}
  BY DEF Wavs, M4as, Tmps
<1>2. NoPath \notin Wavs \union M4as \union Tmps
  BY DEF Wavs, M4as, Tmps, NoPath
<1>3. Paths = Wavs \union M4as \union Tmps
  BY DEF Paths, Exts, Wavs, M4as, Tmps
<1>. QED  BY <1>1, <1>2, <1>3

LEMMA NoRowIsNone ==
  ASSUME NEW t, NEW p \in Wavs \union M4as
  PROVE  [path |-> p, tg |-> t] # NoRow
BY Kinds DEF NoRow

LEMMA Sizes ==
  /\ IsFiniteSet(Uploads) /\ Cardinality(Uploads) \in Nat /\ Cardinality(Uploads) # 0
  /\ 0 \in Stems
<1>1. IsFiniteSet(Uploads) /\ Uploads # {}
  BY IngestAssumption DEF IngestAssumption
<1>2. Cardinality(Uploads) \in Nat /\ Cardinality(Uploads) # 0
  BY <1>1, FS_CardinalityType, FS_EmptySet
<1>. QED  BY <1>1, <1>2 DEF Stems

\* The uploads have fewer names than there are stems.
LEMMA ImageFew ==
  ASSUME NEW f, DOMAIN f = Uploads
  PROVE  /\ IsFiniteSet({f[u] : u \in Uploads})
         /\ Cardinality({f[u] : u \in Uploads}) <= Cardinality(Uploads)
         /\ Cardinality({f[u] : u \in Uploads}) \in Nat
<1>. DEFINE T == {f[u] : u \in Uploads}
            g == [u \in Uploads |-> f[u]]
<1>1. g \in Surjection(Uploads, T)
  BY DEF Surjection
<1>2. IsFiniteSet(T) /\ Cardinality(T) <= Cardinality(Uploads)
  BY <1>1, Sizes, FS_Surjection
<1>. HIDE DEF T
<1>3. Cardinality(T) \in Nat
  BY <1>2, FS_CardinalityType
<1>. QED  BY <1>2, <1>3 DEF T

LEMMA AStemIsFree ==
  ASSUME NamesTaken
  PROVE  \E s \in Stems : ~ \E e \in Exts : Exists(<<s, e>>)
<1>. DEFINE f == [u \in Uploads |-> upload[u].in[1]]
            g == [u \in Uploads |-> upload[u].out[1]]
            F == {f[u] : u \in Uploads}
            G == {g[u] : u \in Uploads}
<1>1. IsFiniteSet(F) /\ Cardinality(F) <= Cardinality(Uploads) /\ Cardinality(F) \in Nat
  BY ImageFew
<1>2. IsFiniteSet(G) /\ Cardinality(G) <= Cardinality(Uploads) /\ Cardinality(G) \in Nat
  BY ImageFew
<1>3. \A s \in Stems, e \in Exts : Exists(<<s, e>>) => s \in F \union G
  <2>. SUFFICES ASSUME NEW s \in Stems, NEW e \in Exts, Exists(<<s, e>>) PROVE s \in F \union G
    OBVIOUS
  <2>1. PICK u \in Uploads : <<s, e>> = upload[u].in \/ <<s, e>> = upload[u].out
    BY DEF NamesTaken, Exists
  <2>2. s = f[u] \/ s = g[u]
    BY <2>1
  <2>. QED  BY <2>2
<1>4. IsFiniteSet(Stems) /\ Cardinality(Stems) = 2 * Cardinality(Uploads) + 1
  <2>1. 0 \in Int /\ 2 * Cardinality(Uploads) \in Int /\ ~(0 > 2 * Cardinality(Uploads))
    BY Sizes
  <2>2. /\ IsFiniteSet(0..2 * Cardinality(Uploads))
        /\ Cardinality(0..2 * Cardinality(Uploads)) = 2 * Cardinality(Uploads) - 0 + 1
    BY <2>1, FS_Interval
  <2>. QED  BY <2>1, <2>2, Sizes DEF Stems
<1>. HIDE DEF F, G
<1>5. /\ IsFiniteSet(F \union G) /\ Cardinality(F \intersect G) \in Nat
      /\ Cardinality(F \union G) = Cardinality(F) + Cardinality(G) - Cardinality(F \intersect G)
  <2>1. IsFiniteSet(F \intersect G)
    BY <1>1, FS_Subset
  <2>. QED  BY <1>1, <1>2, <2>1, FS_Union, FS_CardinalityType
<1>6. Cardinality(F \union G) <= 2 * Cardinality(Uploads)
  BY <1>1, <1>2, <1>5, Sizes
<1>7. ~(Stems \subseteq F \union G)
  <2>. SUFFICES ASSUME Stems \subseteq F \union G PROVE FALSE
    OBVIOUS
  <2>1. Cardinality(Stems) <= Cardinality(F \union G)
    BY <1>5, FS_Subset
  <2>2. Cardinality(F \union G) \in Nat
    BY <1>5, FS_CardinalityType
  <2>. QED  BY <1>4, <1>6, <2>1, <2>2, Sizes
<1>. QED  BY <1>3, <1>7

\* createUniqueFile gives a name of the kind asked for that nothing has.
LEMMA UniqueIsNew ==
  ASSUME NamesTaken, NEW stem \in Stems, NEW ext \in Exts, NEW p \in Unique(stem, ext)
  PROVE  p \in Stems \X {ext} /\ ~Exists(p)
<1>1. CASE ~Exists(<<stem, ext>>)
  BY <1>1 DEF Unique
<1>2. CASE Exists(<<stem, ext>>)
  <2>. DEFINE s == CHOOSE s \in Stems : ~ \E e \in Exts : Exists(<<s, e>>)
  <2>1. s \in Stems /\ ~ \E e \in Exts : Exists(<<s, e>>)
    BY AStemIsFree
  <2>2. p = <<s, ext>>
    BY <1>2 DEF Unique
  <2>. HIDE DEF s
  <2>. QED  BY <2>1, <2>2
<1>. QED  BY <1>1, <1>2

LEMMA DropIs ==
  ASSUME NEW f, NEW S
  PROVE  /\ DOMAIN Drop(f, S) = DOMAIN f \ S
         /\ \A q \in DOMAIN f \ S : Drop(f, S)[q] = f[q]
BY DEF Drop

-----------------------------------------------------------------------------
(* A step of the archive is one of Ingest, or leaves what is Ingest's.     *)

IngestStep ==
  \/ \E u \in Uploads : Begin(u) \/ Handle(u) \/ GiveUp(u)
  \/ Work \/ Prune \/ DeleteSystem \/ DeleteTalkgroup \/ Restart
  \/ UNCHANGED stored

LEMMA ToIngest ==
  ASSUME [ANext]_avars
  PROVE  IngestStep
<1>1. ASSUME NEW u \in Uploads, Beside(Begin(u)) \/ Beside(Handle(u)) \/ Beside(GiveUp(u))
      PROVE  IngestStep
  BY <1>1 DEF Beside, IngestStep
<1>2. ASSUME NEW u \in Uploads, Others(u) PROVE IngestStep
  BY <1>2 DEF Others, Keeping, IngestStep
<1>3. CASE Beside(Work) \/ Beside(Prune) \/ Beside(DeleteSystem) \/ Beside(DeleteTalkgroup)
  BY <1>3 DEF Beside, IngestStep
<1>4. CASE ARestart
  BY <1>4 DEF ARestart, IngestStep
<1>5. ASSUME NEW x \in Visitors, Sharing(x) PROVE UNCHANGED stored
  <2>1. ASSUME ShareCheck(x) PROVE UNCHANGED stored
    BY <2>1 DEF ShareCheck, vars, stored
  <2>2. ASSUME ShareCreate(x) PROVE UNCHANGED stored
    BY <2>2 DEF ShareCreate, Keeping
  <2>3. ASSUME UnshareCheck(x) PROVE UNCHANGED stored
    BY <2>3 DEF UnshareCheck, vars, stored
  <2>4. ASSUME UnshareDelete(x) PROVE UNCHANGED stored
    BY <2>4 DEF UnshareDelete, Keeping
  <2>. QED  BY <1>5, <2>1, <2>2, <2>3, <2>4 DEF Sharing
<1>6. ASSUME NEW x \in Visitors, Marking(x) \/ Search(x) PROVE UNCHANGED stored
  <2>1. ASSUME ToggleRead(x) PROVE UNCHANGED stored
    BY <2>1 DEF ToggleRead, vars, stored
  <2>2. ASSUME ToggleWrite(x) PROVE UNCHANGED stored
    BY <2>2 DEF ToggleWrite, Keeping
  <2>3. ASSUME SearchCount(x) PROVE UNCHANGED stored
    BY <2>3 DEF SearchCount, vars, stored
  <2>4. ASSUME SearchList(x) PROVE UNCHANGED stored
    BY <2>4 DEF SearchList, Page, vars, stored
  <2>. QED  BY <1>6, <2>1, <2>2, <2>3, <2>4 DEF Marking, Search
<1>7. CASE Links
  <2>1. ASSUME NEW u \in Uploads, RevokeLink(u) PROVE UNCHANGED stored
    BY <2>1 DEF RevokeLink, Keeping
  <2>2. ASSUME RestoreLink PROVE UNCHANGED stored
    BY <2>2 DEF RestoreLink, Keeping
  <2>3. ASSUME SweepList PROVE UNCHANGED stored
    BY <2>3 DEF SweepList, vars, stored
  <2>4. ASSUME SweepDelete PROVE UNCHANGED stored
    BY <2>4 DEF SweepDelete, Keeping, vars, stored
  <2>. QED  BY <1>7, <2>1, <2>2, <2>3, <2>4 DEF Links, IngestStep
<1>8. ASSUME SetExpiry \/ Tick \/ \E w \in Users : SetGrants(w) PROVE UNCHANGED stored
  BY <1>8 DEF SetExpiry, Tick, SetGrants, vars, stored
<1>9. ASSUME UNCHANGED avars PROVE UNCHANGED stored
  BY <1>9 DEF avars, vars, stored
<1>. QED  BY <1>1, <1>2, <1>3, <1>4, <1>5, <1>6, <1>7, <1>8, <1>9 DEF ANext, IngestStep

-----------------------------------------------------------------------------
(* Steps of a handler.                                                     *)

LEMMA Moved ==
  ASSUME UploadType, NEW u \in Uploads, NEW r \in Handler, Go(u, r)
  PROVE  /\ UploadType' /\ upload'[u] = r
         /\ \A v \in Uploads : v # u => upload'[v] = upload[v]
BY DEF UploadType, Go

\* A handler that has not stored its file, or that ends with it: it keeps its
\* names, and goes to pc.
Passed(u, pc) ==
  /\ upload[u].pc \notin {"submit", "convert"}
  /\ pc = "ended" \/ (upload[u].pc \notin Holding \union {"ended"} /\ pc \in PCs \ Holding)
  /\ upload'[u].pc = pc
  /\ upload'[u].in = upload[u].in /\ upload'[u].out = upload[u].out
  /\ upload'[u].path = upload[u].path /\ upload'[u].left = upload[u].left
  /\ \A v \in Uploads : v # u => upload'[v] = upload[v]
  /\ UploadType'
  /\ UNCHANGED <<rows, disk, pool, pruner>>

LEMMA BeginPasses ==
  ASSUME UploadType, IdsType, NEW u \in Uploads, Begin(u)
  PROVE  \E pc \in PCs : Passed(u, pc)
<1>. DEFINE r(pc) == [upload[u] EXCEPT !.pc = pc, !.sys = ids.sys]
<1>1. PICK pc \in {"createSystem", "talkgroup", "ended"} : Go(u, r(pc))
  BY DEF Begin, OrRefused
<1>2. upload[u] \in Handler /\ ids.sys \in Nat
  BY DEF UploadType, IdsType, Id
<1>3. r(pc) \in Handler /\ r(pc).pc = pc /\ r(pc).in = upload[u].in /\ r(pc).out = upload[u].out
      /\ r(pc).path = upload[u].path /\ r(pc).left = upload[u].left
  BY <1>2 DEF Handler, PCs
<1>. HIDE DEF r
<1>4. UploadType' /\ upload'[u] = r(pc) /\ \A v \in Uploads : v # u => upload'[v] = upload[v]
  BY <1>1, <1>3, Moved
<1>. QED  BY <1>3, <1>4 DEF Begin, At, Passed, PCs, Holding

LEMMA ReadTalkgroupPasses ==
  ASSUME UploadType, IdsType, NEW u \in Uploads, ReadTalkgroup(u)
  PROVE  \E pc \in PCs : Passed(u, pc)
<1>. DEFINE found == ids.tg # 0 /\ ids.tgOf = upload[u].sys
            r(pc) == [upload[u] EXCEPT !.pc = pc, !.tg = IF found THEN ids.tg ELSE 0]
<1>1. PICK pc \in {"duplicate", "createTalkgroup", "ended"} : Go(u, r(pc))
  BY DEF ReadTalkgroup, OrRefused
<1>2. upload[u] \in Handler /\ (IF found THEN ids.tg ELSE 0) \in Nat
  BY DEF UploadType, IdsType, Id
<1>3. r(pc) \in Handler /\ r(pc).pc = pc /\ r(pc).in = upload[u].in /\ r(pc).out = upload[u].out
      /\ r(pc).path = upload[u].path /\ r(pc).left = upload[u].left
  BY <1>2 DEF Handler, PCs
<1>. HIDE DEF r, found
<1>4. UploadType' /\ upload'[u] = r(pc) /\ \A v \in Uploads : v # u => upload'[v] = upload[v]
  BY <1>1, <1>3, Moved
<1>. QED  BY <1>3, <1>4 DEF ReadTalkgroup, At, Passed, PCs, Holding

LEMMA ToPasses ==
  ASSUME UploadType, NEW u \in Uploads, NEW pc \in PCs, To(u, pc),
         upload[u].pc \notin {"submit", "convert"},
         pc = "ended" \/ (upload[u].pc \notin Holding \union {"ended"} /\ pc \notin Holding),
         UNCHANGED <<rows, disk, pool, pruner>>
  PROVE  Passed(u, pc)
<1>. DEFINE r == [upload[u] EXCEPT !.pc = pc]
<1>2. upload[u] \in Handler
  BY DEF UploadType
<1>3. r \in Handler /\ r.pc = pc /\ r.in = upload[u].in /\ r.out = upload[u].out
      /\ r.path = upload[u].path /\ r.left = upload[u].left
  BY <1>2 DEF Handler
<1>4. Go(u, r)
  BY DEF To
<1>. HIDE DEF r
<1>5. UploadType' /\ upload'[u] = r /\ \A v \in Uploads : v # u => upload'[v] = upload[v]
  BY <1>3, <1>4, Moved
<1>. QED  BY <1>3, <1>5 DEF Passed

LEMMA CreateSystemPasses ==
  ASSUME UploadType, IdsType, NEW u \in Uploads, CreateSystem(u)
  PROVE  IdsType' /\ \E pc \in PCs : Passed(u, pc)
<1>0. upload[u].pc = "createSystem" /\ UNCHANGED <<rows, disk, pool, pruner>>
  BY DEF CreateSystem, At
<1>1. CASE ids.sys # 0
  <2>1. To(u, "ended") /\ UNCHANGED ids
    BY <1>1 DEF CreateSystem
  <2>2. Passed(u, "ended")
    BY <1>0, <2>1, ToPasses DEF PCs
  <2>. QED  BY <2>1, <2>2 DEF IdsType, PCs
<1>2. CASE ids.sys = 0
  <2>. DEFINE n == ids.usedSys + 1
              r == [upload[u] EXCEPT !.pc = "talkgroup", !.sys = n]
  <2>1. ids' = [ids EXCEPT !.sys = n, !.usedSys = n]
    BY <1>2 DEF CreateSystem, IdsType
  <2>2. n \in Id \ {0}
    BY <1>2, IngestAssumption DEF IdsType, Id, IngestAssumption
  <2>3. Go(u, r)
    <3>1. ids'.sys = n
      BY <2>1 DEF IdsType
    <3>. QED  BY <1>2, <3>1 DEF CreateSystem
  <2>. HIDE DEF n
  <2>4. IdsType'
    BY <2>1, <2>2 DEF IdsType, Id
  <2>5. upload[u] \in Handler /\ n \in Nat
    BY <2>2 DEF UploadType, Id
  <2>6. r \in Handler /\ r.pc = "talkgroup" /\ r.in = upload[u].in /\ r.out = upload[u].out
        /\ r.path = upload[u].path /\ r.left = upload[u].left
    BY <2>5 DEF Handler, PCs
  <2>. HIDE DEF r
  <2>7. UploadType' /\ upload'[u] = r /\ \A v \in Uploads : v # u => upload'[v] = upload[v]
    BY <2>3, <2>6, Moved
  <2>8. Passed(u, "talkgroup")
    BY <1>0, <2>6, <2>7 DEF Passed, PCs, Holding
  <2>. QED  BY <2>4, <2>8 DEF PCs
<1>. QED  BY <1>1, <1>2

LEMMA CreateTalkgroupPasses ==
  ASSUME UploadType, IdsType, NEW u \in Uploads, CreateTalkgroup(u)
  PROVE  IdsType' /\ \E pc \in PCs : Passed(u, pc)
<1>0. upload[u].pc = "createTalkgroup" /\ UNCHANGED <<rows, disk, pool, pruner>>
  BY DEF CreateTalkgroup, At
<1>1. CASE ids.tg # 0 \/ ids.sys # upload[u].sys
  <2>1. To(u, "ended") /\ UNCHANGED ids
    BY <1>1 DEF CreateTalkgroup
  <2>2. Passed(u, "ended")
    BY <1>0, <2>1, ToPasses DEF PCs
  <2>. QED  BY <2>1, <2>2 DEF IdsType, PCs
<1>2. CASE ~(ids.tg # 0 \/ ids.sys # upload[u].sys)
  <2>. DEFINE n == ids.usedTg + 1
              r == [upload[u] EXCEPT !.pc = "duplicate", !.tg = n]
  <2>1. ids' = [ids EXCEPT !.tg = n, !.usedTg = n, !.tgOf = ids.sys]
    BY <1>2 DEF CreateTalkgroup, IdsType
  <2>2. n \in Id \ {0}
    BY <1>2, IngestAssumption DEF IdsType, Id, IngestAssumption
  <2>3. Go(u, r)
    <3>1. ids'.tg = n
      BY <2>1 DEF IdsType
    <3>. QED  BY <1>2, <3>1 DEF CreateTalkgroup
  <2>. HIDE DEF n
  <2>4. IdsType'
    BY <2>1, <2>2 DEF IdsType, Id
  <2>5. upload[u] \in Handler /\ n \in Nat
    BY <2>2 DEF UploadType, Id
  <2>6. r \in Handler /\ r.pc = "duplicate" /\ r.in = upload[u].in /\ r.out = upload[u].out
        /\ r.path = upload[u].path /\ r.left = upload[u].left
    BY <2>5 DEF Handler, PCs
  <2>. HIDE DEF r
  <2>7. UploadType' /\ upload'[u] = r /\ \A v \in Uploads : v # u => upload'[v] = upload[v]
    BY <2>3, <2>6, Moved
  <2>8. Passed(u, "duplicate")
    BY <1>0, <2>6, <2>7 DEF Passed, PCs, Holding
  <2>. QED  BY <2>4, <2>8 DEF PCs
<1>. QED  BY <1>1, <1>2


LEMMA CheckDuplicatePasses ==
  ASSUME UploadType, CountType, NEW u \in Uploads, CheckDuplicate(u)
  PROVE  CountType' /\ \E pc \in PCs : Passed(u, pc)
<1>. DEFINE there == {v \in HasRow : rows[v].tg = upload[u].tg}
            pc1 == IF \E v \in there : Near(call[u].time, call[v].time) THEN "ended" ELSE "store"
            r1 == [upload[u] EXCEPT !.pc = pc1, !.seen = there]
            r2 == [upload[u] EXCEPT !.pc = "store", !.blind = TRUE]
<1>1. \/ Go(u, r1) /\ UNCHANGED failures
      \/ failures < MaxFailures /\ failures' = failures + 1 /\ Go(u, r2)
  BY DEF CheckDuplicate
<1>2. upload[u] \in Handler /\ there \in SUBSET Uploads /\ pc1 \in {"ended", "store"}
  BY DEF UploadType, HasRow
<1>. HIDE DEF there, pc1
<1>3. r1 \in Handler /\ r1.pc = pc1 /\ r1.in = upload[u].in /\ r1.out = upload[u].out
      /\ r1.path = upload[u].path /\ r1.left = upload[u].left
  BY <1>2 DEF Handler, PCs
<1>4. r2 \in Handler /\ r2.pc = "store" /\ r2.in = upload[u].in /\ r2.out = upload[u].out
      /\ r2.path = upload[u].path /\ r2.left = upload[u].left
  BY <1>2 DEF Handler, PCs
<1>. HIDE DEF r1, r2
<1>5. upload[u].pc = "duplicate" /\ UNCHANGED <<rows, disk, pool, pruner, restarts>>
  BY DEF CheckDuplicate, At
<1>6. ASSUME NEW r \in {r1, r2}, Go(u, r) PROVE Passed(u, r.pc) /\ r.pc \in PCs
  <2>1. UploadType' /\ upload'[u] = r /\ \A v \in Uploads : v # u => upload'[v] = upload[v]
    BY <1>3, <1>4, <1>6, Moved
  <2>. QED  BY <1>2, <1>3, <1>4, <1>5, <2>1 DEF Passed, PCs, Holding
<1>7. CountType'
  BY <1>1, <1>5, IngestAssumption DEF CountType, IngestAssumption
<1>. QED  BY <1>1, <1>6, <1>7

LEMMA GiveUpPasses ==
  ASSUME UploadType, NamesOK, CountType, NEW u \in Uploads, GiveUp(u), upload[u].pc # "convert"
  PROVE  CountType' /\ Passed(u, "ended")
<1>. DEFINE r == [upload[u] EXCEPT !.pc = "ended", !.left = FALSE]
<1>1. upload[u] \in Handler /\ upload[u].left = FALSE
  <2>1. upload[u] \in Handler /\ upload[u].left \in BOOLEAN
    BY DEF UploadType, Handler
  <2>2. ~upload[u].left
    BY DEF NamesOK, GiveUp
  <2>. QED  BY <2>1, <2>2
<1>2. Go(u, r)
  <2>1. At(u, "convert") = FALSE
    BY DEF At
  <2>. QED  BY <2>1 DEF GiveUp
<1>3. r \in Handler /\ r.pc = "ended" /\ r.in = upload[u].in /\ r.out = upload[u].out
      /\ r.path = upload[u].path /\ r.left = upload[u].left
  BY <1>1 DEF Handler, PCs
<1>. HIDE DEF r
<1>4. UploadType' /\ upload'[u] = r /\ \A v \in Uploads : v # u => upload'[v] = upload[v]
  BY <1>2, <1>3, Moved
<1>5. upload[u].pc # "submit" /\ UNCHANGED <<rows, disk, pool, pruner, restarts>> /\ failures' = failures + 1
      /\ failures < MaxFailures
  BY DEF GiveUp, At, disk
<1>6. CountType'
  BY <1>5, IngestAssumption DEF CountType, IngestAssumption
<1>. QED  BY <1>3, <1>4, <1>5, <1>6 DEF Passed

LEMMA PassedKeeps ==
  ASSUME IngestType, Audio, NEW u \in Uploads, NEW pc \in PCs, Passed(u, pc)
  PROVE  Audio'
<1>. USE DEF Audio, IngestType
<1>1. /\ \A v \in Uploads : /\ upload'[v].in = upload[v].in /\ upload'[v].out = upload[v].out
                            /\ upload'[v].path = upload[v].path /\ upload'[v].left = upload[v].left
      /\ \A v \in Uploads : v # u => upload'[v] = upload[v]
      /\ upload'[u].pc = pc /\ pc \notin Holding /\ upload[u].pc # "convert" /\ upload[u].pc # "submit"
      /\ (upload[u].pc \notin Holding \union {"ended"} \/ pc = "ended")
      /\ (upload[u].pc = "ended" => pc = "ended")
      /\ rows' = rows /\ files' = files /\ reclaimed' = reclaimed /\ jobs' = jobs
      /\ running' = running /\ outcome' = outcome /\ pruner' = pruner /\ HasRow' = HasRow
  BY DEF Passed, disk, pool, Holding, HasRow
<1>2. NamesOK'
  <2>. SUFFICES ASSUME NEW v \in Uploads PROVE NamesOK!(v)'
    BY DEF NamesOK
  <2>1. CASE v # u
    BY <1>1, <2>1 DEF NamesOK
  <2>2. CASE v = u
    BY <1>1, <2>2 DEF NamesOK, Holding
  <2>. QED  BY <2>1, <2>2
<1>3. RowsOK'
  BY <1>1 DEF RowsOK, HasRow
<1>4. BatchOK' /\ JobsOK'
  <2>1. ASSUME NEW v \in Uploads, upload[v].pc = "ended" PROVE upload'[v].pc = "ended"
    BY <1>1, <2>1
  <2>2. ASSUME NEW v \in Uploads, upload[v].pc = "convert" PROVE upload'[v].pc = "convert"
    BY <1>1, <2>2
  <2>3. \A i \in Entries : pruner.batch[i] \in Entry
    BY DEF PrunerType, Entries
  <2>4. BatchOK'
    BY <1>1, <2>1, <2>3 DEF BatchOK, Entries, Entry
  <2>5. \A j \in Job : JobOK(j) => JobOK(j)'
    BY <1>1, <2>2 DEF JobOK, Job
  <2>6. (\A i \in Queued : jobs[i] \in Job) /\ \A j \in running : j \in Job
    BY DEF JobsType, Queued
  <2>7. JobsOK'
    BY <1>1, <2>5, <2>6 DEF JobsOK, Queued
  <2>. QED  BY <2>4, <2>7
<1>5. NamesTaken'
  BY <1>1 DEF NamesTaken
<1>6. \A v \in Uploads : (Holds(v)' => Holds(v)) /\ (Spoiled(v) <=> Spoiled(v)')
  BY <1>1 DEF Holds, Doomed, Gone, Entries, Spoiled, Bad, Victim
<1>7. \A v \in Uploads : \A p : Claims(v, p)' => Claims(v, p)
  BY <1>1, <1>6 DEF Claims, Holding
<1>8. \A p : (Bad(p) <=> Bad(p)') /\ (Exists(p) <=> Exists(p)')
  BY <1>1 DEF Bad, Exists
<1>9. ClaimsStand' /\ ClaimsDiffer'
  BY <1>7, <1>8 DEF ClaimsStand, ClaimsDiffer
<1>10. StoredIsOwn'
  BY <1>1, <1>6 DEF StoredIsOwn, Intact, Exists
<1>11. WrittenIsOwn'
  BY <1>1, <1>6 DEF WrittenIsOwn, Intact, Exists, Holding
<1>12. ReadIsOwn'
  BY <1>1, <1>6 DEF ReadIsOwn, JobsType, Job
<1>. QED  BY <1>2, <1>3, <1>4, <1>5, <1>9, <1>10, <1>11, <1>12

-----------------------------------------------------------------------------
(* Steps of a handler on files: it touches names nobody has, and those that *)
(* it counts on.                                                            *)

HandlerStep(u) ==
  /\ upload[u].pc \in {"store"} \union Holding
  /\ \A v \in Uploads : v # u => upload'[v] = upload[v] /\ rows'[v] = rows[v]
                                 /\ outcome'[v] = outcome[v]
  /\ pruner' = pruner /\ reclaimed' = reclaimed /\ running' = running
  /\ \A p : Exists(p) => Claims(u, p) \/ (Exists(p)' /\ files'[p] = files[p])

LEMMA Quiet ==
  ASSUME IngestType, Audio, NEW u \in Uploads, upload[u].pc # "ended"
  PROVE  u \notin HasRow /\ ~Doomed(u) /\ ~upload[u].left
<1>1. u \notin HasRow /\ ~upload[u].left
  BY DEF Audio, RowsOK, NamesOK
<1>2. ~Doomed(u)
  BY DEF Audio, BatchOK, Doomed
<1>. QED  BY <1>1, <1>2

LEMMA BatchType ==
  ASSUME PrunerType
  PROVE  /\ pruner.batch \in Seq(Entry)
         /\ \A i \in Entries : /\ pruner.batch[i] \in Entry
                               /\ pruner.batch[i].of \in Uploads /\ pruner.batch[i].path \in Name
<1>1. pruner.batch \in Seq(Entry)
  BY DEF PrunerType
<1>2. \A i \in Entries : pruner.batch[i] \in Entry
  BY <1>1 DEF Entries
<1>. QED  BY <1>1, <1>2 DEF Entry

LEMMA OthersHold ==
  ASSUME IngestType, Audio, NEW u \in Uploads, HandlerStep(u)
  PROVE  /\ \A p : Bad(p) => Bad(p)'
         /\ \A v \in Uploads : v # u => (Holds(v)' <=> Holds(v)) /\ (Spoiled(v) => Spoiled(v)')
         /\ \A v \in Uploads : v # u => \A p : Claims(v, p)' <=> Claims(v, p)
         /\ BatchOK' /\ ~Doomed(u)'
<1>1. u \notin HasRow /\ ~Doomed(u) /\ ~upload[u].left /\ upload[u].pc # "ended"
  BY Quiet DEF HandlerStep, Holding
<1>2. \A p : Bad(p) => Bad(p)'
  <2>. SUFFICES ASSUME NEW p, NEW v \in Uploads, upload[v].left, upload[v].out = p
                PROVE  upload'[v].left /\ upload'[v].out = p
    BY DEF Bad, HandlerStep
  <2>. QED  BY <1>1 DEF HandlerStep
<1>3. \A v \in Uploads : v # u => (Holds(v)' <=> Holds(v)) /\ (Spoiled(v) => Spoiled(v)')
  <2>. SUFFICES ASSUME NEW v \in Uploads, v # u
                PROVE  (Holds(v)' <=> Holds(v)) /\ (Spoiled(v) => Spoiled(v)')
    OBVIOUS
  <2>1. upload'[v] = upload[v] /\ (v \in HasRow <=> v \in HasRow')
    BY DEF HandlerStep, HasRow
  <2>2. (Doomed(v)' <=> Doomed(v)) /\ (Gone(v)' <=> Gone(v))
    BY DEF HandlerStep, Doomed, Gone, Entries, Victim
  <2>3. Holds(v)' <=> Holds(v)
    BY <2>1, <2>2 DEF Holds
  <2>4. Spoiled(v) => Spoiled(v)'
    BY <1>2, <2>1 DEF Spoiled
  <2>. QED  BY <2>3, <2>4
<1>4. \A v \in Uploads : v # u => \A p : Claims(v, p)' <=> Claims(v, p)
  BY <1>3 DEF Claims, HandlerStep
<1>5. BatchOK'
  <2>1. \A i \in Entries : pruner.batch[i].of \in Uploads /\ pruner.batch[i].of # u
    BY <1>1, BatchType DEF Doomed, IngestType
  <2>. QED  BY <2>1 DEF Audio, BatchOK, Entries, HandlerStep
<1>6. ~Doomed(u)'
  BY <1>1 DEF Doomed, Entries, HandlerStep
<1>. QED  BY <1>2, <1>3, <1>4, <1>5, <1>6

LEMMA PathIsName ==
  ASSUME NamesOK, NEW u \in Uploads, Bad(upload[u].path)
  PROVE  Spoiled(u)
BY DEF NamesOK, Spoiled

LEMMA UploadNames ==
  ASSUME UploadType, NEW u \in Uploads
  PROVE  upload[u].path \in Name /\ upload[u].in \in Name /\ upload[u].out \in Name
BY DEF UploadType, Handler

\* What another counts on is as it was, or its name is bad.
LEMMA OthersFiles ==
  ASSUME IngestType, Audio, NEW u \in Uploads, HandlerStep(u),
         NEW v \in Uploads, v # u, NEW p \in Name, Claims(v, p)
  PROVE  Bad(p) \/ (Exists(p) /\ Exists(p)' /\ files'[p] = files[p])
BY DEF Audio, ClaimsStand, ClaimsDiffer, HandlerStep

LEMMA HandlerKeeps ==
  ASSUME IngestType, Audio, NEW u \in Uploads, HandlerStep(u), UploadType',
         NamesOK', JobsOK', NamesTaken',
         u \in HasRow' => upload'[u].pc = "ended" /\ rows'[u].path = upload'[u].path,
         \A p : Claims(u, p)' => (Exists(p)' \/ Bad(p)) /\ (Claims(u, p) \/ ~Exists(p)),
         Holds(u)' => Spoiled(u)' \/ Intact(u, upload[u].path)',
         upload'[u].pc = "convert" /\ outcome'[u] = "done" =>
           Spoiled(u)' \/ Intact(u, upload[u].out)',
         Spoiled(u) => Spoiled(u)'
  PROVE  Audio'
<1>1. /\ \A p : Bad(p) => Bad(p)'
      /\ \A v \in Uploads : v # u => (Holds(v)' <=> Holds(v))
      /\ \A v \in Uploads : Spoiled(v) => Spoiled(v)'
      /\ \A v \in Uploads : v # u => \A p : Claims(v, p)' <=> Claims(v, p)
      /\ BatchOK'
  BY OthersHold
<1>2. RowsOK'
  BY DEF RowsOK, HandlerStep, HasRow, Audio
<1>3. ClaimsStand'
  <2>. SUFFICES ASSUME NEW v \in Uploads, NEW p \in Name, Claims(v, p)'
                PROVE  Exists(p)' \/ Bad(p)'
    BY DEF ClaimsStand, Name, Wavs, M4as, Tmps
  <2>1. CASE v = u
    BY <1>1, <2>1
  <2>2. CASE v # u
    BY <1>1, <2>2, OthersFiles
  <2>. QED  BY <2>1, <2>2
<1>4. ClaimsDiffer'
  <2>. SUFFICES ASSUME NEW v \in Uploads, NEW w \in Uploads, NEW p \in Name,
                       v # w, Claims(v, p)', Claims(w, p)'
                PROVE  Bad(p)'
    BY DEF ClaimsDiffer, Name, Wavs, M4as, Tmps
  <2>1. CASE v # u /\ w # u
    BY <1>1, <2>1 DEF Audio, ClaimsDiffer
  <2>2. ASSUME NEW x \in Uploads, x # u, Claims(x, p), Claims(u, p)' PROVE Bad(p)
    <3>1. CASE Claims(u, p)
      BY <2>2, <3>1 DEF Audio, ClaimsDiffer
    <3>2. CASE ~Exists(p)
      BY <2>2, <3>2 DEF Audio, ClaimsStand
    <3>. QED  BY <2>2, <3>1, <3>2
  <2>. QED  BY <1>1, <2>1, <2>2
<1>5. StoredIsOwn'
  <2>. SUFFICES ASSUME NEW v \in Uploads, v # u, Holds(v)'
                PROVE  Spoiled(v)' \/ Intact(v, upload[v].path)'
    BY DEF StoredIsOwn
  <2>1. Holds(v) /\ upload'[v] = upload[v] /\ upload[v].path \in Name
    BY <1>1, UploadNames DEF HandlerStep, IngestType
  <2>2. Claims(v, upload[v].path)
    BY <2>1 DEF Claims
  <2>3. CASE Spoiled(v)
    BY <1>1, <2>3
  <2>4. CASE ~Spoiled(v)
    <3>1. ~Bad(upload[v].path) /\ Intact(v, upload[v].path)
      BY <2>1, <2>4, PathIsName DEF Audio, StoredIsOwn
    <3>. QED  BY <2>1, <2>2, <3>1, OthersFiles DEF Intact, Exists
  <2>. QED  BY <2>3, <2>4
<1>6. WrittenIsOwn'
  <2>. SUFFICES ASSUME NEW v \in Uploads, v # u, upload'[v].pc = "convert", outcome'[v] = "done"
                PROVE  Spoiled(v)' \/ Intact(v, upload[v].out)'
    BY DEF WrittenIsOwn
  <2>1. upload'[v] = upload[v] /\ outcome'[v] = outcome[v] /\ upload[v].out \in Name
    BY UploadNames DEF HandlerStep, IngestType
  <2>2. Claims(v, upload[v].out)
    BY <2>1 DEF Claims, Holds, Holding
  <2>3. CASE Spoiled(v)
    BY <1>1, <2>3
  <2>4. CASE ~Spoiled(v)
    <3>1. ~Bad(upload[v].out) /\ Intact(v, upload[v].out)
      BY <2>1, <2>4 DEF Spoiled, Audio, WrittenIsOwn
    <3>. QED  BY <2>1, <2>2, <3>1, OthersFiles DEF Intact, Exists
  <2>. QED  BY <2>3, <2>4
<1>7. ReadIsOwn'
  <2>1. \A j \in running : j.of \in Uploads
    BY DEF IngestType, JobsType, Job
  <2>. QED  BY <1>1, <2>1 DEF Audio, ReadIsOwn, HandlerStep
<1>. QED  BY <1>1, <1>2, <1>3, <1>4, <1>5, <1>6, <1>7 DEF Audio

LEMMA PendingType ==
  ASSUME JobsType
  PROVE  /\ jobs \in Seq(Job)
         /\ \A i \in Queued : jobs[i] \in Job /\ jobs[i].of \in Uploads
         /\ \A j \in running : j \in Job /\ j.of \in Uploads /\ j.out \in Name
<1>1. jobs \in Seq(Job) /\ \A j \in running : j \in Job
  BY DEF JobsType
<1>2. \A i \in Queued : jobs[i] \in Job
  BY <1>1 DEF Queued
<1>. QED  BY <1>1, <1>2 DEF Job

\* An upload that does not wait for a conversion has no job to lose.
LEMMA NoJob ==
  ASSUME IngestType, Audio, NEW u \in Uploads, upload[u].pc \notin {"convert", "ended"}
  PROVE  (\A i \in Queued : jobs[i].of # u) /\ (\A j \in running : j.of # u)
<1>1. ~upload[u].left
  BY DEF Audio, NamesOK
<1>. QED  BY <1>1 DEF Audio, JobsOK, JobOK

LEMMA JobsOfOthers ==
  ASSUME IngestType, Audio, NEW u \in Uploads, upload[u].pc \notin {"convert", "ended"},
         \A v \in Uploads : v # u => upload'[v] = upload[v], UNCHANGED pool
  PROVE  JobsOK'
<1>1. (\A i \in Queued : jobs[i].of # u /\ jobs[i].of \in Uploads)
      /\ \A j \in running : j.of # u /\ j.of \in Uploads
  BY NoJob, PendingType DEF IngestType
<1>2. jobs' = jobs /\ running' = running /\ outcome' = outcome
  BY DEF pool
<1>3. \A v \in Uploads : outcome[v] # "none" =>
        v # u /\ (upload[v].pc = "convert" \/ upload[v].left)
  BY DEF Audio, JobsOK, NamesOK
<1>4. \A v \in Uploads : outcome'[v] # "none" => upload'[v].pc = "convert" \/ upload'[v].left
  BY <1>2, <1>3
<1>5. (\A i \in Queued : JobOK(jobs[i])') /\ (\A j \in running : JobOK(j)')
  BY <1>1, <1>2 DEF Audio, JobsOK, JobOK
<1>. QED  BY <1>2, <1>4, <1>5 DEF Audio, JobsOK, Queued

LEMMA CallType ==
  ASSUME call \in Calls, NEW u \in Uploads
  PROVE  call[u].ext \in {"wav", "m4a"} /\ call[u].time \in Nat
BY IngestAssumption DEF IngestAssumption

LEMMA PutType ==
  ASSUME FilesType, NEW p \in Wavs \union M4as \union Tmps, NEW u \in Uploads \union {None},
         files' = Put(files, p, u)
  PROVE  FilesType'
<1>1. /\ DOMAIN files' = DOMAIN files \union {p} /\ files'[p] = u
      /\ \A q \in DOMAIN files : q # p => files'[q] = files[q]
  BY DEF Put
<1>. QED  BY <1>1 DEF FilesType

LEMMA DropType ==
  ASSUME FilesType, NEW S, files' = Drop(files, S)
  PROVE  FilesType'
<1>1. DOMAIN files' = DOMAIN files \ S /\ \A q \in DOMAIN files \ S : files'[q] = files[q]
  BY DropIs
<1>. QED  BY <1>1 DEF FilesType

LEMMA StoreKeeps ==
  ASSUME IngestType, Audio, NEW u \in Uploads, Store(u)
  PROVE  IngestType' /\ Audio'
<1>. DEFINE r(p, pc) == [upload[u] EXCEPT !.pc = pc, !.path = p, !.in = p]
<1>1. PICK p \in Unique(0, call[u].ext), pc \in {"submit", "insert"} :
        files' = Put(files, p, u) /\ Go(u, r(p, pc))
  BY DEF Store
<1>2. /\ upload[u].pc = "store"
      /\ UNCHANGED <<call, ids, rows, kept, reclaimed, pool, pruner, failures, restarts>>
  BY DEF Store, At
<1>3. p \in Wavs \union M4as /\ ~Exists(p)
  <2>1. call[u].ext \in Exts /\ 0 \in Stems /\ call[u].ext \in {"wav", "m4a"}
    BY CallType, Sizes DEF IngestType, Exts
  <2>2. p \in Stems \X {call[u].ext} /\ ~Exists(p)
    BY <2>1, UniqueIsNew DEF Audio
  <2>. QED  BY <2>1, <2>2 DEF Wavs, M4as
<1>4. r(p, pc) \in Handler /\ r(p, pc).pc = pc /\ r(p, pc).in = p /\ r(p, pc).path = p
      /\ r(p, pc).out = upload[u].out /\ r(p, pc).left = upload[u].left
  <2>1. upload[u] \in Handler /\ p \in Name /\ pc \in PCs
    BY <1>3 DEF IngestType, UploadType, Name, PCs
  <2>. QED  BY <2>1 DEF Handler
<1>. HIDE DEF r
<1>5. UploadType' /\ upload'[u] = r(p, pc) /\ \A v \in Uploads : v # u => upload'[v] = upload[v]
  BY <1>1, <1>4, Moved DEF IngestType
<1>6. /\ u \notin HasRow /\ ~Doomed(u) /\ ~upload[u].left
      /\ upload[u].in = NoPath /\ upload[u].out = NoPath
  BY <1>2, Quiet DEF Audio, NamesOK, Holding
<1>7. HasRow' = HasRow /\ jobs' = jobs /\ running' = running /\ outcome' = outcome
  BY <1>2 DEF HasRow, pool
<1>8. DOMAIN files' = DOMAIN files \union {p} /\ files'[p] = u
      /\ \A q \in DOMAIN files : files'[q] = files[q]
  BY <1>1, <1>3 DEF Put, Exists
<1>9. IngestType'
  <2>1. FilesType'
    BY <1>1, <1>3, PutType DEF IngestType
  <2>. QED  BY <1>2, <1>5, <1>7, <2>1 DEF IngestType, IdsType, RowsType, JobsType, PrunerType, CountType
<1>10. NamesOK'
  <2>1. p # NoPath
    BY <1>3, Kinds
  <2>2. ASSUME NEW v \in Uploads, v # u PROVE upload'[v] = upload[v] /\ (v \in HasRow' <=> v \in HasRow)
    BY <1>5, <1>7, <2>2
  <2>. QED  BY <1>3, <1>4, <1>5, <1>6, <1>7, <2>1, <2>2, Kinds DEF Audio, NamesOK, Holding
<1>11. HandlerStep(u)
  BY <1>2, <1>3, <1>5, <1>7, <1>8 DEF HandlerStep, Exists
<1>12. JobsOK'
  BY <1>2, <1>5, JobsOfOthers
<1>13. NamesTaken'
  <2>1. \A v \in Uploads : v # u => upload'[v].in = upload[v].in /\ upload'[v].out = upload[v].out
    BY <1>5
  <2>2. p # NoPath /\ NoPath \notin DOMAIN files
    BY <1>3, Kinds DEF IngestType, FilesType
  <2>3. upload'[u].in = p
    BY <1>4, <1>5
  <2>4. \A q \in DOMAIN files : \E v \in Uploads : v # u /\ (q = upload[v].in \/ q = upload[v].out)
    BY <1>6, <2>2 DEF Audio, NamesTaken
  <2>. QED  BY <1>8, <2>1, <2>3, <2>4 DEF NamesTaken
<1>14. \A q : Claims(u, q)' => Exists(q)' /\ ~Exists(q)
  BY <1>3, <1>4, <1>5, <1>8 DEF Claims, Exists
<1>15. Intact(u, upload[u].path)'
  BY <1>4, <1>5, <1>8 DEF Intact, Exists
<1>16. ~Spoiled(u)
  <2>1. ~Bad(NoPath)
    BY Kinds DEF Bad, IngestType, PrunerType, Audio, NamesOK
  <2>. QED  BY <1>6, <2>1 DEF Spoiled
<1>17. upload'[u].pc # "convert" /\ u \notin HasRow'
  BY <1>4, <1>5, <1>6, <1>7
<1>18. Audio'
  BY <1>5, <1>10, <1>11, <1>12, <1>13, <1>14, <1>15, <1>16, <1>17, HandlerKeeps
<1>. QED  BY <1>9, <1>18

\* Another job at the end of the queue.
LEMMA Appended ==
  ASSUME NEW S, NEW q \in Seq(S), NEW e \in S
  PROVE  /\ Append(q, e) \in Seq(S) /\ Len(Append(q, e)) = Len(q) + 1
         /\ Append(q, e)[Len(q) + 1] = e
         /\ \A i \in 1..Len(q) : Append(q, e)[i] = q[i]
OBVIOUS

LEMMA SubmitKeeps ==
  ASSUME IngestType, Audio, NEW u \in Uploads, Submit(u)
  PROVE  IngestType' /\ Audio'
<1>. DEFINE r(p) == [upload[u] EXCEPT !.pc = "convert", !.out = p]
            k(p) == [of |-> u, in |-> upload[u].path, out |-> p, read |-> None]
            ext  == IF InPlace(u) THEN "tmp.m4a" ELSE "m4a"
<1>0. upload[u].pc = "submit"
  BY DEF Submit, At
<1>1. PICK p \in Unique(upload[u].path[1], ext) :
        files' = Put(files, p, None) /\ Go(u, r(p)) /\ jobs' = Append(jobs, k(p))
        /\ UNCHANGED <<call, ids, rows, kept, reclaimed, running, outcome, pruner, failures, restarts>>
  BY DEF Submit, Ask
<1>2. /\ u \notin HasRow /\ ~Doomed(u) /\ ~upload[u].left /\ upload[u] \in Handler
      /\ upload[u].in \in Wavs \union M4as /\ upload[u].path = upload[u].in
      /\ upload[u].out = NoPath /\ outcome[u] = "none"
  BY <1>0, Quiet DEF Audio, NamesOK, Holding, JobsOK, IngestType, UploadType
<1>3. ~Exists(p) /\ (p \in M4as \/ p \in Tmps)
      /\ (p \in M4as => upload[u].in \in Wavs) /\ (p \in Tmps => upload[u].in \in M4as)
  <2>1. upload[u].path[1] \in Stems /\ ext \in Exts
    BY <1>2 DEF Wavs, M4as, Exts
  <2>2. p \in Stems \X {ext} /\ ~Exists(p)
    BY <1>1, <2>1, UniqueIsNew DEF Audio
  <2>3. CASE upload[u].in \in Wavs
    <3>1. ~InPlace(u)
      BY <1>2, <2>3 DEF InPlace, Wavs
    <3>. QED  BY <2>2, <2>3, <3>1, Kinds DEF M4as
  <2>4. CASE upload[u].in \in M4as
    <3>1. InPlace(u)
      BY <1>2, <2>4 DEF InPlace, M4as
    <3>. QED  BY <2>2, <2>4, <3>1, Kinds DEF Tmps
  <2>. QED  BY <1>2, <2>3, <2>4
<1>. HIDE DEF ext
<1>4. r(p) \in Handler /\ r(p).pc = "convert" /\ r(p).in = upload[u].in /\ r(p).path = upload[u].path
      /\ r(p).out = p /\ r(p).left = upload[u].left
  <2>1. p \in Name
    BY <1>3 DEF Name
  <2>. QED  BY <1>2, <2>1 DEF Handler, PCs
<1>5. k(p) \in Job /\ k(p).of = u /\ k(p).in = upload[u].in /\ k(p).out = p
  <2>1. p \in Name /\ upload[u].path \in Name
    BY <1>2, <1>3 DEF Name
  <2>. QED  BY <1>2, <2>1 DEF Job
<1>. HIDE DEF r, k
<1>6. UploadType' /\ upload'[u] = r(p) /\ \A v \in Uploads : v # u => upload'[v] = upload[v]
  BY <1>1, <1>4, Moved DEF IngestType
<1>7. HasRow' = HasRow /\ running' = running /\ outcome' = outcome /\ p # NoPath
  BY <1>1, <1>3, Kinds DEF HasRow
<1>8. DOMAIN files' = DOMAIN files \union {p}
      /\ \A q \in DOMAIN files : files'[q] = files[q]
  BY <1>1, <1>3 DEF Put, Exists
<1>9. /\ jobs' \in Seq(Job) /\ Len(jobs') = Len(jobs) + 1 /\ jobs'[Len(jobs) + 1] = k(p)
      /\ \A i \in Queued : jobs'[i] = jobs[i]
      /\ Len(jobs) \in Nat
  BY <1>1, <1>5, PendingType, Appended DEF IngestType, Queued
<1>10. IngestType'
  <2>1. FilesType'
    BY <1>1, <1>3, PutType DEF IngestType
  <2>2. JobsType'
    BY <1>7, <1>9 DEF IngestType, JobsType
  <2>. QED  BY <1>1, <1>6, <1>7, <2>1, <2>2 DEF IngestType, IdsType, RowsType, PrunerType, CountType
<1>11. NamesOK'
  <2>2. ASSUME NEW v \in Uploads, v # u PROVE upload'[v] = upload[v] /\ (v \in HasRow' <=> v \in HasRow)
    BY <1>6, <1>7, <2>2
  <2>. QED  BY <1>2, <1>3, <1>4, <1>6, <1>7, <2>2, Kinds DEF Audio, NamesOK, Holding
<1>12. HandlerStep(u)
  BY <1>0, <1>1, <1>6, <1>7, <1>8 DEF HandlerStep, Exists, Holding
<1>13. JobsOK'
  <2>1. /\ \A i \in Queued : jobs[i].of # u /\ jobs[i].of \in Uploads
        /\ \A j \in running : j.of # u /\ j.of \in Uploads
    BY <1>0, NoJob, PendingType DEF IngestType
  <2>2. Queued' = Queued \union {Len(jobs) + 1}
    BY <1>9 DEF Queued
  <2>3. \A i \in Queued : JobOK(jobs[i])' /\ jobs'[i] = jobs[i]
    BY <1>6, <1>7, <1>9, <2>1 DEF Audio, JobsOK, JobOK
  <2>5. \A i \in Queued' : JobOK(jobs[i])'
    BY <1>4, <1>5, <1>6, <1>2, <1>7, <1>9, <2>2, <2>3 DEF JobOK
  <2>6. \A j \in running : JobOK(j)'
    BY <1>6, <1>7, <2>1 DEF Audio, JobsOK, JobOK
  <2>7. \A i, m \in Queued' : jobs'[i].of = jobs'[m].of => i = m
    BY <1>5, <1>9, <2>1, <2>2, <2>3 DEF Audio, JobsOK
  <2>8. \A i \in Queued', j \in running : jobs'[i].of # j.of
    BY <1>5, <1>9, <2>1, <2>2, <2>3 DEF Audio, JobsOK
  <2>9. \A v \in Uploads : outcome'[v] # "none" => upload'[v].pc = "convert" \/ upload'[v].left
    BY <1>4, <1>6, <1>7 DEF Audio, JobsOK
  <2>. QED  BY <1>7, <2>5, <2>6, <2>7, <2>8, <2>9 DEF Audio, JobsOK
<1>14. NamesTaken'
  <2>1. \A v \in Uploads : v # u => upload'[v].in = upload[v].in /\ upload'[v].out = upload[v].out
    BY <1>6
  <2>2. NoPath \notin DOMAIN files
    BY Kinds DEF IngestType, FilesType
  <2>3. upload'[u].out = p /\ upload'[u].in = upload[u].in
    BY <1>4, <1>6
  <2>. QED  BY <1>2, <1>8, <2>1, <2>2, <2>3 DEF Audio, NamesTaken
<1>15. \A q : Claims(u, q)' => (Exists(q)' \/ Bad(q)) /\ (Claims(u, q) \/ ~Exists(q))
  <2>. SUFFICES ASSUME NEW q, Claims(u, q)'
                PROVE  (Exists(q)' \/ Bad(q)) /\ (Claims(u, q) \/ ~Exists(q))
    OBVIOUS
  <2>1. q = p \/ q = upload[u].path
    BY <1>4, <1>6 DEF Claims
  <2>2. CASE q = p
    BY <1>3, <1>8, <2>2 DEF Exists
  <2>3. CASE q = upload[u].path
    <3>1. Claims(u, q) /\ q \in Name
      BY <1>0, <1>2, <2>3 DEF Claims, Holds, Holding, Name
    <3>. QED  BY <1>8, <3>1 DEF Audio, ClaimsStand, Exists
  <2>. QED  BY <2>1, <2>2, <2>3
<1>16. Spoiled(u) => Spoiled(u)'
  <2>1. ~Bad(NoPath)
    BY Kinds DEF Bad, IngestType, PrunerType, Audio, NamesOK
  <2>2. \A q : Bad(q) => Bad(q)'
    BY <1>12, OthersHold
  <2>. QED  BY <1>2, <1>4, <1>6, <2>1, <2>2 DEF Spoiled
<1>17. Holds(u)' => Spoiled(u)' \/ Intact(u, upload[u].path)'
  <2>1. Holds(u)
    BY <1>0 DEF Holds, Holding
  <2>2. Spoiled(u) \/ Intact(u, upload[u].path)
    BY <2>1 DEF Audio, StoredIsOwn
  <2>3. upload'[u].path = upload[u].path
    BY <1>4, <1>6
  <2>. QED  BY <1>8, <1>16, <2>2, <2>3 DEF Intact, Exists
<1>18. outcome'[u] # "done" /\ u \notin HasRow'
  BY <1>2, <1>7
<1>19. Audio'
  BY <1>6, <1>11, <1>12, <1>13, <1>14, <1>15, <1>16, <1>17, <1>18, HandlerKeeps
<1>. QED  BY <1>10, <1>19

LEMMA Converting ==
  ASSUME IngestType, Audio, NEW u \in Uploads, upload[u].pc = "convert"
  PROVE  /\ u \notin HasRow /\ ~Doomed(u) /\ ~upload[u].left /\ upload[u] \in Handler
         /\ upload[u].in \in Wavs \union M4as /\ upload[u].path = upload[u].in
         /\ upload[u].out \in M4as \union Tmps /\ upload[u].out # upload[u].path
         /\ (upload[u].out \in M4as <=> upload[u].in \in Wavs)
         /\ (InPlace(u) <=> upload[u].in \in M4as)
         /\ \A p : Claims(u, p) <=> p \in {upload[u].path, upload[u].out}
         /\ (Spoiled(u) \/ Intact(u, upload[u].path))
<1>1. u \notin HasRow /\ ~Doomed(u) /\ ~upload[u].left /\ upload[u] \in Handler
  BY Quiet DEF IngestType, UploadType
<1>2. /\ upload[u].in \in Wavs \union M4as /\ upload[u].path = upload[u].in
      /\ upload[u].out \in M4as \union Tmps /\ upload[u].out # upload[u].path
      /\ (upload[u].out \in M4as <=> upload[u].in \in Wavs)
  BY Kinds DEF Audio, NamesOK, Holding
<1>3. InPlace(u) <=> upload[u].in \in M4as
  BY <1>2 DEF InPlace, Wavs, M4as
<1>4. Holds(u) /\ \A p : Claims(u, p) <=> p \in {upload[u].path, upload[u].out}
  BY DEF Claims, Holds, Holding
<1>5. Spoiled(u) \/ Intact(u, upload[u].path)
  BY <1>4 DEF Audio, StoredIsOwn
<1>. QED  BY <1>1, <1>2, <1>3, <1>4, <1>5

\* The jobs when an upload stops waiting: it has none, or is given up.
LEMMA JobsAfter ==
  ASSUME IngestType, Audio, NEW u \in Uploads, upload[u].pc = "convert",
         \A v \in Uploads : v # u => upload'[v] = upload[v] /\ outcome'[v] = outcome[v],
         jobs' = jobs, running' = running,
         \/ outcome[u] # "none" /\ outcome'[u] = "none"
         \/ /\ upload'[u].left
            /\ upload'[u].in = upload[u].in /\ upload'[u].out = upload[u].out
  PROVE  JobsOK'
<1>1. /\ \A i \in Queued : jobs[i].of \in Uploads /\ JobOK(jobs[i])
      /\ \A j \in running : j.of \in Uploads /\ JobOK(j)
  BY PendingType DEF IngestType, Audio, JobsOK
<1>2. ~upload[u].left
  BY DEF Audio, NamesOK
<1>3. ASSUME NEW j, j.of \in Uploads, JobOK(j) PROVE JobOK(j)'
  <2>1. CASE j.of # u
    BY <1>3, <2>1 DEF JobOK
  <2>2. CASE j.of = u
    BY <1>2, <1>3, <2>2 DEF JobOK
  <2>. QED  BY <2>1, <2>2
<1>4. (\A i \in Queued : JobOK(jobs[i])') /\ (\A j \in running : JobOK(j)')
  BY <1>1, <1>3
<1>5. \A v \in Uploads : outcome'[v] # "none" => upload'[v].pc = "convert" \/ upload'[v].left
  BY DEF Audio, JobsOK
<1>. QED  BY <1>4, <1>5 DEF Audio, JobsOK, Queued

\* The request ends, and both files go.
LEMMA ConversionEnds ==
  ASSUME IngestType, Audio, NEW u \in Uploads, upload[u].pc = "convert",
         NEW r \in Handler, Go(u, r), r.pc = "ended",
         r.in = upload[u].in, r.out = upload[u].out, r.path = upload[u].path,
         \/ outcome[u] # "none" /\ outcome' = [outcome EXCEPT ![u] = "none"] /\ ~r.left
         \/ UNCHANGED outcome /\ r.left,
         NEW S \in SUBSET {upload[u].path, upload[u].out}, FilesType',
         DOMAIN files' = DOMAIN files \ S, \A q \in DOMAIN files \ S : files'[q] = files[q],
         UNCHANGED <<call, ids, rows, reclaimed, jobs, running, pruner, restarts>>, CountType'
  PROVE  IngestType' /\ Audio'
<1>1. UploadType' /\ upload'[u] = r /\ \A v \in Uploads : v # u => upload'[v] = upload[v]
  BY Moved DEF IngestType
<1>3. HasRow' = HasRow /\ u \notin HasRow /\ ~Doomed(u) /\ ~upload[u].left
  BY Quiet DEF HasRow
<1>4. outcome' \in [Uploads -> {"none", "done", "failed"}]
      /\ \A v \in Uploads : v # u => outcome'[v] = outcome[v]
  BY DEF IngestType, JobsType
<1>5. IngestType'
  BY <1>1, <1>3, <1>4 DEF IngestType, IdsType, RowsType, JobsType, PrunerType
<1>6. NamesOK'
  <2>1. ASSUME NEW v \in Uploads, v # u PROVE upload'[v] = upload[v] /\ (v \in HasRow' <=> v \in HasRow)
    BY <1>1, <1>3, <2>1
  <2>. QED  BY <1>1, <1>3, <2>1 DEF Audio, NamesOK, Holding
<1>7. HandlerStep(u)
  <2>1. \A p : Claims(u, p) <=> p \in {upload[u].path, upload[u].out}
    BY Converting
  <2>. QED  BY <1>1, <1>4, <2>1 DEF HandlerStep, Exists, Holding
<1>8. JobsOK'
  <2>1. \/ outcome[u] # "none" /\ outcome'[u] = "none"
        \/ upload'[u].left
    BY <1>1 DEF IngestType, JobsType
  <2>. QED  BY <1>1, <1>4, <2>1, JobsAfter
<1>9. NamesTaken'
  <2>1. \A v \in Uploads : upload'[v].in = upload[v].in /\ upload'[v].out = upload[v].out
    BY <1>1
  <2>. QED  BY <2>1 DEF Audio, NamesTaken
<1>10. ~Holds(u)'
  <2>1. ~Doomed(u)'
    BY <1>7, OthersHold
  <2>. QED  BY <1>1, <1>3, <2>1 DEF Holds, Holding
<1>11. Spoiled(u) => Spoiled(u)'
  <2>1. \A q : Bad(q) => Bad(q)'
    BY <1>7, OthersHold
  <2>. QED  BY <1>1, <2>1 DEF Spoiled
<1>12. u \notin HasRow' /\ upload'[u].pc # "convert" /\ \A q : ~Claims(u, q)'
  BY <1>1, <1>3, <1>10 DEF Claims
<1>. QED  BY <1>1, <1>5, <1>6, <1>7, <1>8, <1>9, <1>10, <1>11, <1>12, HandlerKeeps

\* The output takes the place of what was stored, or its name.
LEMMA ConversionKept ==
  ASSUME IngestType, Audio, NEW u \in Uploads, upload[u].pc = "convert", outcome[u] = "done",
         NEW r \in Handler, Go(u, r), r.pc = "insert", ~r.left,
         r.in = upload[u].in, r.out = upload[u].out,
         \/ /\ InPlace(u) /\ r.path = upload[u].path /\ Exists(upload[u].out)
            /\ files' = Drop(Put(files, upload[u].path, files[upload[u].out]), {upload[u].out})
         \/ ~InPlace(u) /\ r.path = upload[u].out /\ files' = Drop(files, {upload[u].path}),
         outcome' = [outcome EXCEPT ![u] = "none"],
         UNCHANGED <<call, ids, rows, reclaimed, jobs, running, pruner, failures, restarts>>
  PROVE  IngestType' /\ Audio'
<1>0. /\ u \notin HasRow /\ ~Doomed(u) /\ ~upload[u].left
      /\ upload[u].in \in Wavs \union M4as /\ upload[u].path = upload[u].in
      /\ upload[u].out \in M4as \union Tmps /\ upload[u].out # upload[u].path
      /\ (upload[u].out \in M4as <=> upload[u].in \in Wavs)
      /\ (InPlace(u) <=> upload[u].in \in M4as)
      /\ \A p : Claims(u, p) <=> p \in {upload[u].path, upload[u].out}
  BY Converting
<1>1. UploadType' /\ upload'[u] = r /\ \A v \in Uploads : v # u => upload'[v] = upload[v]
  BY Moved DEF IngestType
<1>2. \/ /\ InPlace(u) /\ r.path = upload[u].path /\ Exists(upload[u].out)
         /\ DOMAIN files' = (DOMAIN files \union {upload[u].path}) \ {upload[u].out}
         /\ files'[upload[u].path] = files[upload[u].out]
         /\ \A q \in DOMAIN files \ {upload[u].path, upload[u].out} : files'[q] = files[q]
      \/ /\ ~InPlace(u) /\ r.path = upload[u].out
         /\ DOMAIN files' = DOMAIN files \ {upload[u].path}
         /\ \A q \in DOMAIN files \ {upload[u].path} : files'[q] = files[q]
  BY <1>0 DEF Put, Drop
<1>3. HasRow' = HasRow
  BY DEF HasRow
<1>4. outcome' \in [Uploads -> {"none", "done", "failed"}] /\ outcome'[u] = "none"
      /\ \A v \in Uploads : v # u => outcome'[v] = outcome[v]
  BY DEF IngestType, JobsType
<1>5. IngestType'
  <2>1. FilesType'
    <3>1. \A q \in DOMAIN files : q \in Wavs \union M4as \union Tmps /\ files[q] \in Uploads \union {None}
      BY DEF IngestType, FilesType
    <3>2. \A q \in DOMAIN files' : q \in Wavs \union M4as \union Tmps
      BY <1>0, <1>2, <3>1
    <3>3. \A q \in DOMAIN files' : files'[q] \in Uploads \union {None}
      BY <1>0, <1>2, <3>1 DEF Exists
    <3>. QED  BY <3>2, <3>3 DEF FilesType
  <2>. QED  BY <1>1, <1>3, <1>4, <2>1 DEF IngestType, IdsType, RowsType, JobsType, PrunerType, CountType
<1>6. NamesOK'
  <2>1. ASSUME NEW v \in Uploads, v # u PROVE upload'[v] = upload[v] /\ (v \in HasRow' <=> v \in HasRow)
    BY <1>1, <1>3, <2>1
  <2>2. r.path = upload[u].in \/ (r.path = upload[u].out /\ upload[u].in \in Wavs /\ upload[u].out \in M4as)
    BY <1>0, <1>2
  <2>3. (upload[u].out \in M4as => r.path = upload[u].out) /\ upload[u].in # NoPath
    BY <1>0, <1>2, Kinds
  <2>. QED  BY <1>0, <1>1, <1>3, <2>1, <2>2, <2>3, Kinds DEF Audio, NamesOK, Holding
<1>7. HandlerStep(u)
  BY <1>0, <1>1, <1>2, <1>4 DEF HandlerStep, Exists, Holding
<1>8. JobsOK'
  BY <1>1, <1>4, JobsAfter
<1>9. NamesTaken'
  <2>1. \A v \in Uploads : upload'[v].in = upload[v].in /\ upload'[v].out = upload[v].out
    BY <1>1
  <2>2. \A q \in DOMAIN files' : q \in DOMAIN files \/ q = upload[u].in
    BY <1>0, <1>2
  <2>. QED  BY <2>1, <2>2 DEF Audio, NamesTaken
<1>10. Spoiled(u) => Spoiled(u)'
  <2>1. \A q : Bad(q) => Bad(q)'
    BY <1>7, OthersHold
  <2>. QED  BY <1>1, <2>1 DEF Spoiled
<1>11. \A q : Claims(u, q)' => q = upload'[u].path
  BY <1>1 DEF Claims
<1>12. \A q : Claims(u, q)' => (Exists(q)' \/ Bad(q)) /\ (Claims(u, q) \/ ~Exists(q))
  <2>. SUFFICES (Exists(r.path)' \/ Bad(r.path)) /\ Claims(u, r.path)
    BY <1>1, <1>11
  <2>1. CASE InPlace(u)
    BY <1>0, <1>2, <2>1 DEF Exists
  <2>2. CASE ~InPlace(u)
    <3>1. Claims(u, r.path) /\ r.path = upload[u].out /\ r.path \in Name
      BY <1>0, <1>2, <2>2 DEF Name
    <3>2. Exists(r.path) \/ Bad(r.path)
      BY <3>1 DEF Audio, ClaimsStand
    <3>. QED  BY <1>0, <1>2, <2>2, <3>1, <3>2 DEF Exists
  <2>. QED  BY <2>1, <2>2
<1>13. Spoiled(u)' \/ Intact(u, upload[u].path)'
  <2>1. Spoiled(u) \/ Intact(u, upload[u].out)
    BY DEF Audio, WrittenIsOwn
  <2>2. ASSUME Intact(u, upload[u].out) PROVE r.path \in DOMAIN files' /\ files'[r.path] = u
    BY <1>0, <1>2, <2>2 DEF Intact, Exists
  <2>. QED  BY <1>1, <1>10, <2>1, <2>2 DEF Intact, Exists
<1>14. u \notin HasRow' /\ upload'[u].pc # "convert"
  BY <1>0, <1>1, <1>3
<1>. QED  BY <1>1, <1>5, <1>6, <1>7, <1>8, <1>9, <1>10, <1>12, <1>13, <1>14, HandlerKeeps

LEMMA ConvertedKeeps ==
  ASSUME IngestType, Audio, NEW u \in Uploads, Converted(u)
  PROVE  IngestType' /\ Audio'
<1>. DEFINE r0 == [upload[u] EXCEPT !.pc = "ended"]
            r1 == [upload[u] EXCEPT !.pc = "insert"]
            r2 == [upload[u] EXCEPT !.pc = "insert", !.path = upload[u].out]
<1>1. /\ upload[u].pc = "convert" /\ outcome[u] # "none"
      /\ outcome' = [outcome EXCEPT ![u] = "none"]
      /\ UNCHANGED <<call, ids, rows, kept, reclaimed, jobs, running, pruner, failures, restarts>>
      /\ outcome[u] \in {"done", "failed"}
  BY DEF Converted, At, IngestType, JobsType
<1>2. \/ outcome[u] = "failed" /\ Go(u, r0) /\ files' = Drop(files, {upload[u].path, upload[u].out})
      \/ /\ outcome[u] = "done" /\ InPlace(u) /\ Exists(upload[u].out) /\ Go(u, r1)
         /\ files' = Drop(Put(files, upload[u].path, files[upload[u].out]), {upload[u].out})
      \/ outcome[u] = "done" /\ InPlace(u) /\ Go(u, r0) /\ files' = files
      \/ outcome[u] = "done" /\ ~InPlace(u) /\ Go(u, r2) /\ files' = Drop(files, {upload[u].path})
  <2>1. CASE outcome[u] = "failed"
    BY <2>1 DEF Converted
  <2>2. CASE outcome[u] = "done" /\ InPlace(u)
    BY <2>2 DEF Converted
  <2>3. CASE outcome[u] = "done" /\ ~InPlace(u)
    BY <2>3 DEF Converted
  <2>. QED  BY <1>1, <2>1, <2>2, <2>3
<1>3. upload[u] \in Handler /\ ~upload[u].left /\ upload[u].out \in Name
  BY <1>1, Converting, UploadNames DEF IngestType
<1>4. /\ r0 \in Handler /\ r0.pc = "ended" /\ r0.in = upload[u].in /\ r0.out = upload[u].out
      /\ r0.path = upload[u].path /\ ~r0.left
      /\ r1 \in Handler /\ r1.pc = "insert" /\ r1.in = upload[u].in /\ r1.out = upload[u].out
      /\ r1.path = upload[u].path /\ ~r1.left
  BY <1>3 DEF Handler, PCs
<1>5. /\ r2 \in Handler /\ r2.pc = "insert" /\ r2.in = upload[u].in /\ r2.out = upload[u].out
      /\ r2.path = upload[u].out /\ ~r2.left
  BY <1>3 DEF Handler, PCs
<1>. HIDE DEF r0, r1, r2
<1>6. CountType'
  BY <1>1 DEF IngestType, CountType
<1>7. CASE outcome[u] = "failed" /\ Go(u, r0) /\ files' = Drop(files, {upload[u].path, upload[u].out})
  <2>. DEFINE S == {upload[u].path, upload[u].out}
  <2>1. FilesType'
    BY <1>7, DropType DEF IngestType
  <2>2. DOMAIN files' = DOMAIN files \ S /\ \A q \in DOMAIN files \ S : files'[q] = files[q]
    BY <1>7 DEF Drop
  <2>3. S \in SUBSET {upload[u].path, upload[u].out}
    OBVIOUS
  <2>. HIDE DEF S
  <2>. QED  BY <1>1, <1>4, <1>6, <1>7, <2>1, <2>2, <2>3, ConversionEnds
<1>8. CASE outcome[u] = "done" /\ InPlace(u) /\ Go(u, r0) /\ files' = files
  <2>. DEFINE S == {}
  <2>1. FilesType'
    BY <1>8 DEF IngestType, FilesType
  <2>2. DOMAIN files' = DOMAIN files \ S /\ \A q \in DOMAIN files \ S : files'[q] = files[q]
    BY <1>8
  <2>3. S \in SUBSET {upload[u].path, upload[u].out}
    OBVIOUS
  <2>. HIDE DEF S
  <2>. QED  BY <1>1, <1>4, <1>6, <1>8, <2>1, <2>2, <2>3, ConversionEnds
<1>9. CASE /\ outcome[u] = "done" /\ InPlace(u) /\ Exists(upload[u].out) /\ Go(u, r1)
           /\ files' = Drop(Put(files, upload[u].path, files[upload[u].out]), {upload[u].out})
  BY <1>1, <1>4, <1>9, ConversionKept
<1>10. CASE outcome[u] = "done" /\ ~InPlace(u) /\ Go(u, r2) /\ files' = Drop(files, {upload[u].path})
  BY <1>1, <1>5, <1>10, ConversionKept
<1>. QED  BY <1>2, <1>7, <1>8, <1>9, <1>10

LEMMA GiveUpKeeps ==
  ASSUME IngestType, Audio, NEW u \in Uploads, GiveUp(u), upload[u].pc = "convert"
  PROVE  IngestType' /\ Audio'
<1>. DEFINE r == [upload[u] EXCEPT !.pc = "ended", !.left = TRUE]
            S == {upload[u].path, upload[u].out}
<1>1. At(u, "convert") = TRUE
  BY DEF At
<1>2. /\ Go(u, r) /\ files' = Drop(files, S)
      /\ failures < MaxFailures /\ failures' = failures + 1
      /\ UNCHANGED <<call, ids, rows, reclaimed, jobs, running, outcome, pruner, restarts>>
  BY <1>1 DEF GiveUp, pool
<1>3. upload[u] \in Handler
  BY DEF IngestType, UploadType
<1>4. /\ r \in Handler /\ r.pc = "ended" /\ r.in = upload[u].in /\ r.out = upload[u].out
      /\ r.path = upload[u].path /\ r.left
  BY <1>3 DEF Handler, PCs
<1>. HIDE DEF r
<1>5. CountType'
  BY <1>2, IngestAssumption DEF IngestType, CountType, IngestAssumption
<1>6. FilesType'
  BY <1>2, DropType DEF IngestType
<1>7. DOMAIN files' = DOMAIN files \ S /\ \A q \in DOMAIN files \ S : files'[q] = files[q]
  BY <1>2 DEF Drop
<1>8. S \in SUBSET {upload[u].path, upload[u].out}
  OBVIOUS
<1>. HIDE DEF S
<1>. QED  BY <1>2, <1>4, <1>5, <1>6, <1>7, <1>8, ConversionEnds

LEMMA InsertKeeps ==
  ASSUME IngestType, Audio, NEW u \in Uploads, Insert(u)
  PROVE  IngestType' /\ Audio'
<1>. DEFINE r == [upload[u] EXCEPT !.pc = "ended"]
            row == [path |-> upload[u].path, tg |-> upload[u].tg]
<1>1. /\ upload[u].pc = "insert" /\ Go(u, r)
      /\ rows' = rows \/ rows' = [rows EXCEPT ![u] = row]
      /\ UNCHANGED <<call, ids, kept, disk, pool, pruner, failures, restarts>>
  BY DEF Insert, At, To
<1>2. /\ upload[u] \in Handler /\ upload[u].path \in Wavs \union M4as
      /\ u \notin HasRow /\ ~Doomed(u) /\ ~upload[u].left
  BY <1>1, Quiet, Kinds DEF IngestType, UploadType, Audio, NamesOK, Holding
<1>3. /\ r \in Handler /\ r.pc = "ended" /\ r.in = upload[u].in /\ r.out = upload[u].out
      /\ r.path = upload[u].path /\ ~r.left
  BY <1>2 DEF Handler, PCs
<1>4. row \in Row /\ row.path = upload[u].path
  BY <1>2 DEF Handler, Row
<1>. HIDE DEF r, row
<1>5. UploadType' /\ upload'[u] = r /\ \A v \in Uploads : v # u => upload'[v] = upload[v]
  BY <1>1, <1>3, Moved DEF IngestType
<1>6. /\ files' = files /\ reclaimed' = reclaimed /\ jobs' = jobs /\ running' = running /\ outcome' = outcome
      /\ pruner' = pruner
  BY <1>1 DEF disk, pool
<1>7. /\ rows' \in [Uploads -> Row]
      /\ \A v \in Uploads : v # u => rows'[v] = rows[v]
      /\ (u \in HasRow' => rows'[u].path = upload[u].path)
  <2>1. u \in HasRow' => rows'[u] = row
    BY <1>1, <1>2 DEF HasRow, IngestType, RowsType
  <2>. QED  BY <1>1, <1>4, <2>1 DEF IngestType, RowsType
<1>8. IngestType'
  <2>1. RowsType'
    BY <1>2, <1>7 DEF IngestType, RowsType, HasRow
  <2>. QED  BY <1>1, <1>5, <1>6, <2>1 DEF IngestType, IdsType, FilesType, JobsType, PrunerType, CountType
<1>9. NamesOK'
  <2>1. ASSUME NEW v \in Uploads, v # u PROVE upload'[v] = upload[v] /\ (v \in HasRow' <=> v \in HasRow)
    BY <1>5, <1>7, <2>1 DEF HasRow
  <2>. QED  BY <1>1, <1>2, <1>3, <1>5, <2>1 DEF Audio, NamesOK, Holding
<1>10. HandlerStep(u)
  BY <1>1, <1>5, <1>6, <1>7 DEF HandlerStep, Exists, Holding
<1>11. JobsOK'
  BY <1>1, <1>5, JobsOfOthers
<1>12. NamesTaken'
  <2>1. \A v \in Uploads : upload'[v].in = upload[v].in /\ upload'[v].out = upload[v].out
    BY <1>3, <1>5
  <2>. QED  BY <1>6, <2>1 DEF Audio, NamesTaken
<1>13. \A q : Bad(q) => Bad(q)'
  BY <1>10, OthersHold
<1>14. Spoiled(u) => Spoiled(u)'
  BY <1>3, <1>5, <1>13 DEF Spoiled
<1>15. Holds(u) /\ upload[u].path \in Name
  BY <1>1, UploadNames DEF Holds, Holding, IngestType
<1>16. \A q : Claims(u, q)' => (Exists(q)' \/ Bad(q)) /\ (Claims(u, q) \/ ~Exists(q))
  <2>1. \A q : Claims(u, q)' => q = upload[u].path
    BY <1>3, <1>5 DEF Claims
  <2>2. Claims(u, upload[u].path)
    BY <1>15 DEF Claims
  <2>. QED  BY <1>6, <1>15, <2>1, <2>2 DEF Audio, ClaimsStand, Exists
<1>17. Spoiled(u)' \/ Intact(u, upload[u].path)'
  <2>1. Spoiled(u) \/ Intact(u, upload[u].path)
    BY <1>15 DEF Audio, StoredIsOwn
  <2>. QED  BY <1>3, <1>5, <1>6, <1>14, <2>1 DEF Intact, Exists
<1>18. upload'[u].pc = "ended" /\ (u \in HasRow' => rows'[u].path = upload'[u].path)
  BY <1>3, <1>5, <1>7
<1>. QED  BY <1>5, <1>8, <1>9, <1>10, <1>11, <1>12, <1>14, <1>16, <1>17, <1>18, HandlerKeeps

-----------------------------------------------------------------------------
(* The workers.                                                            *)

LEMMA SameHolders ==
  ASSUME UNCHANGED <<upload, rows, pruner, reclaimed>>
  PROVE  /\ HasRow' = HasRow /\ \A p : Bad(p)' <=> Bad(p)
         /\ \A u \in Uploads : (Holds(u)' <=> Holds(u)) /\ (Spoiled(u)' <=> Spoiled(u))
         /\ \A u \in Uploads : \A p : Claims(u, p)' <=> Claims(u, p)
         /\ (NamesOK => NamesOK') /\ (RowsOK => RowsOK') /\ (BatchOK => BatchOK')
<1>1. HasRow' = HasRow /\ \A p : Bad(p)' <=> Bad(p)
  BY DEF HasRow, Bad
<1>2. \A u \in Uploads : (Holds(u)' <=> Holds(u)) /\ (Spoiled(u)' <=> Spoiled(u))
  BY <1>1 DEF Holds, Spoiled, Bad, Doomed, Gone, Entries, Victim
<1>3. \A u \in Uploads : \A p : Claims(u, p)' <=> Claims(u, p)
  BY <1>2 DEF Claims
<1>4. NamesOK => NamesOK'
  BY <1>1 DEF NamesOK
<1>5. (RowsOK => RowsOK') /\ (BatchOK => BatchOK')
  BY <1>1 DEF RowsOK, BatchOK, Entries
<1>. QED  BY <1>1, <1>2, <1>3, <1>4, <1>5

\* A job is taken from the queue.
LEMMA TakenOff ==
  ASSUME NEW S, NEW q \in Seq(S), q # <<>>
  PROVE  /\ Head(q) = q[1] /\ Head(q) \in S /\ 1 \in 1..Len(q)
         /\ Tail(q) \in Seq(S) /\ Len(Tail(q)) = Len(q) - 1
         /\ \A i \in 1..Len(Tail(q)) : Tail(q)[i] = q[i + 1] /\ i + 1 \in 2..Len(q)
OBVIOUS

LEMMA JobStartKeeps ==
  ASSUME IngestType, Audio, JobStart
  PROVE  IngestType' /\ Audio'
<1>. DEFINE h == Head(jobs)
            j == [h EXCEPT !.read = files[h.in]]
<1>1. /\ h = jobs[1] /\ h \in Job /\ 1 \in Queued /\ jobs' \in Seq(Job) /\ Len(jobs) \in Nat
      /\ Len(jobs') = Len(jobs) - 1
      /\ \A i \in Queued' : jobs'[i] = jobs[i + 1] /\ i + 1 \in Queued /\ i + 1 # 1
  <2>1. jobs \in Seq(Job) /\ jobs # <<>> /\ jobs' = Tail(jobs)
    BY PendingType DEF IngestType, JobStart
  <2>2. /\ Head(jobs) = jobs[1] /\ Head(jobs) \in Job /\ 1 \in 1..Len(jobs)
        /\ Tail(jobs) \in Seq(Job) /\ Len(Tail(jobs)) = Len(jobs) - 1
        /\ \A i \in 1..Len(Tail(jobs)) : Tail(jobs)[i] = jobs[i + 1] /\ i + 1 \in 2..Len(jobs)
    BY <2>1, TakenOff
  <2>3. Len(jobs) \in Nat
    BY <2>1
  <2>. QED  BY <2>1, <2>2, <2>3 DEF Queued
<1>2. UNCHANGED <<call, upload, ids, rows, kept, disk, pruner, failures, restarts>>
      /\ files' = files /\ reclaimed' = reclaimed
  BY DEF JobStart, disk
<1>3. h.of \in Uploads /\ h.in \in Name /\ JobOK(h)
      /\ (\A i \in Queued' : jobs'[i].of # h.of) /\ (\A k \in running : k.of # h.of)
  <2>1. JobOK(h) /\ h.of \in Uploads /\ h.in \in Name
    BY <1>1 DEF Audio, JobsOK, Job
  <2>2. \A i \in Queued' : jobs'[i].of # h.of
    BY <1>1 DEF Audio, JobsOK
  <2>3. \A k \in running : k.of # h.of
    BY <1>1 DEF Audio, JobsOK
  <2>. QED  BY <2>1, <2>2, <2>3
<1>4. /\ HasRow' = HasRow /\ \A p : Bad(p)' <=> Bad(p)
      /\ \A u \in Uploads : (Holds(u)' <=> Holds(u)) /\ (Spoiled(u)' <=> Spoiled(u))
      /\ \A u \in Uploads : \A p : Claims(u, p)' <=> Claims(u, p)
      /\ NamesOK' /\ RowsOK' /\ BatchOK'
  BY <1>2, SameHolders DEF Audio
<1>5. NamesTaken' /\ ClaimsStand' /\ ClaimsDiffer' /\ StoredIsOwn'
  BY <1>2, <1>4 DEF Audio, NamesTaken, ClaimsStand, ClaimsDiffer, StoredIsOwn, Exists, Intact,
                    Name, Wavs, M4as, Tmps
<1>6. \/ /\ running' = running \union {j} /\ Exists(h.in) /\ outcome' = outcome
      \/ /\ running' = running /\ outcome' = [outcome EXCEPT ![h.of] = "failed"]
  BY DEF JobStart
<1>7. CASE running' = running \union {j} /\ Exists(h.in) /\ outcome' = outcome
  <2>1. files[h.in] \in Uploads \union {None}
    BY <1>7 DEF IngestType, FilesType, Exists
  <2>2. j \in Job /\ j.of = h.of /\ j.in = h.in /\ j.out = h.out /\ j.read = files[h.in]
    BY <1>1, <2>1 DEF Job
  <2>. HIDE DEF j
  <2>3. IngestType'
    BY <1>1, <1>2, <1>7, <2>2 DEF IngestType, UploadType, IdsType, RowsType, HasRow, FilesType, JobsType,
                                  PrunerType, CountType
  <2>4. JobsOK'
    <3>1. \A i \in Queued' : JobOK(jobs[i])'
      BY <1>1, <1>2, <1>7 DEF Audio, JobsOK, JobOK
    <3>2. \A k \in running' : k \in running \/ k = j
      BY <1>7
    <3>3. \A k \in running' : JobOK(k)'
      BY <1>2, <1>3, <1>7, <2>2, <3>2 DEF Audio, JobsOK, JobOK
    <3>4. \A i, k \in Queued' : jobs'[i].of = jobs'[k].of => i = k
      <4>. SUFFICES ASSUME NEW i \in Queued', NEW k \in Queued', jobs'[i].of = jobs'[k].of PROVE i = k
        OBVIOUS
      <4>1. i + 1 = k + 1
        BY <1>1 DEF Audio, JobsOK
      <4>. QED  BY <4>1 DEF Queued
    <3>5. \A k, m \in running' : k.of = m.of => k = m
      BY <1>3, <2>2, <3>2 DEF Audio, JobsOK
    <3>6. \A i \in Queued', k \in running' : jobs'[i].of # k.of
      BY <1>1, <1>3, <2>2, <3>2 DEF Audio, JobsOK
    <3>7. \A u \in Uploads : outcome'[u] # "none" => upload'[u].pc = "convert" \/ upload'[u].left
      BY <1>2, <1>7 DEF Audio, JobsOK
    <3>. QED  BY <3>1, <3>3, <3>4, <3>5, <3>6, <3>7 DEF JobsOK
  <2>5. WrittenIsOwn'
    BY <1>2, <1>4, <1>7 DEF Audio, WrittenIsOwn, Intact, Exists
  <2>6. Spoiled(h.of) \/ j.read = h.of
    <3>1. CASE upload[h.of].left
      BY <1>3, <3>1 DEF Spoiled, Bad
    <3>2. CASE upload[h.of].pc = "convert"
      <4>1. Spoiled(h.of) \/ Intact(h.of, upload[h.of].path)
        BY <1>3, <3>2, Converting
      <4>2. h.in = upload[h.of].path
        BY <1>3, <3>2, Converting DEF JobOK
      <4>. QED  BY <2>2, <4>1, <4>2 DEF Intact
    <3>. QED  BY <1>3, <3>1, <3>2 DEF JobOK
  <2>7. ReadIsOwn'
    <3>1. \A k \in running : k.of \in Uploads
      BY PendingType DEF IngestType
    <3>. QED  BY <1>3, <1>4, <1>7, <2>2, <2>6, <3>1 DEF Audio, ReadIsOwn
  <2>. QED  BY <1>4, <1>5, <2>3, <2>4, <2>5, <2>7 DEF Audio
<1>8. CASE running' = running /\ outcome' = [outcome EXCEPT ![h.of] = "failed"]
  <2>1. /\ outcome' \in [Uploads -> {"none", "done", "failed"}]
        /\ \A u \in Uploads : u # h.of => outcome'[u] = outcome[u]
        /\ outcome'[h.of] = "failed"
    BY <1>3, <1>8 DEF IngestType, JobsType
  <2>2. IngestType'
    BY <1>1, <1>2, <1>8, <2>1 DEF IngestType, UploadType, IdsType, RowsType, HasRow, FilesType, JobsType,
                                  PrunerType, CountType
  <2>3. JobsOK'
    <3>1. \A i \in Queued' : jobs'[i] \in Job /\ jobs'[i].of \in Uploads
      BY <1>1, PendingType DEF IngestType
    <3>2. \A i \in Queued' : JobOK(jobs[i])'
      BY <1>1, <1>2, <1>3, <2>1, <3>1 DEF Audio, JobsOK, JobOK
    <3>3. \A k \in running : JobOK(k)'
      BY <1>2, <1>3, <2>1, PendingType DEF Audio, JobsOK, JobOK, IngestType
    <3>4. \A i, k \in Queued' : jobs'[i].of = jobs'[k].of => i = k
      <4>. SUFFICES ASSUME NEW i \in Queued', NEW k \in Queued', jobs'[i].of = jobs'[k].of PROVE i = k
        OBVIOUS
      <4>1. i + 1 = k + 1
        BY <1>1 DEF Audio, JobsOK
      <4>. QED  BY <4>1 DEF Queued
    <3>5. \A i \in Queued', k \in running : jobs'[i].of # k.of
      BY <1>1 DEF Audio, JobsOK
    <3>6. \A u \in Uploads : outcome'[u] # "none" => upload'[u].pc = "convert" \/ upload'[u].left
      BY <1>2, <1>3, <2>1 DEF Audio, JobsOK, JobOK
    <3>7. \A k, m \in running : k.of = m.of => k = m
      BY DEF Audio, JobsOK
    <3>. QED  BY <1>8, <3>2, <3>3, <3>4, <3>5, <3>6, <3>7 DEF JobsOK
  <2>4. WrittenIsOwn'
    <3>. SUFFICES ASSUME NEW u \in Uploads, upload'[u].pc = "convert", outcome'[u] = "done"
                  PROVE  Spoiled(u)' \/ Intact(u, upload[u].out)'
      BY DEF WrittenIsOwn
    <3>1. outcome[u] = "done" /\ upload[u].pc = "convert"
      BY <1>2, <1>3, <2>1
    <3>. QED  BY <1>2, <1>4, <3>1 DEF Audio, WrittenIsOwn, Intact, Exists
  <2>5. ReadIsOwn'
    BY <1>4, <1>8, PendingType DEF Audio, ReadIsOwn, IngestType
  <2>. QED  BY <1>4, <1>5, <2>2, <2>3, <2>4, <2>5 DEF Audio
<1>. QED  BY <1>6, <1>7, <1>8

\* What a job writes to is its upload's alone, or bad.
LEMMA Writing ==
  ASSUME IngestType, Audio, NEW j \in running
  PROVE  /\ j.of \in Uploads /\ j.out = upload[j.of].out /\ j.out \in M4as \union Tmps
         /\ j.read \in Uploads \union {None}
         /\ (upload[j.of].left \/ (upload[j.of].pc = "convert" /\ outcome[j.of] = "none"))
         /\ (upload[j.of].left => Spoiled(j.of) /\ Bad(j.out))
         /\ \A u \in Uploads : u # j.of /\ Claims(u, j.out) => Bad(j.out)
<1>1. j.of \in Uploads /\ JobOK(j) /\ j.read \in Uploads \union {None}
  BY DEF IngestType, JobsType, Job, Audio, JobsOK
<1>2. j.out = upload[j.of].out /\ j.out \in M4as \union Tmps
  BY <1>1 DEF JobOK, Audio, NamesOK
<1>3. upload[j.of].left => Spoiled(j.of) /\ Bad(j.out)
  BY <1>1, <1>2 DEF Spoiled, Bad
<1>4. ASSUME NEW u \in Uploads, u # j.of, Claims(u, j.out) PROVE Bad(j.out)
  <2>1. CASE upload[j.of].left
    BY <1>3, <2>1
  <2>2. CASE upload[j.of].pc = "convert"
    <3>1. Claims(j.of, j.out) /\ j.out \in Name
      BY <1>1, <1>2, <2>2, Converting DEF Name
    <3>. QED  BY <1>1, <1>4, <3>1 DEF Audio, ClaimsDiffer
  <2>. QED  BY <1>1, <2>1, <2>2 DEF JobOK
<1>. QED  BY <1>1, <1>2, <1>3, <1>4 DEF JobOK

LEMMA FinishKeeps ==
  ASSUME IngestType, Audio, NEW j \in running, Finish(j)
  PROVE  IngestType' /\ Audio'
<1>1. /\ running' = running \ {j} /\ jobs' = jobs
      /\ files' = files \/ files' = Put(files, j.out, j.read)
      /\ UNCHANGED <<call, upload, ids, rows, kept, reclaimed, jobs, pruner, restarts>>
      /\ \/ /\ outcome' = [outcome EXCEPT ![j.of] = "done"] /\ files' = Put(files, j.out, j.read)
         \/ /\ outcome' = [outcome EXCEPT ![j.of] = "failed"] /\ files' = files
      /\ (failures' = failures \/ (failures < MaxFailures /\ failures' = failures + 1))
  BY DEF Finish
<1>2. /\ j.of \in Uploads /\ j.out = upload[j.of].out /\ j.out \in M4as \union Tmps
      /\ j.read \in Uploads \union {None}
      /\ (upload[j.of].left \/ (upload[j.of].pc = "convert" /\ outcome[j.of] = "none"))
      /\ (upload[j.of].left => Spoiled(j.of) /\ Bad(j.out))
      /\ \A u \in Uploads : u # j.of /\ Claims(u, j.out) => Bad(j.out)
  BY Writing
<1>3. /\ outcome' \in [Uploads -> {"none", "done", "failed"}]
      /\ \A u \in Uploads : u # j.of => outcome'[u] = outcome[u]
      /\ outcome'[j.of] # "none"
  BY <1>1, <1>2 DEF IngestType, JobsType
<1>4. /\ HasRow' = HasRow /\ \A p : Bad(p)' <=> Bad(p)
      /\ \A u \in Uploads : (Holds(u)' <=> Holds(u)) /\ (Spoiled(u)' <=> Spoiled(u))
      /\ \A u \in Uploads : \A p : Claims(u, p)' <=> Claims(u, p)
      /\ NamesOK' /\ RowsOK' /\ BatchOK'
  BY <1>1, SameHolders DEF Audio
<1>5. /\ \A p : Exists(p) => Exists(p)'
      /\ \A p \in DOMAIN files : p # j.out => files'[p] = files[p]
      /\ \A p \in DOMAIN files' : p = j.out \/ p \in DOMAIN files
      /\ (outcome'[j.of] = "done" => Exists(j.out)' /\ files'[j.out] = j.read)
  BY <1>1, <1>2 DEF Put, Exists, IngestType, JobsType
<1>6. IngestType'
  <2>1. FilesType'
    BY <1>1, <1>2, PutType DEF IngestType, FilesType
  <2>2. CountType'
    BY <1>1, IngestAssumption DEF IngestType, CountType, IngestAssumption
  <2>. QED  BY <1>1, <1>3, <2>1, <2>2 DEF IngestType, UploadType, IdsType, RowsType, HasRow, JobsType, PrunerType
<1>7. JobsOK'
  <2>1. \A i \in Queued : jobs[i].of # j.of /\ jobs[i].of \in Uploads
    BY PendingType DEF IngestType, Audio, JobsOK
  <2>2. \A k \in running' : k.of # j.of /\ k.of \in Uploads /\ k \in running
    BY <1>1, PendingType DEF IngestType, Audio, JobsOK
  <2>3. \A i \in Queued : JobOK(jobs[i])'
    BY <1>1, <1>3, <2>1 DEF Audio, JobsOK, JobOK
  <2>4. \A k \in running' : JobOK(k)'
    BY <1>1, <1>3, <2>2 DEF Audio, JobsOK, JobOK
  <2>5. \A u \in Uploads : outcome'[u] # "none" => upload'[u].pc = "convert" \/ upload'[u].left
    BY <1>1, <1>2, <1>3 DEF Audio, JobsOK
  <2>. QED  BY <1>1, <2>2, <2>3, <2>4, <2>5 DEF Audio, JobsOK, Queued
<1>8. NamesTaken'
  BY <1>1, <1>2, <1>5 DEF Audio, NamesTaken
<1>9. ClaimsStand' /\ ClaimsDiffer'
  BY <1>4, <1>5 DEF Audio, ClaimsStand, ClaimsDiffer, Name, Wavs, M4as, Tmps
<1>10. StoredIsOwn'
  <2>. SUFFICES ASSUME NEW u \in Uploads, Holds(u), ~Spoiled(u)
                PROVE  Intact(u, upload[u].path)'
    BY <1>4 DEF StoredIsOwn
  <2>1. Intact(u, upload[u].path) /\ Claims(u, upload[u].path) /\ ~Bad(upload[u].path)
    BY PathIsName DEF Audio, StoredIsOwn, Claims
  <2>2. upload[u].path # j.out
    <3>1. CASE u # j.of
      BY <1>2, <2>1, <3>1
    <3>2. CASE u = j.of
      BY <1>2, <3>2, Converting
    <3>. QED  BY <3>1, <3>2
  <2>. QED  BY <1>1, <1>5, <2>1, <2>2 DEF Intact, Exists
<1>11. WrittenIsOwn'
  <2>. SUFFICES ASSUME NEW u \in Uploads, upload[u].pc = "convert", outcome'[u] = "done", ~Spoiled(u)
                PROVE  Intact(u, upload[u].out)'
    BY <1>1, <1>4 DEF WrittenIsOwn
  <2>1. CASE u = j.of
    BY <1>1, <1>2, <1>5, <2>1 DEF Audio, ReadIsOwn, Intact
  <2>2. CASE u # j.of
    <3>1. Intact(u, upload[u].out) /\ ~Bad(upload[u].out)
      BY <1>3, <2>2 DEF Audio, WrittenIsOwn, Spoiled
    <3>2. Claims(u, upload[u].out)
      BY DEF Claims, Holds, Holding
    <3>. QED  BY <1>1, <1>2, <1>5, <2>2, <3>1, <3>2 DEF Intact, Exists
  <2>. QED  BY <2>1, <2>2
<1>12. ReadIsOwn'
  <2>1. \A k \in running : k.of \in Uploads
    BY PendingType DEF IngestType
  <2>. QED  BY <1>1, <1>4, <2>1 DEF Audio, ReadIsOwn
<1>. QED  BY <1>4, <1>6, <1>7, <1>8, <1>9, <1>10, <1>11, <1>12 DEF Audio

-----------------------------------------------------------------------------
(* The pruner.                                                             *)

\* What the pruner, an admin or a restart makes of the audio: fewer claims, no
\* more files, and what is gone nobody else counts on.
LEMMA FewerClaims ==
  ASSUME IngestType, Audio, IngestType', NamesOK', RowsOK', BatchOK', JobsOK', NamesTaken', ReadIsOwn',
         \A u \in Uploads : upload'[u].path = upload[u].path /\ upload'[u].out = upload[u].out
                            /\ upload'[u].in = upload[u].in,
         \A p : Bad(p) => Bad(p)',
         \A u \in Uploads : \A p : Claims(u, p)' => Claims(u, p) \/ Bad(p)',
         \A u \in Uploads : Holds(u)' => Holds(u) \/ Spoiled(u)',
         \A u \in Uploads : upload'[u].pc = "convert" => upload[u].pc = "convert" /\ outcome'[u] = outcome[u],
         \A p : Exists(p) => (Exists(p)' /\ files'[p] = files[p])
                             \/ \A u \in Uploads : Claims(u, p)' => Bad(p)'
  PROVE  Audio'
<1>1. \A u \in Uploads : Spoiled(u) => Spoiled(u)'
  BY DEF Spoiled
<1>2. ClaimsStand'
  BY DEF Audio, ClaimsStand, Name, Wavs, M4as, Tmps
<1>3. ClaimsDiffer'
  BY DEF Audio, ClaimsDiffer, Name, Wavs, M4as, Tmps
<1>4. \A u \in Uploads : Bad(upload[u].path)' => Spoiled(u)'
  BY DEF NamesOK, Spoiled
<1>5. StoredIsOwn'
  <2>. SUFFICES ASSUME NEW u \in Uploads, Holds(u)', ~Spoiled(u)'
                PROVE  Intact(u, upload[u].path)'
    BY DEF StoredIsOwn
  <2>1. Intact(u, upload[u].path)
    BY <1>1 DEF Audio, StoredIsOwn
  <2>2. Claims(u, upload[u].path)' /\ ~Bad(upload[u].path)'
    BY <1>4 DEF Claims
  <2>. QED  BY <2>1, <2>2 DEF Intact, Exists
<1>6. WrittenIsOwn'
  <2>. SUFFICES ASSUME NEW u \in Uploads, upload'[u].pc = "convert", outcome'[u] = "done", ~Spoiled(u)'
                PROVE  Intact(u, upload[u].out)'
    BY DEF WrittenIsOwn
  <2>1. Intact(u, upload[u].out)
    BY <1>1 DEF Audio, WrittenIsOwn
  <2>2. Claims(u, upload[u].out)' /\ ~Bad(upload[u].out)'
    BY DEF Claims, Holds, Holding, Spoiled
  <2>. QED  BY <2>1, <2>2 DEF Intact, Exists
<1>. QED  BY <1>2, <1>3, <1>5, <1>6 DEF Audio

LEMMA SeqIsFunction ==
  ASSUME NEW S, NEW n \in Nat, NEW f \in [1..n -> S]
  PROVE  f \in Seq(S) /\ Len(f) = n
OBVIOUS

LEMMA PruneQueryKeeps ==
  ASSUME IngestType, Audio, PruneQuery
  PROVE  IngestType' /\ Audio'
<1>1. UNCHANGED <<call, upload, ids, rows, kept, disk, pool, failures, restarts>>
      /\ pruner.pc = "idle" /\ pruner.batch = <<>>
  BY DEF PruneQuery, Idle
<1>2. PICK n \in 1..Batch : \E s \in [1..n -> Prunable] :
        Oldest(s) /\ pruner' = [pc |-> "remove",
                                batch |-> [i \in 1..n |-> [of |-> s[i], path |-> rows[s[i]].path]]]
  BY DEF PruneQuery
<1>3. PICK s \in [1..n -> Prunable] :
        Oldest(s) /\ pruner' = [pc |-> "remove",
                                batch |-> [i \in 1..n |-> [of |-> s[i], path |-> rows[s[i]].path]]]
  BY <1>2
<1>. DEFINE b == [i \in 1..n |-> [of |-> s[i], path |-> rows[s[i]].path]]
<1>4. n \in Nat /\ 1 \in 1..n
  BY IngestAssumption DEF IngestAssumption
<1>5. \A i \in 1..n : s[i] \in HasRow /\ s[i] \in Uploads
  BY DEF Prunable, HasRow
<1>6. \A i, k \in 1..n : s[i] = s[k] => i = k
  <2>1. DOMAIN s = 1..n
    OBVIOUS
  <2>. QED  BY <1>3, <2>1 DEF Oldest, IsInjective
<1>7. \A i \in 1..n : b[i].of = s[i] /\ b[i].path = rows[s[i]].path /\ b[i] \in Entry
  BY <1>5 DEF Entry, IngestType, RowsType, Row
<1>8. b \in [1..n -> Entry]
  BY <1>7
<1>9. pruner'.pc = "remove" /\ pruner'.batch = b
      /\ pruner' \in [pc : {"idle", "remove", "delete"}, batch : {b}]
  BY <1>3
<1>. HIDE DEF b
<1>10. b \in Seq(Entry) /\ Len(b) = n /\ b # <<>>
  <2>1. b \in Seq(Entry) /\ Len(b) = n
    BY <1>4, <1>8, SeqIsFunction
  <2>. QED  BY <1>4, <2>1
<1>11. Entries' = 1..n
  BY <1>9, <1>10 DEF Entries
<1>12. files' = files /\ reclaimed' = reclaimed /\ jobs' = jobs /\ running' = running /\ outcome' = outcome
       /\ upload' = upload /\ HasRow' = HasRow /\ rows' = rows
  BY <1>1 DEF disk, pool, HasRow
<1>13. IngestType'
  <2>1. PrunerType'
    BY <1>9, <1>10, <1>12 DEF IngestType, PrunerType
  <2>. QED  BY <1>1, <1>12, <2>1 DEF IngestType, UploadType, IdsType, RowsType, FilesType, JobsType, CountType
<1>14. BatchOK'
  <2>1. \A i \in 1..n : upload[s[i]].pc = "ended" /\ rows[s[i]].path = upload[s[i]].path
                        /\ rows[s[i]].path \in Wavs \union M4as
    BY <1>5 DEF Audio, RowsOK, IngestType, RowsType
  <2>. QED  BY <1>6, <1>7, <1>9, <1>11, <1>12, <2>1 DEF BatchOK
<1>15. NamesOK' /\ RowsOK' /\ JobsOK' /\ NamesTaken'
  BY <1>12 DEF Audio, NamesOK, RowsOK, JobsOK, JobOK, NamesTaken, Queued
<1>16. \A p : (Bad(p)' <=> Bad(p)) /\ (Exists(p)' <=> Exists(p))
  BY <1>12 DEF Bad, Exists
<1>17. \A u \in Uploads : Holds(u)' => Holds(u)
  <2>1. \A u : Doomed(u)' => u \in HasRow
    BY <1>5, <1>7, <1>9, <1>11 DEF Doomed
  <2>. QED  BY <1>1, <1>12, <2>1 DEF Holds, Gone
<1>18. \A u \in Uploads : \A p : Claims(u, p)' => Claims(u, p)
  BY <1>12, <1>17 DEF Claims
<1>19. ReadIsOwn'
  BY <1>12, <1>16 DEF Audio, ReadIsOwn, Spoiled
<1>20. Audio'
  BY <1>12, <1>13, <1>14, <1>15, <1>16, <1>17, <1>18, <1>19, FewerClaims
<1>. QED  BY <1>13, <1>20

\* There is a row to be pruned where the pruner is at work.
LEMMA VictimIs ==
  ASSUME PrunerType, pruner.pc # "idle"
  PROVE  /\ 1 \in Entries /\ Victim = pruner.batch[1] /\ Victim \in Entry /\ Len(pruner.batch) \in Nat
         /\ Victim.of \in Uploads /\ Victim.path \in Name
<1>1. pruner.batch \in Seq(Entry) /\ pruner.batch # <<>>
  BY DEF PrunerType
<1>2. /\ 1 \in Entries /\ Victim = pruner.batch[1] /\ Victim \in Entry
  BY <1>1 DEF Victim, Entries
<1>. QED  BY <1>1, <1>2 DEF Entry

LEMMA PruneFileKeeps ==
  ASSUME IngestType, Audio, PruneFile
  PROVE  IngestType' /\ Audio'
<1>1. /\ pruner.pc = "remove" /\ pruner' = [pruner EXCEPT !.pc = "delete"]
      /\ UNCHANGED <<call, upload, ids, rows, kept, reclaimed, pool, restarts>>
      /\ files' = Drop(files, {Victim.path}) \/ files' = files
      /\ (failures' = failures \/ (failures < MaxFailures /\ failures' = failures + 1))
  BY DEF PruneFile
<1>2. /\ 1 \in Entries /\ Victim = pruner.batch[1] /\ Victim.of \in Uploads /\ Victim.path \in Name
  BY <1>1, VictimIs DEF IngestType
<1>3. pruner'.pc = "delete" /\ pruner'.batch = pruner.batch
      /\ pruner' \in [pc : {"idle", "remove", "delete"}, batch : Seq(Entry)]
  BY <1>1 DEF IngestType, PrunerType
<1>4. reclaimed' = reclaimed /\ jobs' = jobs /\ running' = running /\ outcome' = outcome
       /\ upload' = upload /\ HasRow' = HasRow /\ rows' = rows /\ Entries' = Entries /\ Victim' = Victim
  BY <1>1, <1>3 DEF pool, HasRow, Entries, Victim
<1>5. /\ DOMAIN files' \subseteq DOMAIN files
      /\ \A p \in DOMAIN files : p # Victim.path => p \in DOMAIN files' /\ files'[p] = files[p]
      /\ \A p \in DOMAIN files' : files'[p] = files[p]
  BY <1>1 DEF Drop
<1>6. IngestType'
  <2>1. PrunerType'
    BY <1>1, <1>3, <1>4 DEF IngestType, PrunerType
  <2>2. FilesType'
    BY <1>5 DEF IngestType, FilesType
  <2>3. CountType'
    BY <1>1, IngestAssumption DEF IngestType, CountType, IngestAssumption
  <2>. QED  BY <1>1, <1>4, <2>1, <2>2, <2>3 DEF IngestType, UploadType, IdsType, RowsType, JobsType
<1>7. BatchOK'
  BY <1>3, <1>4 DEF Audio, BatchOK
<1>8. NamesOK' /\ RowsOK' /\ JobsOK' /\ NamesTaken'
  BY <1>4, <1>5 DEF Audio, NamesOK, RowsOK, JobsOK, JobOK, NamesTaken, Queued
<1>9. \A p : Bad(p)' <=> Bad(p)
  BY <1>4 DEF Bad
<1>10. \A u \in Uploads : Holds(u)' => Holds(u)
  BY <1>1, <1>3, <1>4 DEF Holds, Gone, Doomed
<1>11. \A u \in Uploads : \A p : Claims(u, p)' => Claims(u, p)
  BY <1>4, <1>10 DEF Claims
<1>12. ASSUME NEW u \in Uploads, NEW q, q = Victim.path, Claims(u, q)' PROVE Bad(q)'
  <2>1. Claims(Victim.of, q)
    <3>1. Doomed(Victim.of) /\ ~Gone(Victim.of) /\ q = upload[Victim.of].path
      BY <1>1, <1>2, <1>12 DEF Doomed, Gone, Audio, BatchOK
    <3>. QED  BY <3>1 DEF Claims, Holds
  <2>2. u # Victim.of
    <3>. SUFFICES ASSUME u = Victim.of PROVE FALSE
      OBVIOUS
    <3>1. Gone(u)' /\ upload[u].pc = "ended"
      BY <1>2, <1>3, <1>4 DEF Gone, Audio, BatchOK
    <3>2. ~Holds(u)'
      BY <1>4, <3>1 DEF Holds, Holding
    <3>. QED  BY <1>12, <3>2 DEF Claims
  <2>3. Claims(u, q) /\ q \in Name
    BY <1>2, <1>11, <1>12
  <2>. QED  BY <1>2, <1>9, <2>1, <2>2, <2>3 DEF Audio, ClaimsDiffer
<1>13. ReadIsOwn'
  BY <1>4, <1>9 DEF Audio, ReadIsOwn, Spoiled
<1>14. \A p : Exists(p) => (Exists(p)' /\ files'[p] = files[p]) \/ \A u \in Uploads : Claims(u, p)' => Bad(p)'
  <2>. SUFFICES ASSUME NEW p, Exists(p), ~(Exists(p)' /\ files'[p] = files[p]), NEW u \in Uploads, Claims(u, p)'
                PROVE  Bad(p)'
    OBVIOUS
  <2>1. p = Victim.path
    BY <1>5 DEF Exists
  <2>. QED  BY <1>12, <2>1
<1>15. Audio'
  BY <1>4, <1>6, <1>7, <1>8, <1>9, <1>10, <1>11, <1>13, <1>14, FewerClaims
<1>. QED  BY <1>6, <1>15

LEMMA PruneRowKeeps ==
  ASSUME IngestType, Audio, PruneRow
  PROVE  IngestType' /\ Audio'
<1>. DEFINE v == Victim.of
            q == Victim.path
<1>1. /\ pruner.pc = "delete"
      /\ pruner' = IF Len(pruner.batch) = 1 THEN Idle
                   ELSE [pc |-> "remove", batch |-> Tail(pruner.batch)]
      /\ UNCHANGED <<call, upload, ids, files, pool, restarts>>
      /\ \/ rows' = [rows EXCEPT ![v] = NoRow] /\ reclaimed' = reclaimed /\ failures' = failures
         \/ /\ failures < MaxFailures /\ failures' = failures + 1
            /\ reclaimed' = reclaimed \union {q} /\ rows' = rows
  BY DEF PruneRow
<1>2. /\ 1 \in Entries /\ Victim = pruner.batch[1] /\ v \in Uploads /\ q \in Name
  BY <1>1, VictimIs DEF IngestType
<1>3. /\ upload[v].pc = "ended" /\ q = upload[v].path /\ q \in Wavs \union M4as
  BY <1>2 DEF Audio, BatchOK
<1>4. \A i \in Entries : pruner.batch[i].of = v => i = 1
  BY <1>2 DEF Audio, BatchOK
<1>5. /\ pruner' \in [pc : {"idle", "remove", "delete"}, batch : Seq(Entry)]
      /\ pruner'.pc # "delete" /\ (pruner'.pc = "idle" <=> pruner'.batch = <<>>)
      /\ \A i \in Entries' : pruner'.batch[i] = pruner.batch[i + 1] /\ i + 1 \in Entries /\ i + 1 # 1
                             /\ i \in Int
  <2>1. pruner.batch \in Seq(Entry) /\ pruner.batch # <<>>
    BY <1>1 DEF IngestType, PrunerType
  <2>2. /\ Tail(pruner.batch) \in Seq(Entry) /\ Len(Tail(pruner.batch)) = Len(pruner.batch) - 1
        /\ \A i \in 1..Len(Tail(pruner.batch)) : /\ Tail(pruner.batch)[i] = pruner.batch[i + 1]
                                                 /\ i + 1 \in 2..Len(pruner.batch)
    BY <2>1, TakenOff
  <2>3. CASE Len(pruner.batch) = 1
    <3>1. pruner' = Idle /\ <<>> \in Seq(Entry) /\ Len(<<>>) = 0
      BY <1>1, <2>3
    <3>. QED  BY <3>1 DEF Idle, Entries
  <2>4. CASE Len(pruner.batch) # 1
    <3>1. pruner' = [pc |-> "remove", batch |-> Tail(pruner.batch)]
      BY <1>1, <2>4
    <3>2. Len(pruner.batch) \in Nat /\ Len(pruner.batch) # 0
      BY <2>1
    <3>3. Tail(pruner.batch) # <<>>
      <4>1. Len(Tail(pruner.batch)) # 0 /\ Len(<<>>) = 0
        BY <2>2, <2>4, <3>2
      <4>. QED  BY <4>1
    <3>4. Entries' = 1..Len(Tail(pruner.batch))
      BY <3>1 DEF Entries
    <3>. QED  BY <2>2, <3>1, <3>3, <3>4 DEF Entries
  <2>. QED  BY <2>3, <2>4
<1>. HIDE DEF v, q
<1>6. jobs' = jobs /\ running' = running /\ outcome' = outcome /\ upload' = upload /\ files' = files
  BY <1>1 DEF pool
<1>7. /\ \A u \in Uploads : u # v => rows'[u] = rows[u]
      /\ rows' \in [Uploads -> Row]
      /\ \A u \in HasRow' : u \in HasRow /\ rows'[u] = rows[u]
      /\ (v \in HasRow' => reclaimed' = reclaimed \union {q})
      /\ reclaimed \subseteq reclaimed' /\ reclaimed' \subseteq reclaimed \union {q}
  <2>1. NoRow \in Row
    BY DEF NoRow, Row, Name
  <2>. QED  BY <1>1, <1>2, <2>1 DEF IngestType, RowsType, HasRow
<1>8. IngestType'
  <2>1. PrunerType'
    BY <1>3, <1>5, <1>7 DEF IngestType, PrunerType
  <2>2. RowsType'
    BY <1>7 DEF IngestType, RowsType
  <2>3. CountType'
    BY <1>1, IngestAssumption DEF IngestType, CountType, IngestAssumption
  <2>. QED  BY <1>1, <1>6, <2>1, <2>2, <2>3 DEF IngestType, UploadType, IdsType, JobsType, FilesType
<1>9. BatchOK'
  <2>1. \A i \in Entries' : LET e == pruner'.batch[i] IN
           upload'[e.of].pc = "ended" /\ e.path = upload'[e.of].path /\ e.path \in Wavs \union M4as
    BY <1>5, <1>6 DEF Audio, BatchOK
  <2>2. \A i, k \in Entries' : pruner'.batch[i].of = pruner'.batch[k].of => i = k
    <3>. SUFFICES ASSUME NEW i \in Entries', NEW k \in Entries', pruner'.batch[i].of = pruner'.batch[k].of
                  PROVE  i = k
      OBVIOUS
    <3>1. i + 1 = k + 1
      BY <1>5 DEF Audio, BatchOK
    <3>. QED  BY <1>5, <3>1
  <2>. QED  BY <2>1, <2>2 DEF BatchOK
<1>10. NamesOK' /\ RowsOK'
  BY <1>6, <1>7 DEF Audio, NamesOK, RowsOK
<1>11. JobsOK' /\ NamesTaken'
  BY <1>6 DEF Audio, JobsOK, JobOK, NamesTaken, Queued
<1>12. \A p : Bad(p) => Bad(p)'
  BY <1>6, <1>7 DEF Bad
<1>13. \A u \in Uploads : u # v => (Holds(u)' => Holds(u))
  <2>. SUFFICES ASSUME NEW u \in Uploads, u # v, Holds(u)' PROVE Holds(u)
    OBVIOUS
  <2>1. Doomed(u)' => Doomed(u)
    BY <1>5 DEF Doomed
  <2>2. ~Gone(u)
    BY DEF Gone, v
  <2>. QED  BY <1>6, <1>7, <2>1, <2>2 DEF Holds
<1>14. ASSUME NEW u \in Uploads, u = v, Holds(u)' PROVE Spoiled(u)' /\ upload'[u].path \in reclaimed'
  <2>1. ~Doomed(u)'
    BY <1>4, <1>5, <1>14 DEF Doomed
  <2>2. u \in HasRow'
    BY <1>3, <1>6, <1>14, <2>1 DEF Holds, Holding
  <2>3. upload'[u].path \in reclaimed'
    BY <1>3, <1>6, <1>7, <1>14, <2>2
  <2>4. upload'[u].path = upload'[u].in \/ upload'[u].path = upload'[u].out
    BY <1>6 DEF Audio, NamesOK
  <2>. QED  BY <2>3, <2>4 DEF Spoiled, Bad
<1>15. ASSUME NEW u \in Uploads, NEW p, Claims(u, p)' PROVE Claims(u, p) \/ Bad(p)'
  <2>1. CASE u # v
    BY <1>6, <1>13, <1>15, <2>1 DEF Claims
  <2>2. CASE u = v
    <3>1. p = upload'[u].path /\ Holds(u)'
      BY <1>3, <1>6, <1>15, <2>2 DEF Claims
    <3>. QED  BY <1>14, <2>2, <3>1 DEF Bad
  <2>. QED  BY <2>1, <2>2
<1>16. ReadIsOwn'
  BY <1>6, <1>12 DEF Audio, ReadIsOwn, Spoiled
<1>17. \A u \in Uploads : Holds(u)' => Holds(u) \/ Spoiled(u)'
  BY <1>13, <1>14
<1>18. \A p : Exists(p) => Exists(p)' /\ files'[p] = files[p]
  BY <1>6 DEF Exists
<1>19. Audio'
  BY <1>6, <1>8, <1>9, <1>10, <1>11, <1>12, <1>15, <1>16, <1>17, <1>18, FewerClaims
<1>. QED  BY <1>8, <1>19

-----------------------------------------------------------------------------
(* Admins, and a restart.                                                  *)

\* Rows go, and nothing else that counts.
LEMMA RowsGo ==
  ASSUME IngestType, Audio, rows' \in [Uploads -> Row], IdsType',
         \A u \in HasRow' : u \in HasRow /\ rows'[u].path = rows[u].path,
         UNCHANGED <<call, upload, disk, pool, pruner, failures, restarts>>
  PROVE  IngestType' /\ Audio'
<1>1. jobs' = jobs /\ running' = running /\ outcome' = outcome /\ upload' = upload /\ files' = files
      /\ reclaimed' = reclaimed /\ pruner' = pruner
  BY DEF disk, pool
<1>2. IngestType'
  <2>1. RowsType'
    BY DEF IngestType, RowsType
  <2>. QED  BY <1>1, <2>1 DEF IngestType, UploadType, JobsType, FilesType, PrunerType, CountType
<1>3. NamesOK' /\ RowsOK' /\ BatchOK' /\ JobsOK' /\ NamesTaken'
  BY <1>1 DEF Audio, NamesOK, RowsOK, BatchOK, JobsOK, JobOK, NamesTaken, Queued, Entries
<1>4. \A p : (Bad(p)' <=> Bad(p)) /\ (Exists(p)' <=> Exists(p))
  BY <1>1 DEF Bad, Exists
<1>5. \A u \in Uploads : Holds(u)' => Holds(u)
  BY <1>1 DEF Holds, Gone, Doomed, Entries, Victim
<1>6. \A u \in Uploads : \A p : Claims(u, p)' => Claims(u, p)
  BY <1>1, <1>5 DEF Claims
<1>7. ReadIsOwn'
  BY <1>1, <1>4 DEF Audio, ReadIsOwn, Spoiled
<1>8. Audio'
  BY <1>1, <1>2, <1>3, <1>4, <1>5, <1>6, <1>7, FewerClaims
<1>. QED  BY <1>2, <1>8

LEMMA DeleteSystemKeeps ==
  ASSUME IngestType, Audio, DeleteSystem
  PROVE  IngestType' /\ Audio'
<1>1. rows' = [u \in Uploads |-> NoRow] /\ NoRow \in Row
  BY DEF DeleteSystem, NoRow, Row, Name
<1>2. HasRow' = {}
  BY <1>1 DEF HasRow
<1>3. ids' = [ids EXCEPT !.sys = 0, !.tg = 0, !.tgOf = 0]
      /\ ids.usedSys < MaxIds /\ ids.usedTg < MaxIds /\ 0 \in Id
  BY IngestAssumption DEF DeleteSystem, Id, IngestAssumption
<1>4. IdsType'
  BY <1>3 DEF IngestType, IdsType
<1>. QED  BY <1>1, <1>2, <1>4, RowsGo DEF DeleteSystem

LEMMA DeleteTalkgroupKeeps ==
  ASSUME IngestType, Audio, DeleteTalkgroup
  PROVE  IngestType' /\ Audio' /\ HasRow' = HasRow
<1>. DEFINE f(u) == [rows[u] EXCEPT !.tg = 0]
<1>1. rows' = [u \in Uploads |-> IF u \in HasRow THEN f(u) ELSE NoRow] /\ NoRow \in Row
  BY DEF DeleteTalkgroup, NoRow, Row, Name
<1>2. \A u \in Uploads : rows[u] \in Row
  BY DEF IngestType, RowsType
<1>3. \A u \in Uploads : f(u) \in Row /\ f(u).path = rows[u].path
  BY <1>2 DEF Row
<1>. HIDE DEF f
<1>4. \A u \in Uploads : u \in HasRow => f(u) # NoRow
  <2>1. NoRow.path = NoPath
    BY DEF NoRow
  <2>2. \A u \in HasRow : rows[u].path # NoPath
    BY Kinds DEF IngestType, RowsType
  <2>. QED  BY <1>3, <2>1, <2>2
<1>5. rows' \in [Uploads -> Row]
  BY <1>1, <1>3
<1>6. HasRow' = HasRow
  BY <1>1, <1>4 DEF HasRow
<1>7. \A u \in HasRow : u \in Uploads /\ rows'[u].path = rows[u].path
  BY <1>1, <1>3 DEF HasRow
<1>8. ids' = [ids EXCEPT !.tg = 0, !.tgOf = 0] /\ ids.usedTg < MaxIds /\ 0 \in Id
  BY IngestAssumption DEF DeleteTalkgroup, Id, IngestAssumption
<1>9. IdsType'
  BY <1>8 DEF IngestType, IdsType
<1>10. UNCHANGED <<call, upload, disk, pool, pruner, failures, restarts>>
  BY DEF DeleteTalkgroup
<1>. QED  BY <1>5, <1>6, <1>7, <1>9, <1>10, RowsGo

LEMMA RestartKeeps ==
  ASSUME IngestType, Audio, Restart
  PROVE  IngestType' /\ Audio'
<1>. DEFINE r(u) == [upload[u] EXCEPT !.pc = "ended"]
<1>1. /\ upload' = [u \in Uploads |-> IF upload[u].pc \in {"new", "ended"} THEN upload[u] ELSE r(u)]
      /\ jobs' = <<>> /\ running' = {} /\ outcome' = [u \in Uploads |-> "none"] /\ pruner' = Idle
      /\ reclaimed' = IF pruner.pc = "delete" THEN reclaimed \union {Victim.path} ELSE reclaimed
      /\ restarts < MaxRestarts /\ restarts' = restarts + 1
      /\ UNCHANGED <<call, ids, rows, kept, files, failures>>
  BY DEF Restart
<1>2. \A u \in Uploads : upload[u] \in Handler
  BY DEF IngestType, UploadType
<1>3. \A u \in Uploads : /\ r(u) \in Handler /\ r(u).pc = "ended" /\ r(u).in = upload[u].in
                         /\ r(u).out = upload[u].out /\ r(u).path = upload[u].path
                         /\ r(u).left = upload[u].left
  BY <1>2 DEF Handler, PCs
<1>. HIDE DEF r
<1>4. /\ UploadType'
      /\ \A u \in Uploads : /\ upload'[u].in = upload[u].in /\ upload'[u].out = upload[u].out
                            /\ upload'[u].path = upload[u].path /\ upload'[u].left = upload[u].left
                            /\ upload'[u].pc \in {"new", "ended"}
                            /\ (upload'[u].pc = "new" => upload[u].pc = "new")
                            /\ (upload[u].pc = "ended" => upload'[u].pc = "ended")
  BY <1>1, <1>2, <1>3 DEF UploadType
<1>5. HasRow' = HasRow /\ rows' = rows /\ files' = files
  BY <1>1 DEF HasRow
<1>6. pruner'.pc = "idle" /\ pruner'.batch = <<>> /\ pruner' \in [pc : {"idle"}, batch : Seq(Entry)]
  BY <1>1 DEF Idle
<1>7. Entries' = {} /\ Queued' = {}
  <2>1. Len(<<>>) = 0 /\ 1..0 = {}
    OBVIOUS
  <2>. QED  BY <1>1, <1>6, <2>1 DEF Entries, Queued
<1>8. /\ reclaimed \subseteq reclaimed' /\ reclaimed' \subseteq Wavs \union M4as
      /\ \A u \in Uploads : Gone(u) => upload[u].path \in reclaimed' /\ upload[u].pc = "ended"
  <2>1. CASE pruner.pc = "delete"
    <3>1. 1 \in Entries /\ Victim = pruner.batch[1]
      BY <2>1, VictimIs DEF IngestType
    <3>2. Victim.path \in Wavs \union M4as /\ Victim.path = upload[Victim.of].path
          /\ upload[Victim.of].pc = "ended"
      BY <3>1 DEF Audio, BatchOK
    <3>. QED  BY <1>1, <2>1, <3>2 DEF IngestType, PrunerType, Gone
  <2>2. CASE pruner.pc # "delete"
    BY <1>1, <2>2 DEF IngestType, PrunerType, Gone
  <2>. QED  BY <2>1, <2>2
<1>9. IngestType'
  <2>1. PrunerType'
    BY <1>6, <1>8 DEF PrunerType
  <2>2. JobsType'
    BY <1>1 DEF JobsType
  <2>3. CountType'
    BY <1>1, IngestAssumption DEF IngestType, CountType, IngestAssumption
  <2>. QED  BY <1>1, <1>4, <1>5, <2>1, <2>2, <2>3 DEF IngestType, IdsType, RowsType, FilesType
<1>10. NamesOK'
  <2>. SUFFICES ASSUME NEW u \in Uploads PROVE NamesOK!(u)'
    BY DEF NamesOK
  <2>. QED  BY <1>4, <1>5 DEF Audio, NamesOK, Holding
<1>11. RowsOK' /\ BatchOK' /\ JobsOK' /\ NamesTaken' /\ ReadIsOwn'
  <2>1. RowsOK'
    <3>1. \A u \in HasRow : u \in Uploads
      BY DEF HasRow
    <3>. QED  BY <1>4, <1>5, <3>1 DEF Audio, RowsOK
  <2>2. BatchOK' /\ JobsOK' /\ ReadIsOwn'
    BY <1>1, <1>7 DEF BatchOK, JobsOK, ReadIsOwn
  <2>3. NamesTaken'
    BY <1>4, <1>5 DEF Audio, NamesTaken
  <2>. QED  BY <2>1, <2>2, <2>3
<1>12. \A p : Bad(p) => Bad(p)'
  BY <1>4, <1>8 DEF Bad
<1>13. ASSUME NEW u \in Uploads, Holds(u)'
       PROVE  Holds(u) \/ (Spoiled(u)' /\ upload[u].path \in reclaimed')
  <2>1. u \in HasRow
    BY <1>4, <1>5, <1>7, <1>13 DEF Holds, Doomed, Holding
  <2>2. CASE Gone(u)
    <3>1. upload[u].path = upload[u].in \/ upload[u].path = upload[u].out
      BY DEF Audio, NamesOK
    <3>. QED  BY <1>4, <1>8, <2>2, <3>1 DEF Spoiled, Bad
  <2>3. CASE ~Gone(u)
    BY <2>1, <2>3 DEF Holds
  <2>. QED  BY <2>2, <2>3
<1>14. \A u \in Uploads : Holds(u)' => Holds(u) \/ Spoiled(u)'
  BY <1>13
<1>15. ASSUME NEW u \in Uploads, NEW p, Claims(u, p)' PROVE Claims(u, p) \/ Bad(p)'
  <2>1. Holds(u)' /\ p = upload[u].path
    BY <1>4, <1>15 DEF Claims
  <2>. QED  BY <1>13, <2>1 DEF Claims, Bad
<1>16. \A u \in Uploads : upload'[u].pc # "convert"
  BY <1>4
<1>17. \A p : Exists(p) => Exists(p)' /\ files'[p] = files[p]
  BY <1>5 DEF Exists
<1>18. Audio'
  BY <1>4, <1>9, <1>10, <1>11, <1>12, <1>14, <1>15, <1>16, <1>17, FewerClaims
<1>. QED  BY <1>9, <1>18

-----------------------------------------------------------------------------
(* The archive at first.                                                   *)

\* A set of numbers up to MaxIds has a greatest one.
LEMMA GreatestOne ==
  ASSUME NEW S, S \subseteq Id, S # {}
  PROVE  Max(S) \in S
<1>. DEFINE T == {MaxIds - x : x \in S}
<1>0. MaxIds \in Nat
  BY IngestAssumption DEF IngestAssumption
<1>1. T \subseteq Nat /\ T # {}
  <2>1. \A x \in S : MaxIds - x \in Nat
    BY <1>0 DEF Id
  <2>2. PICK x \in S : TRUE
    OBVIOUS
  <2>3. MaxIds - x \in T
    BY <2>2
  <2>. QED  BY <2>1, <2>3
<1>2. PICK t \in T : \A y \in T : <<y, t>> \notin OpToRel(<, Nat)
  BY <1>1, NatLessThanWellFounded, WFMin
<1>3. \A y \in T : ~(y < t)
  BY <1>1, <1>2 DEF OpToRel
<1>4. PICK x \in S : t = MaxIds - x
  OBVIOUS
<1>5. \A y \in S : x >= y
  <2>. SUFFICES ASSUME NEW y \in S PROVE x >= y
    OBVIOUS
  <2>1. ~(MaxIds - y < MaxIds - x)
    BY <1>3, <1>4
  <2>. QED  BY <1>0, <2>1 DEF Id
<1>. QED  BY <1>5 DEF Max

LEMMA StemIs ==
  /\ Stem \in [Uploads -> 1..Cardinality(Uploads)]
  /\ \A u, v \in Uploads : Stem[u] = Stem[v] => u = v
  /\ \A u \in Uploads : Stem[u] \in Stems
<1>. DEFINE N == Cardinality(Uploads)
<1>1. N \in Nat
  BY Sizes
<1>2. ExistsBijection(1..N, Uploads)
  BY Sizes, FS_CardinalityType
<1>3. ExistsBijection(Uploads, 1..N)
  BY <1>2, Fun_ExistsBijSymmetric
<1>4. PICK f \in [Uploads -> 1..N] : IsInjective(f)
  BY <1>3 DEF ExistsBijection, Bijection, Injection
<1>5. Stem \in [Uploads -> 1..N] /\ IsInjective(Stem)
  BY <1>4 DEF Stem
<1>6. \A u, v \in Uploads : Stem[u] = Stem[v] => u = v
  BY <1>5 DEF IsInjective
<1>7. \A u \in Uploads : Stem[u] \in Stems
  BY <1>1, <1>5 DEF Stems
<1>. QED  BY <1>5, <1>6, <1>7

LEMMA LoadIs ==
  ASSUME NEW l \in Loads
  PROVE  /\ l.calls \in Calls /\ l.tg \in [Uploads -> Id] /\ l.restricted \subseteq Users
         /\ l.shared \in Uploads \union {None} /\ l.by \in Users
         /\ l.failures \in 0..MaxFailures /\ l.restarts \in 0..MaxRestarts
BY ArchiveAssumption DEF ArchiveAssumption, Id

\* Nobody has uploaded anything, or all that was has been stored.
LEMMA AudioInit ==
  ASSUME \A u \in Uploads :
           /\ upload[u].pc \in {"new", "ended"} /\ upload[u].out = NoPath /\ ~upload[u].left
           /\ upload[u].path = upload[u].in
           /\ (upload[u].pc = "new" => upload[u].in = NoPath)
           /\ upload[u].in \in M4as \union {NoPath}
           /\ (u \in HasRow => upload[u].pc = "ended" /\ rows[u].path = upload[u].path
                               /\ upload[u].path \in M4as /\ Intact(u, upload[u].path)),
         \A p \in DOMAIN files : \E u \in Uploads : p = upload[u].in,
         \A u, v \in HasRow : upload[u].path = upload[v].path => u = v,
         jobs = <<>>, running = {}, outcome = [u \in Uploads |-> "none"], pruner = Idle, reclaimed = {}
  PROVE  Audio
<1>1. Entries = {} /\ Queued = {} /\ pruner.pc = "idle"
  <2>1. Len(<<>>) = 0 /\ 1..0 = {}
    OBVIOUS
  <2>. QED  BY <2>1 DEF Entries, Queued, Idle
<1>2. NamesOK
  BY Kinds DEF NamesOK, Holding
<1>3. RowsOK /\ BatchOK /\ JobsOK /\ NamesTaken
  BY <1>1 DEF RowsOK, BatchOK, JobsOK, NamesTaken, HasRow
<1>4. \A u \in Uploads : Holds(u) => u \in HasRow
  BY <1>1 DEF Holds, Doomed, Holding
<1>5. \A u \in Uploads : \A p : Claims(u, p) => u \in HasRow /\ p = upload[u].path
  BY <1>4 DEF Claims
<1>6. ClaimsStand /\ ClaimsDiffer
  BY <1>5 DEF ClaimsStand, ClaimsDiffer, Intact
<1>7. StoredIsOwn /\ WrittenIsOwn /\ ReadIsOwn
  BY <1>4 DEF StoredIsOwn, WrittenIsOwn, ReadIsOwn
<1>. QED  BY <1>2, <1>3, <1>6, <1>7 DEF Audio

LEMMA FreshType ==
  /\ Fresh \in Handler /\ Fresh.pc = "new" /\ Fresh.in = NoPath /\ Fresh.out = NoPath /\ Fresh.path = NoPath
  /\ ~Fresh.left
BY DEF Fresh, Handler, PCs, Name

LEMMA IdleType ==
  /\ Idle \in [pc : {"idle", "remove", "delete"}, batch : Seq(Entry)]
  /\ (Idle.pc = "idle" <=> Idle.batch = <<>>)
<1>1. <<>> \in Seq(Entry)
  OBVIOUS
<1>. QED  BY <1>1 DEF Idle

LEMMA EmptyInit ==
  ASSUME Init
  PROVE  IngestType /\ Audio
<1>1. /\ call \in Calls /\ upload = [u \in Uploads |-> Fresh]
      /\ ids = [sys |-> 0, tg |-> 0, tgOf |-> 0, usedSys |-> 0, usedTg |-> 0]
      /\ rows = [u \in Uploads |-> NoRow]
      /\ files = <<>> /\ jobs = <<>> /\ running = {} /\ outcome = [u \in Uploads |-> "none"]
      /\ pruner = Idle /\ reclaimed = {} /\ failures = 0 /\ restarts = 0
  BY DEF Init
<1>2. HasRow = {}
  BY <1>1 DEF HasRow
<1>3. DOMAIN files = {}
  BY <1>1
<1>4. IngestType
  <2>1. UploadType
    BY <1>1, FreshType DEF UploadType
  <2>2. IdsType
    BY <1>1, IngestAssumption DEF IdsType, Id, IngestAssumption
  <2>3. RowsType
    BY <1>1, <1>2 DEF RowsType, NoRow, Row, Name
  <2>4. FilesType
    BY <1>3 DEF FilesType
  <2>5. JobsType
    BY <1>1 DEF JobsType
  <2>6. PrunerType
    BY <1>1, IdleType DEF PrunerType
  <2>7. CountType
    BY <1>1, IngestAssumption DEF CountType, IngestAssumption
  <2>. QED  BY <1>1, <2>1, <2>2, <2>3, <2>4, <2>5, <2>6, <2>7 DEF IngestType
<1>5. \A u \in Uploads : upload[u] = Fresh
  BY <1>1
<1>6. Audio
  BY <1>1, <1>2, <1>3, <1>5, FreshType, AudioInit
<1>. QED  BY <1>4, <1>6

LEMMA StockInit ==
  ASSUME NEW l \in Loads, call = l.calls, Stock(l)
  PROVE  IngestType /\ Audio /\ HasRow = Uploads
<1>. DEFINE P(u) == <<Stem[u], "m4a">>
            r(u) == [Fresh EXCEPT !.pc = "ended", !.sys = 1, !.tg = l.tg[u], !.path = P(u), !.in = P(u)]
            last == Max(Range(l.tg))
            row(u) == [path |-> P(u), tg |-> l.tg[u]]
<1>1. /\ upload = [u \in Uploads |-> r(u)] /\ rows = [u \in Uploads |-> row(u)]
      /\ ids = [sys |-> 1, tg |-> last, tgOf |-> 1, usedSys |-> 1, usedTg |-> last]
      /\ files = [p \in {P(u) : u \in Uploads} |-> CHOOSE u \in Uploads : Stem[u] = p[1]]
      /\ jobs = <<>> /\ running = {} /\ outcome = [u \in Uploads |-> "none"]
      /\ pruner = Idle /\ reclaimed = {} /\ failures = l.failures /\ restarts = l.restarts
  BY DEF Stock
<1>2. \A u \in Uploads : P(u) \in M4as /\ P(u) \in Name /\ P(u)[1] = Stem[u]
  BY StemIs DEF M4as, Name
<1>3. \A u \in Uploads : l.tg[u] \in Id /\ l.tg[u] \in Nat
  BY LoadIs DEF Id
<1>4. last \in Id
  <2>1. DOMAIN l.tg = Uploads /\ \A u \in Uploads : l.tg[u] \in Id
    BY LoadIs
  <2>2. Range(l.tg) \subseteq Id
    BY <2>1 DEF Range
  <2>3. PICK u \in Uploads : TRUE
    BY IngestAssumption DEF IngestAssumption
  <2>4. l.tg[u] \in Range(l.tg)
    BY <2>1, <2>3 DEF Range
  <2>5. Max(Range(l.tg)) \in Range(l.tg)
    BY <2>2, <2>4, GreatestOne
  <2>. QED  BY <2>2, <2>5
<1>5. \A u, v \in Uploads : P(u) = P(v) => u = v
  BY StemIs
<1>6. DOMAIN files = {P(u) : u \in Uploads} /\ \A u \in Uploads : files[P(u)] = u
  <2>1. DOMAIN files = {P(u) : u \in Uploads}
    BY <1>1
  <2>2. ASSUME NEW u \in Uploads PROVE files[P(u)] = u
    <3>1. files[P(u)] = CHOOSE v \in Uploads : Stem[v] = P(u)[1]
      BY <1>1
    <3>2. (CHOOSE v \in Uploads : Stem[v] = Stem[u]) = u
      BY StemIs
    <3>. QED  BY <1>2, <3>1, <3>2
  <2>. QED  BY <2>1, <2>2
<1>. HIDE DEF P, last
<1>7. \A u \in Uploads : /\ r(u) \in Handler /\ r(u).pc = "ended" /\ r(u).in = P(u) /\ r(u).out = NoPath
                         /\ r(u).path = P(u) /\ ~r(u).left
  BY <1>2, <1>3 DEF Fresh, Handler, PCs, Name
<1>8. \A u \in Uploads : row(u) \in Row /\ row(u).path = P(u)
  BY <1>2, <1>3 DEF Row
<1>. HIDE DEF r, row
<1>9. HasRow = Uploads
  <2>1. \A u \in Uploads : row(u).path # NoPath
    BY <1>2, <1>8, Kinds
  <2>2. NoRow.path = NoPath
    BY DEF NoRow
  <2>. QED  BY <1>1, <2>1, <2>2 DEF HasRow
<1>10. IngestType
  <2>1. UploadType
    BY <1>1, <1>7 DEF UploadType
  <2>2. IdsType
    BY <1>1, <1>4, IngestAssumption DEF IdsType, Id, IngestAssumption
  <2>3. RowsType
    <3>1. rows \in [Uploads -> Row]
      BY <1>1, <1>8
    <3>2. \A u \in Uploads : rows[u].path = P(u)
      BY <1>1, <1>8
    <3>. QED  BY <1>2, <1>9, <3>1, <3>2 DEF RowsType
  <2>4. FilesType
    BY <1>2, <1>6 DEF FilesType
  <2>5. JobsType
    BY <1>1 DEF JobsType
  <2>6. PrunerType
    BY <1>1, IdleType DEF PrunerType
  <2>7. CountType
    BY <1>1, LoadIs DEF CountType
  <2>. QED  BY LoadIs, <2>1, <2>2, <2>3, <2>4, <2>5, <2>6, <2>7 DEF IngestType
<1>11. Audio
  <2>1. \A u \in Uploads : upload[u] = r(u) /\ rows[u] = row(u) /\ Intact(u, P(u))
    BY <1>1, <1>6 DEF Intact, Exists
  <2>2. \A p \in DOMAIN files : \E u \in Uploads : p = upload[u].in
    BY <1>6, <1>7, <2>1
  <2>3. \A u, v \in HasRow : upload[u].path = upload[v].path => u = v
    BY <1>5, <1>7, <1>9, <2>1
  <2>. QED  BY <1>1, <1>2, <1>7, <1>8, <1>9, <2>1, <2>2, <2>3, AudioInit
<1>. QED  BY <1>9, <1>10, <1>11

-----------------------------------------------------------------------------
(* The invariant holds always.                                             *)

LEMMA PassedType ==
  ASSUME IngestType, NEW u \in Uploads, NEW pc \in PCs, Passed(u, pc), call' = call, IdsType', CountType'
  PROVE  IngestType'
<1>1. UploadType' /\ UNCHANGED <<rows, files, reclaimed, jobs, running, outcome, pruner>>
  BY DEF Passed, disk, pool
<1>2. HasRow' = HasRow
  BY <1>1 DEF HasRow
<1>3. RowsType' /\ FilesType'
  BY <1>1, <1>2 DEF IngestType, RowsType, FilesType
<1>4. JobsType' /\ PrunerType'
  BY <1>1 DEF IngestType, JobsType, PrunerType
<1>. QED  BY <1>1, <1>3, <1>4 DEF IngestType

LEMMA HandlerStepKeeps ==
  ASSUME IngestType, Audio, NEW u \in Uploads, Begin(u) \/ Handle(u) \/ GiveUp(u)
  PROVE  IngestType' /\ Audio'
<1>1. UploadType /\ IdsType /\ CountType /\ NamesOK
  BY DEF IngestType, Audio
<1>2. CASE Begin(u)
  <2>1. PICK pc \in PCs : Passed(u, pc)
    BY <1>1, <1>2, BeginPasses
  <2>2. call' = call /\ IdsType' /\ CountType'
    BY <1>1, <1>2 DEF Begin, IdsType, CountType
  <2>. QED  BY <2>1, <2>2, PassedType, PassedKeeps
<1>3. CASE ReadTalkgroup(u)
  <2>1. PICK pc \in PCs : Passed(u, pc)
    BY <1>1, <1>3, ReadTalkgroupPasses
  <2>2. call' = call /\ IdsType' /\ CountType'
    BY <1>1, <1>3 DEF ReadTalkgroup, IdsType, CountType
  <2>. QED  BY <2>1, <2>2, PassedType, PassedKeeps
<1>4. CASE CreateSystem(u)
  <2>1. PICK pc \in PCs : Passed(u, pc)
    BY <1>1, <1>4, CreateSystemPasses
  <2>2. call' = call /\ IdsType' /\ CountType'
    BY <1>1, <1>4, CreateSystemPasses DEF CreateSystem, CountType
  <2>. QED  BY <2>1, <2>2, PassedType, PassedKeeps
<1>5. CASE CreateTalkgroup(u)
  <2>1. PICK pc \in PCs : Passed(u, pc)
    BY <1>1, <1>5, CreateTalkgroupPasses
  <2>2. call' = call /\ IdsType' /\ CountType'
    BY <1>1, <1>5, CreateTalkgroupPasses DEF CreateTalkgroup, CountType
  <2>. QED  BY <2>1, <2>2, PassedType, PassedKeeps
<1>6. CASE CheckDuplicate(u)
  <2>1. PICK pc \in PCs : Passed(u, pc)
    BY <1>1, <1>6, CheckDuplicatePasses
  <2>2. call' = call /\ IdsType' /\ CountType'
    BY <1>1, <1>6, CheckDuplicatePasses DEF CheckDuplicate, IdsType
  <2>. QED  BY <2>1, <2>2, PassedType, PassedKeeps
<1>7. CASE GiveUp(u) /\ upload[u].pc # "convert"
  <2>1. Passed(u, "ended") /\ "ended" \in PCs
    BY <1>1, <1>7, GiveUpPasses DEF PCs
  <2>2. call' = call /\ IdsType' /\ CountType'
    BY <1>1, <1>7, GiveUpPasses DEF GiveUp, IdsType
  <2>. QED  BY <2>1, <2>2, PassedType, PassedKeeps
<1>8. CASE GiveUp(u) /\ upload[u].pc = "convert"
  BY <1>8, GiveUpKeeps
<1>9. CASE Store(u) \/ Submit(u) \/ Converted(u) \/ Insert(u)
  BY <1>9, StoreKeeps, SubmitKeeps, ConvertedKeeps, InsertKeeps
<1>. QED  BY <1>2, <1>3, <1>4, <1>5, <1>6, <1>7, <1>8, <1>9 DEF Handle

LEMMA StoredKeeps ==
  ASSUME IngestType, Audio, UNCHANGED stored
  PROVE  IngestType' /\ Audio' /\ HasRow' = HasRow
<1>1. UNCHANGED <<call, upload, ids, rows, files, reclaimed, jobs, running, outcome, pruner, failures, restarts>>
  BY DEF stored, disk, pool
<1>2. HasRow' = HasRow
  BY <1>1 DEF HasRow
<1>3. IngestType'
  BY <1>1, <1>2 DEF IngestType, UploadType, IdsType, RowsType, FilesType, JobsType, PrunerType, CountType
<1>4. /\ \A p : Bad(p)' <=> Bad(p)
      /\ \A u \in Uploads : (Holds(u)' <=> Holds(u)) /\ (Spoiled(u)' <=> Spoiled(u))
      /\ \A u \in Uploads : \A p : Claims(u, p)' <=> Claims(u, p)
  BY <1>1, <1>2 DEF Bad, Spoiled, Claims, Holds, Gone, Doomed, Entries, Victim
<1>5. NamesOK' /\ RowsOK' /\ BatchOK' /\ JobsOK' /\ NamesTaken'
  BY <1>1, <1>2 DEF Audio, NamesOK, RowsOK, BatchOK, Entries, JobsOK, JobOK, Queued, NamesTaken
<1>6. ClaimsStand' /\ ClaimsDiffer'
  BY <1>1, <1>4 DEF Audio, ClaimsStand, ClaimsDiffer, Exists
<1>7. StoredIsOwn' /\ WrittenIsOwn' /\ ReadIsOwn'
  <2>1. \A j \in running : j.of \in Uploads
    BY PendingType DEF IngestType
  <2>. QED  BY <1>1, <1>4, <2>1 DEF Audio, StoredIsOwn, WrittenIsOwn, ReadIsOwn, Intact, Exists
<1>. QED  BY <1>2, <1>3, <1>5, <1>6, <1>7 DEF Audio

LEMMA AudioStep ==
  ASSUME IngestType, Audio, [ANext]_avars
  PROVE  IngestType' /\ Audio'
<1>1. IngestStep
  BY ToIngest
<1>2. ASSUME NEW u \in Uploads, Begin(u) \/ Handle(u) \/ GiveUp(u)
      PROVE  IngestType' /\ Audio'
  BY <1>2, HandlerStepKeeps
<1>3. CASE Work
  BY <1>3, JobStartKeeps, FinishKeeps DEF Work, JobEnd
<1>4. CASE Prune
  BY <1>4, PruneQueryKeeps, PruneFileKeeps, PruneRowKeeps DEF Prune
<1>5. CASE DeleteSystem \/ DeleteTalkgroup \/ Restart
  BY <1>5, DeleteSystemKeeps, DeleteTalkgroupKeeps, RestartKeeps
<1>6. CASE UNCHANGED stored
  BY <1>6, StoredKeeps
<1>. QED  BY <1>1, <1>2, <1>3, <1>4, <1>5, <1>6 DEF IngestStep

LEMMA AudioAtFirst ==
  ASSUME AInit
  PROVE  IngestType /\ Audio
<1>1. load \in Loads /\ call = load.calls
  BY DEF AInit
<1>2. CASE load.plans = {}
  BY <1>2, EmptyInit DEF AInit
<1>3. CASE load.plans # {}
  <2>1. Stock(load)
    BY <1>3 DEF AInit
  <2>. QED  BY <1>1, <2>1, StockInit
<1>. QED  BY <1>2, <1>3

\* What counts on a recording finds it, its own and nobody else's, always.
THEOREM AudioAlways == ASpec => [](IngestType /\ Audio)
<1>1. AInit => IngestType /\ Audio
  BY AudioAtFirst
<1>2. IngestType /\ Audio /\ [ANext]_avars => (IngestType /\ Audio)'
  BY AudioStep
<1>. QED  BY <1>1, <1>2, PTL DEF ASpec


-----------------------------------------------------------------------------
(* The inductive invariant about links and bookmarks.                      *)

Link == [id : Nat, token : Nat, by : Users \union {Other}, made : Nat, expires : Nat]

UndoOK == undo = NoUndo \/ (undo.of \in Uploads /\ undo.link \in Link /\ undo.link.token \in 0..used)
LinksOK ==
  /\ used \in 0..MaxLinks /\ links \in [Uploads -> Link]
  /\ \A u \in Uploads : links[u].token \in 0..used
  /\ now \in Nat /\ expiry \in Nat
  /\ UndoOK

\* A request that is to write knows its call.
Carrying == {"create", "delete", "mark", "unmark"}
VisitOK(r) ==
  /\ "pc" \in DOMAIN r
  /\ (r.pc \in Carrying => r.of \in Uploads /\ r.expires \in Nat)
RequestsOK ==
  /\ DOMAIN visit = Visitors /\ \A x \in Visitors : VisitOK(visit[x])
  /\ \A k \in sweep : k.of \in Uploads

Tokens == {links[u].token : u \in Linked}
TokensOK ==
  /\ given \union ended \union raced \subseteq 0..used
  /\ given \ (ended \union raced) \subseteq Tokens

\* Only calls there are have links and bookmarks.
RefersOK ==
  /\ marks \subseteq (Users \union {Other}) \X Uploads
  /\ Keepers(links, marks) \subseteq HasRow

\* What the pruner has listed and somebody keeps was first kept since.
KeptOK ==
  /\ kept = Keepers(links, marks) /\ late \subseteq kept
  /\ \A i \in DOMAIN pruner.batch : pruner.batch[i].of \in kept => pruner.batch[i].of \in late

Referring == LinksOK /\ RequestsOK /\ TokensOK /\ RefersOK /\ KeptOK

-----------------------------------------------------------------------------
(* One link or one request changes.                                        *)

LEMMA NoLinkIs == NoLink \in Link /\ NoLink.token = 0 /\ NoLink.id = 0
BY DEF NoLink, Link

LEMMA LinkTaken ==
  ASSUME LinksOK, NEW u \in Uploads, links' = [links EXCEPT ![u] = NoLink], used' = used
  PROVE  /\ links' \in [Uploads -> Link] /\ used' \in 0..MaxLinks
         /\ \A v \in Uploads : links'[v].token \in 0..used'
         /\ Linked' = Linked \ {u}
         /\ \A v \in Uploads : v # u => links'[v] = links[v]
<1>1. links' \in [Uploads -> Link] /\ used' \in 0..MaxLinks /\ used \in Nat
  BY NoLinkIs DEF LinksOK
<1>2. links'[u] = NoLink /\ \A v \in Uploads : v # u => links'[v] = links[v]
  BY DEF LinksOK
<1>3. \A v \in Uploads : links'[v].token \in 0..used'
  BY <1>1, <1>2, NoLinkIs DEF LinksOK
<1>4. Linked' = Linked \ {u}
  BY <1>2 DEF Linked
<1>. QED  BY <1>1, <1>2, <1>3, <1>4

LEMMA LinkMade ==
  ASSUME LinksOK, NEW u \in Uploads, NEW k \in Link, k # NoLink, k.token \in 0..used + 1, Insert1(u, k)
  PROVE  /\ links' \in [Uploads -> Link] /\ used' \in 0..MaxLinks /\ used' = used + 1 /\ used \in Nat
         /\ \A v \in Uploads : links'[v].token \in 0..used'
         /\ Linked' = Linked \union {u} /\ links'[u] = k
         /\ \A v \in Uploads : v # u => links'[v] = links[v]
<1>0. MaxLinks \in Nat /\ used \in 0..MaxLinks /\ used \in Nat
  BY ArchiveAssumption DEF ArchiveAssumption, LinksOK
<1>1. links' \in [Uploads -> Link] /\ used' \in 0..MaxLinks /\ used' = used + 1
  BY <1>0 DEF LinksOK, Insert1
<1>2. links'[u] = k /\ \A v \in Uploads : v # u => links'[v] = links[v]
  BY DEF LinksOK, Insert1
<1>3. \A v \in Uploads : links'[v].token \in 0..used'
  <2>. SUFFICES ASSUME NEW v \in Uploads PROVE links'[v].token \in 0..used + 1
    BY <1>1
  <2>1. links[v].token \in 0..used
    BY DEF LinksOK
  <2>2. links[v].token \in 0..used + 1
    BY <1>0, <2>1
  <2>. QED  BY <1>2, <2>2
<1>4. Linked' = Linked \union {u}
  BY <1>2 DEF Linked
<1>. QED  BY <1>0, <1>1, <1>2, <1>3, <1>4

LEMMA UndoStays ==
  ASSUME LinksOK, undo' = undo, used' = used \/ used' = used + 1
  PROVE  UndoOK'
<1>1. used \in Nat
  BY ArchiveAssumption DEF ArchiveAssumption, LinksOK
<1>2. \A t \in 0..used : t \in 0..used'
  BY <1>1
<1>. QED  BY <1>2 DEF LinksOK, UndoOK

LEMMA EndedIs ==
  /\ VisitOK(Ended)
  /\ \A u \in Uploads, e \in Nat : VisitOK([Ended EXCEPT !.pc = "create", !.of = u, !.expires = e])
  /\ \A u \in Uploads : \A i : VisitOK([Ended EXCEPT !.pc = "delete", !.of = u, !.id = i])
  /\ \A u \in Uploads, pc \in {"mark", "unmark"} : VisitOK([Ended EXCEPT !.of = u, !.pc = pc])
BY DEF VisitOK, Ended, Carrying

LEMMA Moves ==
  ASSUME RequestsOK, NEW x \in Visitors, NEW r, VisitOK(r), Goes(x, r), sweep' = sweep
  PROVE  RequestsOK'
BY DEF RequestsOK, Goes

LEMMA KeepingKept ==
  ASSUME KeptOK, Keeping
  PROVE  KeptOK'
<1>1. kept' = Keepers(links', marks') /\ pruner' = pruner
  BY DEF Keeping, stored
<1>2. late' \subseteq kept'
  BY DEF Keeping
<1>3. \A i \in DOMAIN pruner.batch : pruner.batch[i].of \in kept' => pruner.batch[i].of \in late'
  BY DEF KeptOK, Keeping
<1>. QED  BY <1>1, <1>2, <1>3 DEF KeptOK

-----------------------------------------------------------------------------
(* The archive's own steps.                                                *)

\* A link of a call is ended, and its token with it.
LEMMA TakingKeeps ==
  ASSUME LinksOK, RequestsOK, TokensOK, RefersOK, KeptOK, NEW u \in Uploads,
         links' = [links EXCEPT ![u] = NoLink], Keeping,
         \/ ended' = ended \union {links[u].token} /\ raced' = raced
         \/ raced' = raced \union {links[u].token} /\ ended' = ended,
         UNCHANGED <<used, marks, expiry, now, given>>, UndoOK'
  PROVE  LinksOK' /\ TokensOK' /\ RefersOK' /\ KeptOK'
<1>1. /\ links' \in [Uploads -> Link] /\ used' \in 0..MaxLinks
      /\ \A v \in Uploads : links'[v].token \in 0..used'
      /\ Linked' = Linked \ {u}
      /\ \A v \in Uploads : v # u => links'[v] = links[v]
  BY LinkTaken
<1>2. LinksOK'
  BY <1>1 DEF LinksOK
<1>3. TokensOK'
  <2>1. links[u].token \in 0..used
    BY DEF LinksOK
  <2>2. (given \union ended \union raced \subseteq 0..used)'
    BY <2>1 DEF TokensOK
  <2>3. Tokens \subseteq Tokens' \union {links[u].token}
    BY <1>1 DEF Tokens, Linked
  <2>. QED  BY <2>2, <2>3 DEF TokensOK
<1>4. RefersOK'
  <2>1. Keepers(links, marks)' \subseteq Keepers(links, marks)
    BY <1>1 DEF Keepers, Linked
  <2>2. HasRow' = HasRow
    BY DEF Keeping, stored, HasRow
  <2>. QED  BY <2>1, <2>2 DEF RefersOK
<1>. QED  BY <1>2, <1>3, <1>4, KeepingKept

\* A call there is gets a link, whose token is new, or one that was given.
LEMMA MakingKeeps ==
  ASSUME LinksOK, TokensOK, RefersOK, KeptOK, NEW u \in HasRow \ Linked,
         NEW k \in Link, k # NoLink, k.token \in 0..used + 1, Insert1(u, k), Keeping,
         given' \subseteq given \union {k.token},
         ended' \subseteq ended, ended \ {k.token} \subseteq ended',
         raced' \subseteq raced, raced \ {k.token} \subseteq raced',
         UNCHANGED <<marks, expiry, now>>, UndoOK'
  PROVE  LinksOK' /\ TokensOK' /\ RefersOK' /\ KeptOK'
<1>0. u \in Uploads
  BY DEF HasRow
<1>1. /\ links' \in [Uploads -> Link] /\ used' \in 0..MaxLinks /\ used' = used + 1 /\ used \in Nat
      /\ \A v \in Uploads : links'[v].token \in 0..used'
      /\ Linked' = Linked \union {u} /\ links'[u] = k
      /\ \A v \in Uploads : v # u => links'[v] = links[v]
  BY <1>0, LinkMade
<1>2. LinksOK'
  BY <1>1 DEF LinksOK
<1>3. TokensOK'
  <2>1. \A t \in 0..used : t \in 0..used'
    BY <1>1
  <2>2. (given \union ended \union raced \subseteq 0..used)'
    BY <1>1, <2>1 DEF TokensOK
  <2>3. Tokens \union {k.token} \subseteq Tokens'
    BY <1>0, <1>1 DEF Tokens, Linked
  <2>. QED  BY <2>2, <2>3 DEF TokensOK
<1>4. RefersOK'
  <2>1. Keepers(links, marks)' \subseteq Keepers(links, marks) \union {u}
    BY <1>1 DEF Keepers, Linked
  <2>2. HasRow' = HasRow
    BY DEF Keeping, stored, HasRow
  <2>. QED  BY <2>1, <2>2 DEF RefersOK
<1>. QED  BY <1>2, <1>3, <1>4, KeepingKept

\* The tables stay, or the bookmarks of calls there are do all that changes.
LEMMA MarkingKeeps ==
  ASSUME LinksOK, TokensOK, RefersOK, KeptOK, Keeping,
         marks' \subseteq (Users \union {Other}) \X Uploads,
         \A p \in marks' : p \in marks \/ p[2] \in HasRow,
         UNCHANGED <<links, used, expiry, now, undo, ended, raced>>,
         given' \subseteq given \union Tokens
  PROVE  LinksOK' /\ TokensOK' /\ RefersOK' /\ KeptOK'
<1>1. LinksOK'
  BY DEF LinksOK, UndoOK
<1>2. TokensOK'
  <2>1. Tokens' = Tokens /\ Tokens \subseteq 0..used
    BY DEF Tokens, Linked, LinksOK
  <2>. QED  BY <2>1 DEF TokensOK
<1>3. RefersOK'
  <2>1. HasRow' = HasRow
    BY DEF Keeping, stored, HasRow
  <2>2. Keepers(links, marks)' \subseteq HasRow
    BY DEF RefersOK, Keepers
  <2>. QED  BY <2>1, <2>2 DEF RefersOK
<1>. QED  BY <1>1, <1>2, <1>3, KeepingKept

\* Nothing in a table changes.
LEMMA LookingKeeps ==
  ASSUME LinksOK, TokensOK, RefersOK, KeptOK, UNCHANGED <<vars, table, undo, ended, raced, late>>,
         now' \in Nat, expiry' \in Nat, given' \subseteq given \union Tokens
  PROVE  LinksOK' /\ TokensOK' /\ RefersOK' /\ KeptOK'
<1>1. UNCHANGED <<links, used, marks, rows, kept, pruner>>
  BY DEF vars, table
<1>2. LinksOK'
  BY <1>1 DEF LinksOK, UndoOK
<1>3. TokensOK'
  <2>1. Tokens' = Tokens /\ Tokens \subseteq 0..used
    BY <1>1 DEF Tokens, Linked, LinksOK
  <2>. QED  BY <1>1, <2>1 DEF TokensOK
<1>4. RefersOK' /\ KeptOK'
  BY <1>1 DEF RefersOK, KeptOK, HasRow
<1>. QED  BY <1>2, <1>3, <1>4

LEMMA SharingKeeps ==
  ASSUME Referring, NEW x \in Visitors, Sharing(x)
  PROVE  Referring'
<1>. USE DEF Referring
<1>0. By[x] \in Users
  BY ArchiveAssumption DEF ArchiveAssumption
<1>1. CASE ShareCheck(x)
  <2>1. PICK u \in HasRow :
          IF u \in Linked
            THEN Ends(x) /\ given' = given \union {links[u].token}
            ELSE /\ Goes(x, [Ended EXCEPT !.pc = "create", !.of = u,
                               !.expires = IF expiry = 0 THEN 0 ELSE now + expiry])
                 /\ UNCHANGED given
    BY <1>1 DEF ShareCheck
  <2>2. u \in Uploads /\ (IF expiry = 0 THEN 0 ELSE now + expiry) \in Nat
    BY DEF HasRow, LinksOK
  <2>3. RequestsOK'
    BY <1>1, <2>1, <2>2, EndedIs, Moves DEF ShareCheck, Ends
  <2>4. given' \subseteq given \union Tokens
    BY <2>1 DEF Tokens
  <2>5. now' \in Nat /\ expiry' \in Nat /\ UNCHANGED <<vars, table, undo, ended, raced, late>>
    BY <1>1 DEF ShareCheck, LinksOK
  <2>. QED  BY <2>3, <2>4, <2>5, LookingKeeps
<1>2. CASE ShareCreate(x)
  <2>. DEFINE u == visit[x].of
  <2>1. u \in Uploads /\ visit[x].expires \in Nat
    BY <1>2 DEF ShareCreate, VisitIs, RequestsOK, VisitOK, Carrying
  <2>2. RequestsOK'
    BY <1>2, EndedIs, Moves DEF ShareCreate, Ends
  <2>3. Keeping /\ UNCHANGED <<expiry, now, undo, ended, raced>>
    BY <1>2 DEF ShareCreate
  <2>4. CASE u \notin HasRow \/ u \in Linked
    <3>1. UNCHANGED table /\ given' \subseteq given \union Tokens
      BY <1>2, <2>4 DEF ShareCreate, Tokens
    <3>2. UNCHANGED <<links, used, marks>>
      BY <3>1 DEF table
    <3>. QED  BY <2>2, <2>3, <3>1, <3>2, MarkingKeeps DEF RefersOK
  <2>5. CASE u \in HasRow \ Linked
    <3>1. Insert1(u, New(x)) /\ UNCHANGED marks /\ given' = given \union {used + 1}
      BY <1>2, <2>5 DEF ShareCreate
    <3>2. used \in Nat /\ now \in Nat
      BY ArchiveAssumption DEF ArchiveAssumption, LinksOK
    <3>3. New(x) \in Link /\ New(x).token = used + 1
      BY <1>0, <2>1, <3>2 DEF New, Link
    <3>4. New(x) # NoLink /\ New(x).token \in 0..used + 1
      BY <3>2, <3>3, NoLinkIs
    <3>5. UndoOK'
      BY <2>3, <3>1, UndoStays DEF Insert1
    <3>6. LinksOK' /\ TokensOK' /\ RefersOK' /\ KeptOK'
      BY <2>3, <2>5, <3>1, <3>3, <3>4, <3>5, MakingKeeps
    <3>. QED  BY <2>2, <3>6
  <2>. QED  BY <2>4, <2>5
<1>3. CASE UnshareCheck(x)
  <2>1. PICK u \in Linked : Goes(x, [Ended EXCEPT !.pc = "delete", !.of = u, !.id = links[u].id])
    BY <1>3 DEF UnshareCheck
  <2>2. RequestsOK'
    BY <1>3, <2>1, EndedIs, Moves DEF UnshareCheck, Linked
  <2>3. UNCHANGED <<vars, table, undo, ended, raced, late, given, now, expiry>>
    BY <1>3 DEF UnshareCheck, ghost
  <2>4. now' \in Nat /\ expiry' \in Nat
    BY <2>3 DEF LinksOK
  <2>. QED  BY <2>2, <2>3, <2>4, LookingKeeps
<1>4. CASE UnshareDelete(x)
  <2>. DEFINE u == visit[x].of
  <2>1. u \in Uploads
    BY <1>4 DEF UnshareDelete, VisitIs, RequestsOK, VisitOK, Carrying
  <2>2. RequestsOK'
    BY <1>4, EndedIs, Moves DEF UnshareDelete, Ends
  <2>3. /\ links' = [links EXCEPT ![u] = NoLink] /\ Keeping
        /\ \/ ended' = ended \union {links[u].token} /\ raced' = raced
           \/ raced' = raced \union {links[u].token} /\ ended' = ended
        /\ UNCHANGED <<used, marks, expiry, now, given, undo>>
    BY <1>4 DEF UnshareDelete
  <2>4. UndoOK'
    BY <2>3, UndoStays
  <2>. QED  BY <2>1, <2>2, <2>3, <2>4, TakingKeeps
<1>. QED  BY <1>1, <1>2, <1>3, <1>4 DEF Sharing

LEMMA MarksKeep ==
  ASSUME Referring, NEW x \in Visitors, Marking(x)
  PROVE  Referring'
<1>. USE DEF Referring
<1>0. By[x] \in Users
  BY ArchiveAssumption DEF ArchiveAssumption
<1>1. CASE ToggleRead(x)
  <2>1. PICK u \in HasRow :
          Goes(x, [Ended EXCEPT !.of = u,
                     !.pc = IF <<By[x], u>> \in marks THEN "unmark" ELSE "mark"])
    BY <1>1 DEF ToggleRead
  <2>2. RequestsOK'
    BY <1>1, <2>1, EndedIs, Moves DEF ToggleRead, HasRow
  <2>3. UNCHANGED <<vars, table, undo, ended, raced, late, given, now, expiry>>
    BY <1>1 DEF ToggleRead, ghost
  <2>4. now' \in Nat /\ expiry' \in Nat
    BY <2>3 DEF LinksOK
  <2>. QED  BY <2>2, <2>3, <2>4, LookingKeeps
<1>2. CASE ToggleWrite(x)
  <2>. DEFINE u == visit[x].of
  <2>1. u \in Uploads
    BY <1>2 DEF ToggleWrite, VisitIs, RequestsOK, VisitOK, Carrying
  <2>2. RequestsOK'
    BY <1>2, EndedIs, Moves DEF ToggleWrite, Ends
  <2>3. \A p \in marks' : p \in marks \/ (p = <<By[x], u>> /\ u \in HasRow)
    BY <1>2 DEF ToggleWrite
  <2>4. marks' \subseteq (Users \union {Other}) \X Uploads
    BY <1>0, <2>1, <2>3 DEF RefersOK
  <2>5. Keeping /\ UNCHANGED <<links, used, expiry, now, undo, ended, raced, given>>
    BY <1>2 DEF ToggleWrite
  <2>. QED  BY <2>2, <2>3, <2>4, <2>5, MarkingKeeps
<1>. QED  BY <1>1, <1>2 DEF Marking

LEMMA OthersKeep ==
  ASSUME Referring, NEW u \in Uploads, Others(u)
  PROVE  Referring'
<1>. USE DEF Referring
<1>1. RequestsOK'
  BY DEF Others, RequestsOK
<1>2. \A p \in marks' : p \in marks \/ (p = <<Other, u>> /\ u \in HasRow)
  BY DEF Others
<1>3. marks' \subseteq (Users \union {Other}) \X Uploads
  BY <1>2 DEF RefersOK
<1>4. Keeping /\ UNCHANGED <<links, used, expiry, now, undo, ended, raced, given>>
  BY DEF Others
<1>. QED  BY <1>1, <1>2, <1>3, <1>4, MarkingKeeps

LEMMA SearchKeeps ==
  ASSUME Referring, NEW x \in Visitors, Search(x)
  PROVE  Referring'
<1>. USE DEF Referring
<1>1. "pc" \in DOMAIN visit[x]
  BY DEF RequestsOK, VisitOK
<1>2. PICK r : /\ Goes(x, r) /\ "pc" \in DOMAIN r /\ r.pc \in {"list", "turn", "done"}
               /\ UNCHANGED <<vars, table, sweep, undo, ghost, now, expiry>>
  <2>1. CASE SearchCount(x)
    BY <1>1, <2>1 DEF SearchCount
  <2>2. CASE SearchList(x)
    BY <1>1, <2>2 DEF SearchList, Page
  <2>. QED  BY <2>1, <2>2 DEF Search
<1>3. VisitOK(r)
  BY <1>2 DEF VisitOK, Carrying
<1>4. RequestsOK'
  BY <1>2, <1>3, Moves
<1>5. UNCHANGED <<vars, table, undo, ended, raced, late, given, now, expiry>>
  BY <1>2 DEF ghost
<1>6. now' \in Nat /\ expiry' \in Nat
  BY <1>5 DEF LinksOK
<1>. QED  BY <1>4, <1>5, <1>6, LookingKeeps

LEMMA LinksKeep ==
  ASSUME Referring, Links
  PROVE  Referring'
<1>. USE DEF Referring
<1>1. ASSUME NEW u \in Uploads, RevokeLink(u) PROVE Referring'
  <2>1. /\ links' = [links EXCEPT ![u] = NoLink] /\ Keeping
        /\ ended' = ended \union {links[u].token} /\ undo' = [of |-> u, link |-> links[u]]
        /\ UNCHANGED <<used, marks, expiry, now, given, raced, visit, sweep>>
    BY <1>1 DEF RevokeLink
  <2>2. UndoOK'
    BY <2>1 DEF UndoOK, LinksOK
  <2>3. RequestsOK'
    BY <2>1 DEF RequestsOK
  <2>. QED  BY <2>1, <2>2, <2>3, TakingKeeps
<1>2. CASE RestoreLink
  <2>. DEFINE u == undo.of
              t == undo.link.token
  <2>1. /\ u \in Uploads /\ undo.link \in Link /\ t \in 0..used
        /\ undo' = NoUndo /\ Keeping /\ UNCHANGED <<expiry, now, given, visit, sweep>>
    BY <1>2 DEF RestoreLink, LinksOK, UndoOK
  <2>2. UndoOK' /\ RequestsOK'
    BY <2>1 DEF UndoOK, RequestsOK
  <2>3. CASE u \in HasRow \ Linked
    <3>. DEFINE k == [undo.link EXCEPT !.id = used + 1]
    <3>1. used \in Nat
      BY ArchiveAssumption DEF ArchiveAssumption, LinksOK
    <3>2. k \in Link /\ k.id = used + 1 /\ k.token = t
      BY <2>1, <3>1 DEF Link
    <3>3. /\ Insert1(u, k) /\ ended' = ended \ {t} /\ raced' = raced \ {t} /\ UNCHANGED marks
      BY <1>2, <2>3 DEF RestoreLink
    <3>. HIDE DEF k
    <3>4. k # NoLink /\ k.token \in 0..used + 1
      BY <2>1, <3>1, <3>2, NoLinkIs
    <3>5. LinksOK' /\ TokensOK' /\ RefersOK' /\ KeptOK'
      BY <2>1, <2>2, <2>3, <3>2, <3>3, <3>4, MakingKeeps
    <3>. QED  BY <2>2, <3>5
  <2>4. CASE u \notin HasRow \ Linked
    <3>1. UNCHANGED <<links, used, marks, ended, raced>>
      BY <1>2, <2>4 DEF RestoreLink, table
    <3>2. LinksOK'
      BY <2>1, <2>2, <3>1 DEF LinksOK
    <3>3. TokensOK'
      BY <2>1, <3>1 DEF TokensOK, Tokens, Linked
    <3>4. RefersOK'
      BY <2>1, <3>1 DEF RefersOK, Keeping, stored, HasRow
    <3>. QED  BY <2>1, <2>2, <3>2, <3>3, <3>4, KeepingKept
  <2>. QED  BY <2>3, <2>4
<1>3. CASE SweepList
  <2>1. RequestsOK'
    <3>1. visit' = visit /\ \A k \in sweep' : k.of \in Uploads
      BY <1>3 DEF SweepList, Linked
    <3>. QED  BY <3>1 DEF RequestsOK
  <2>2. UNCHANGED <<vars, table, undo, ended, raced, late, given, now, expiry>>
    BY <1>3 DEF SweepList, ghost
  <2>3. now' \in Nat /\ expiry' \in Nat
    BY <2>2 DEF LinksOK
  <2>. QED  BY <2>1, <2>2, <2>3, LookingKeeps
<1>4. CASE SweepDelete
  <2>1. RequestsOK'
    BY <1>4 DEF SweepDelete, RequestsOK
  <2>2. ASSUME NEW k \in sweep,
               /\ IF links[k.of].id = k.id
                    THEN /\ links' = [links EXCEPT ![k.of] = NoLink]
                         /\ ended' = ended \union {links[k.of].token}
                    ELSE UNCHANGED <<links, ended>>
               /\ UNCHANGED <<used, marks, restricted, expiry, now, visit, undo, load, given, raced>>
               /\ Keeping
        PROVE  Referring'
    <3>1. k.of \in Uploads
      BY DEF RequestsOK
    <3>2. UndoOK'
      BY <2>2, UndoStays
    <3>3. CASE links[k.of].id = k.id
      BY <2>1, <2>2, <3>1, <3>2, <3>3, TakingKeeps
    <3>4. CASE links[k.of].id # k.id
      BY <2>1, <2>2, <3>4, MarkingKeeps DEF RefersOK
    <3>. QED  BY <3>3, <3>4
  <2>3. ASSUME UNCHANGED <<vars, table, restricted, expiry, now, visit, undo, load, ghost>>
        PROVE  Referring'
    <3>1. UNCHANGED <<vars, table, undo, ended, raced, late, given, now, expiry>>
      BY <2>3 DEF ghost
    <3>2. now' \in Nat /\ expiry' \in Nat
      BY <3>1 DEF LinksOK
    <3>. QED  BY <2>1, <3>1, <3>2, LookingKeeps
  <2>. QED  BY <1>4, <2>2, <2>3 DEF SweepDelete
<1>. QED  BY <1>1, <1>2, <1>3, <1>4 DEF Links

LEMMA SettingsKeep ==
  ASSUME Referring, SetExpiry \/ Tick \/ \E w \in Users : SetGrants(w)
  PROVE  Referring'
<1>. USE DEF Referring
<1>1. now' \in Nat /\ expiry' \in Nat
  BY ArchiveAssumption DEF ArchiveAssumption, SetExpiry, Tick, SetGrants, LinksOK
<1>2. UNCHANGED <<vars, table, visit, sweep, undo, ended, raced, late, given>>
  BY DEF SetExpiry, Tick, SetGrants, ghost
<1>3. RequestsOK'
  BY <1>2 DEF RequestsOK
<1>. QED  BY <1>1, <1>2, <1>3, LookingKeeps

-----------------------------------------------------------------------------
(* Ingest's steps, and what goes with the rows they take.                  *)

\* A step keeps every call somebody kept but for those it takes the row of,
\* which goes for a prune of what it had listed, or with the whole system.
Spares ==
  /\ kept' = {u \in kept : rows'[u] # NoRow}
  /\ \A i \in DOMAIN pruner'.batch :
       pruner'.batch[i].of \in kept =>
         \E k \in DOMAIN pruner.batch : pruner.batch[k].of = pruner'.batch[i].of
  /\ \A u \in kept \ late : rows'[u] # NoRow \/ SystemGoes

LEMMA Spared ==
  ASSUME kept \subseteq HasRow, kept' = kept, pruner'.batch = pruner.batch,
         \A u \in HasRow : rows'[u] # NoRow
  PROVE  Spares
BY DEF Spares

LEMMA HandlersSpare ==
  ASSUME IngestType, Audio, kept \subseteq HasRow, NEW u \in Uploads, Begin(u) \/ Handle(u) \/ GiveUp(u)
  PROVE  Spares
<1>1. CASE Insert(u)
  <2>1. u \notin HasRow
    BY <1>1, Quiet DEF Insert, At
  <2>2. \A v \in HasRow : rows'[v] = rows[v]
    BY <1>1, <2>1 DEF Insert, HasRow, IngestType, RowsType
  <2>3. kept' = kept /\ pruner' = pruner
    BY <1>1 DEF Insert
  <2>. QED  BY <2>2, <2>3, Spared DEF HasRow
<1>2. CASE ~Insert(u)
  <2>1. UNCHANGED <<rows, kept, pruner>>
    BY <1>2 DEF Begin, GiveUp, Handle, CreateSystem, ReadTalkgroup, CreateTalkgroup,
                CheckDuplicate, Store, Submit, Ask, Converted
  <2>. QED  BY <2>1, Spared DEF HasRow
<1>. QED  BY <1>1, <1>2

LEMMA WorkSpares ==
  ASSUME kept \subseteq HasRow, Work
  PROVE  Spares
<1>1. UNCHANGED <<rows, kept, pruner>>
  BY DEF Work, JobStart, JobEnd, Finish
<1>. QED  BY <1>1, Spared DEF HasRow

LEMMA PruneSpares ==
  ASSUME IngestType, Audio, kept \subseteq HasRow, KeptOK, Prune
  PROVE  Spares
<1>. DEFINE b == pruner.batch
<1>0. b \in Seq(Entry) /\ rows \in [Uploads -> Row] /\ DOMAIN b = 1..Len(b)
  BY DEF IngestType, PrunerType, RowsType
<1>1. CASE PruneQuery
  <2>1. UNCHANGED <<rows, kept>>
    BY <1>1 DEF PruneQuery
  <2>2. \A i \in DOMAIN pruner'.batch : pruner'.batch[i].of \notin kept
    BY <1>1 DEF PruneQuery, Prunable
  <2>. QED  BY <2>1, <2>2 DEF Spares, HasRow
<1>2. CASE PruneFile
  <2>1. UNCHANGED <<rows, kept>> /\ pruner'.batch = pruner.batch
    BY <1>2 DEF PruneFile, IngestType, PrunerType
  <2>. QED  BY <2>1, Spared DEF HasRow
<1>3. CASE PruneRow
  <2>1. b # <<>>
    BY <1>3 DEF PruneRow, IngestType, PrunerType
  <2>2. Len(b) \in Nat \ {0} /\ 1 \in DOMAIN b /\ Victim = b[1]
    BY <1>0, <2>1 DEF Victim
  <2>3. \A i \in DOMAIN pruner'.batch : \E k \in DOMAIN b : b[k] = pruner'.batch[i]
    <3>1. CASE Len(b) = 1
      <4>1. pruner'.batch = <<>>
        BY <1>3, <3>1 DEF PruneRow, Idle
      <4>. QED  BY <4>1
    <3>2. CASE Len(b) # 1
      <4>1. pruner'.batch = Tail(b)
        BY <1>3, <3>2 DEF PruneRow
      <4>2. DOMAIN Tail(b) = 1..Len(b) - 1 /\ \A i \in 1..Len(b) - 1 : Tail(b)[i] = b[i + 1]
        BY <1>0, <2>1
      <4>3. \A i \in 1..Len(b) - 1 : i + 1 \in DOMAIN b
        BY <1>0, <2>2
      <4>. QED  BY <4>1, <4>2, <4>3
    <3>. QED  BY <3>1, <3>2
  <2>4. CASE rows' = [rows EXCEPT ![Victim.of] = NoRow] /\ kept' = kept \ {Victim.of}
    <3>1. \A u \in Uploads : rows'[u] = IF u = Victim.of THEN NoRow ELSE rows[u]
      BY <1>0, <2>4
    <3>2. Victim.of \in kept => Victim.of \in late
      BY <2>2 DEF KeptOK
    <3>3. kept \subseteq Uploads /\ \A u \in kept : rows[u] # NoRow
      BY DEF HasRow
    <3>. QED  BY <2>3, <2>4, <3>1, <3>2, <3>3 DEF Spares
  <2>5. CASE UNCHANGED <<rows, kept>>
    BY <2>3, <2>5 DEF Spares, HasRow
  <2>. QED  BY <1>3, <2>4, <2>5 DEF PruneRow
<1>. QED  BY <1>1, <1>2, <1>3 DEF Prune

LEMMA AdminsSpare ==
  ASSUME IngestType, Audio, kept \subseteq HasRow, DeleteSystem \/ DeleteTalkgroup \/ Restart
  PROVE  Spares
<1>1. CASE DeleteSystem
  <2>1. kept' = {} /\ pruner' = pruner /\ SystemGoes /\ \A u \in Uploads : rows'[u] = NoRow
    BY <1>1 DEF DeleteSystem, SystemGoes, IngestType, IdsType
  <2>. QED  BY <2>1 DEF Spares, HasRow
<1>2. CASE DeleteTalkgroup
  <2>1. kept' = kept /\ pruner' = pruner
    BY <1>2 DEF DeleteTalkgroup
  <2>2. \A u \in HasRow : rows'[u] # NoRow
    BY <1>2, DeleteTalkgroupKeeps DEF HasRow
  <2>. QED  BY <2>1, <2>2, Spared
<1>3. CASE Restart
  <2>1. UNCHANGED <<rows, kept>> /\ pruner'.batch = <<>>
    BY <1>3 DEF Restart, Idle
  <2>2. DOMAIN <<>> = {}
    OBVIOUS
  <2>. QED  BY <2>1, <2>2 DEF Spares, HasRow
<1>. QED  BY <1>1, <1>2, <1>3

LEMMA CascadeKeeps ==
  ASSUME IngestType, IngestType', LinksOK, TokensOK, RefersOK, KeptOK, Spares, Cascade
  PROVE  LinksOK' /\ TokensOK' /\ RefersOK' /\ KeptOK'
<1>1. /\ links' = [u \in Uploads |-> IF rows'[u] = NoRow THEN NoLink ELSE links[u]]
      /\ marks' = {p \in marks : rows'[p[2]] # NoRow}
      /\ ended' = ended \union {links[u].token : u \in {v \in Linked : rows'[v] = NoRow}}
      /\ late' = late \intersect kept'
      /\ UNCHANGED <<used, expiry, now, undo, given, raced>>
  BY DEF Cascade
<1>2. \A u \in Uploads : links'[u] = IF rows'[u] = NoRow THEN NoLink ELSE links[u]
  BY <1>1
<1>3. links' \in [Uploads -> Link] /\ \A u \in Uploads : links'[u].token \in 0..used'
  <2>1. links' \in [Uploads -> Link]
    BY <1>1, NoLinkIs DEF LinksOK
  <2>2. used \in Nat /\ 0 \in 0..used
    BY ArchiveAssumption DEF ArchiveAssumption, LinksOK
  <2>3. \A u \in Uploads : links'[u].token \in 0..used
    BY <1>2, <2>2, NoLinkIs DEF LinksOK
  <2>. QED  BY <1>1, <2>1, <2>3
<1>4. LinksOK'
  BY <1>1, <1>3 DEF LinksOK, UndoOK
<1>5. Linked' = {u \in Linked : rows'[u] # NoRow}
  BY <1>2 DEF Linked
<1>6. TokensOK'
  <2>1. {links[u].token : u \in Linked} \subseteq 0..used
    BY DEF LinksOK, Linked
  <2>2. (given \union ended \union raced \subseteq 0..used)'
    BY <1>1, <2>1 DEF TokensOK
  <2>3. \A t \in Tokens : t \in Tokens' \/ t \in ended'
    <3>. SUFFICES ASSUME NEW u \in Linked PROVE links[u].token \in Tokens' \/ links[u].token \in ended'
      BY DEF Tokens
    <3>1. CASE rows'[u] = NoRow
      BY <1>1, <3>1
    <3>2. CASE rows'[u] # NoRow
      <4>1. u \in Linked' /\ links'[u] = links[u]
        BY <1>2, <1>5, <3>2 DEF Linked
      <4>. QED  BY <4>1 DEF Tokens
    <3>. QED  BY <3>1, <3>2
  <2>. QED  BY <1>1, <2>2, <2>3 DEF TokensOK
<1>7. Keepers(links, marks)' = {u \in Keepers(links, marks) : rows'[u] # NoRow}
  <2>1. \A u \in Uploads : links'[u] # NoLink <=> (links[u] # NoLink /\ rows'[u] # NoRow)
    BY <1>2
  <2>. QED  BY <1>1, <2>1 DEF Keepers
<1>8. RefersOK'
  <2>1. marks' \subseteq (Users \union {Other}) \X Uploads
    BY <1>1 DEF RefersOK
  <2>2. Keepers(links, marks)' \subseteq HasRow'
    BY <1>7 DEF RefersOK, HasRow
  <2>. QED  BY <2>1, <2>2 DEF RefersOK
<1>9. KeptOK'
  <2>1. kept' = Keepers(links, marks)' /\ kept' \subseteq kept
    BY <1>7 DEF Spares, KeptOK
  <2>2. late' \subseteq kept'
    BY <1>1
  <2>3. \A i \in DOMAIN pruner'.batch : pruner'.batch[i].of \in kept' => pruner'.batch[i].of \in late'
    BY <1>1, <2>1 DEF Spares, KeptOK
  <2>. QED  BY <2>1, <2>2, <2>3 DEF KeptOK
<1>. QED  BY <1>4, <1>6, <1>8, <1>9

LEMMA ReferringStep ==
  ASSUME IngestType, Audio, Referring, [ANext]_avars
  PROVE  Referring' /\ \A u \in kept \ late : rows'[u] # NoRow \/ SystemGoes
<1>. USE DEF Referring
<1>0. IngestType' /\ kept \subseteq HasRow
  BY AudioStep DEF RefersOK, KeptOK
<1>1. ASSUME Spares, Cascade, RequestsOK'
      PROVE  Referring' /\ \A u \in kept \ late : rows'[u] # NoRow \/ SystemGoes
  BY <1>0, <1>1, CascadeKeeps DEF Spares
<1>2. ASSUME UNCHANGED <<visit, sweep>> PROVE RequestsOK'
  BY <1>2 DEF RequestsOK
<1>3. ASSUME NEW u \in Uploads, Beside(Begin(u)) \/ Beside(Handle(u)) \/ Beside(GiveUp(u))
      PROVE  Spares /\ Cascade /\ RequestsOK'
  BY <1>0, <1>2, <1>3, HandlersSpare DEF Beside
<1>4. CASE Beside(Work) \/ Beside(Prune) \/ Beside(DeleteSystem) \/ Beside(DeleteTalkgroup)
  <2>1. Spares /\ Cascade /\ RequestsOK'
    BY <1>0, <1>2, <1>4, WorkSpares, PruneSpares, AdminsSpare DEF Beside
  <2>. QED  BY <1>1, <2>1
<1>5. CASE ARestart
  <2>1. RequestsOK'
    <3>1. sweep' = {} /\ DOMAIN visit' = Visitors
      BY <1>5 DEF ARestart
    <3>2. \A x \in Visitors : VisitOK(visit'[x])
      BY <1>5, EndedIs DEF ARestart, RequestsOK
    <3>. QED  BY <3>1, <3>2 DEF RequestsOK
  <2>2. Spares /\ Cascade
    BY <1>0, <1>5, AdminsSpare DEF ARestart
  <2>. QED  BY <1>1, <2>1, <2>2
<1>6. ASSUME UNCHANGED stored
      PROVE  \A u \in kept \ late : rows'[u] # NoRow \/ SystemGoes
  BY <1>0, <1>6 DEF stored, HasRow
<1>7. ASSUME NEW u \in Uploads, Others(u)
      PROVE  Referring' /\ UNCHANGED stored
  BY <1>7, OthersKeep DEF Others, Keeping
<1>8. ASSUME NEW x \in Visitors, Sharing(x) \/ Marking(x) \/ Search(x)
      PROVE  Referring'
  BY <1>8, SharingKeeps, MarksKeep, SearchKeeps
<1>9. ASSUME NEW x \in Visitors, Sharing(x) \/ Marking(x) \/ Search(x)
      PROVE  UNCHANGED stored
  <2>1. ASSUME ShareCheck(x) \/ UnshareCheck(x) \/ ToggleRead(x) \/ SearchCount(x) \/ SearchList(x)
        PROVE  UNCHANGED stored
    BY <2>1 DEF ShareCheck, UnshareCheck, ToggleRead, SearchCount, SearchList, Page, vars, stored
  <2>2. ASSUME ShareCreate(x) \/ UnshareDelete(x) \/ ToggleWrite(x)
        PROVE  UNCHANGED stored
    BY <2>2 DEF ShareCreate, UnshareDelete, ToggleWrite, Keeping
  <2>. QED  BY <1>9, <2>1, <2>2 DEF Sharing, Marking, Search
<1>10. CASE Links
  <2>1. UNCHANGED stored
    BY <1>10 DEF Links, RevokeLink, RestoreLink, SweepList, SweepDelete, Keeping, vars, stored
  <2>. QED  BY <1>6, <1>10, <2>1, LinksKeep
<1>11. CASE SetExpiry \/ Tick \/ \E w \in Users : SetGrants(w)
  <2>1. UNCHANGED stored
    BY <1>11 DEF SetExpiry, Tick, SetGrants, vars, stored
  <2>. QED  BY <1>6, <1>11, <2>1, SettingsKeep
<1>12. CASE UNCHANGED avars
  <2>1. /\ UNCHANGED <<vars, table, undo, ended, raced, late, given, now, expiry, visit, sweep>>
        /\ UNCHANGED stored
    BY <1>12 DEF avars, ghost, vars, stored
  <2>2. now' \in Nat /\ expiry' \in Nat
    BY <2>1 DEF LinksOK
  <2>3. LinksOK' /\ TokensOK' /\ RefersOK' /\ KeptOK'
    BY <2>1, <2>2, LookingKeeps
  <2>. QED  BY <1>2, <1>6, <2>1, <2>3
<1>. QED  BY <1>1, <1>3, <1>4, <1>5, <1>6, <1>7, <1>8, <1>9, <1>10, <1>11, <1>12 DEF ANext

LEMMA ReferringAtFirst ==
  ASSUME AInit
  PROVE  Referring
<1>. DEFINE k == [NoLink EXCEPT !.id = 1, !.token = 1, !.by = load.by]
<1>1. /\ load \in Loads /\ call = load.calls
      /\ links = [u \in Uploads |-> IF u = load.shared THEN k ELSE NoLink]
      /\ used = Cardinality(Linked) /\ marks = {} /\ expiry = 0 /\ now = 0
      /\ visit = [x \in Visitors |-> [Ended EXCEPT !.pc = "new"]]
      /\ sweep = {} /\ undo = NoUndo /\ given = {links[u].token : u \in Linked}
      /\ ended = {} /\ raced = {} /\ late = {}
  BY DEF AInit
<1>2. /\ load.by \in Users /\ load.shared \in Uploads \union {None} /\ MaxLinks \in Nat
      /\ (load.shared # None => load.plans # {} /\ MaxLinks > 0)
  BY <1>1, ArchiveAssumption DEF ArchiveAssumption
<1>3. k \in Link /\ k.token = 1 /\ k.id = 1
  BY <1>2 DEF NoLink, Link
<1>. HIDE DEF k
<1>4. k # NoLink
  BY <1>3, NoLinkIs
<1>5. None \notin Uploads
  BY IngestAssumption DEF IngestAssumption
<1>6. Linked = IF load.shared = None THEN {} ELSE {load.shared}
  BY <1>1, <1>2, <1>4, <1>5 DEF Linked
<1>7. used = IF load.shared = None THEN 0 ELSE 1
  <2>1. Cardinality({}) = 0 /\ \A e : Cardinality({e}) = 1
    BY FS_EmptySet, FS_Singleton
  <2>. QED  BY <1>1, <1>6, <2>1
<1>8. LinksOK
  <2>1. used \in 0..MaxLinks /\ links \in [Uploads -> Link]
    BY <1>1, <1>2, <1>3, <1>7, NoLinkIs
  <2>2. \A u \in Uploads : links[u].token \in 0..used
    BY <1>1, <1>3, <1>5, <1>7, NoLinkIs
  <2>. QED  BY <1>1, <2>1, <2>2 DEF LinksOK, UndoOK
<1>9. RequestsOK
  <2>1. VisitOK([Ended EXCEPT !.pc = "new"])
    BY DEF VisitOK, Ended, Carrying
  <2>. QED  BY <1>1, <2>1 DEF RequestsOK
<1>10. TokensOK
  <2>1. given = Tokens /\ Tokens \subseteq 0..used
    BY <1>1, <1>8 DEF Tokens, LinksOK, Linked
  <2>. QED  BY <1>1, <2>1 DEF TokensOK
<1>11. Keepers(links, marks) = Linked
  BY <1>1 DEF Keepers, Linked
<1>12. CASE load.plans = {}
  <2>1. Init
    BY <1>1, <1>12 DEF AInit
  <2>2. kept = {} /\ pruner.batch = <<>> /\ Linked = {}
    BY <1>2, <1>6, <1>12, <2>1 DEF Init, Idle
  <2>3. DOMAIN pruner.batch = {}
    BY <2>2
  <2>. QED  BY <1>1, <1>8, <1>9, <1>10, <1>11, <2>2, <2>3 DEF RefersOK, KeptOK, Referring
<1>13. CASE load.plans # {}
  <2>1. Stock(load)
    BY <1>1, <1>13 DEF AInit
  <2>2. HasRow = Uploads
    BY <1>1, <2>1, StockInit
  <2>3. kept = Linked /\ pruner.batch = <<>>
    BY <2>1 DEF Stock, Idle
  <2>4. DOMAIN pruner.batch = {}
    BY <2>3
  <2>5. Linked \subseteq Uploads
    BY DEF Linked
  <2>. QED  BY <1>1, <1>8, <1>9, <1>10, <1>11, <2>2, <2>3, <2>4, <2>5 DEF RefersOK, KeptOK, Referring
<1>. QED  BY <1>12, <1>13

\* And links, bookmarks and the requests at work refer to calls there are.
THEOREM ReferringAlways == ASpec => [](IngestType /\ Audio /\ Referring)
<1>1. AInit => Referring
  BY ReferringAtFirst
<1>2. IngestType /\ Audio /\ Referring /\ [ANext]_avars => Referring'
  BY ReferringStep
<1>. QED  BY <1>1, <1>2, AudioAlways, PTL DEF ASpec

\* A token a user was told is still that of its call's link, unless somebody
\* ended that link, the call is gone, or an unshare that had read an earlier
\* link took it: PostShareCall, DeleteShareCall, the admin's revoking, undo
\* and sweep, and the pruner, in any order.
THEOREM TokensAlwaysStand == ASpec => []TokensStand
<1>1. Referring => TokensStand
  BY DEF Referring, LinksOK, TokensOK, RefersOK, KeptOK, TokensStand, ATypeOK, Tokens
<1>. QED  BY <1>1, ReferringAlways, PTL

\* The pruner deletes no call that was bookmarked or shared before it listed
\* the call (pruneOldCalls, DeleteCallBatch).
THEOREM KeptCallsAlwaysStay == ASpec => KeptCallsStay
<1>1. IngestType /\ Audio /\ Referring /\ [ANext]_avars =>
        [\A u \in kept \ late : rows'[u] # NoRow \/ SystemGoes]_avars
  BY ReferringStep
<1>. QED  BY <1>1, ReferringAlways, PTL DEF ASpec, KeptCallsStay

\* The recording of every call in the database is there and is its own, but
\* for the two exceptions the property states: Store, createUniqueFile, the
\* conversion pool and the pruner, whatever fails, is given up or restarts.
THEOREM RowsAlwaysHaveTheirAudio == ASpec => []RowsHaveTheirAudio
<1>1. IngestType /\ Audio /\ Referring => TypeOK
  <2>. SUFFICES ASSUME IngestType, Audio, Referring PROVE TypeOK
    OBVIOUS
  <2>1. \A u \in Uploads : upload[u].path \in Paths \union {NoPath}
    BY UploadNames, Kinds DEF IngestType, Name
  <2>2. ids.sys \in 0..MaxIds /\ ids.tg \in 0..MaxIds
    BY DEF IngestType, IdsType, Id
  <2>3. (\A u \in HasRow : rows[u].path \in Paths) /\ DOMAIN files \subseteq Paths
    BY Kinds DEF IngestType, RowsType, FilesType
  <2>4. kept \subseteq HasRow
    BY DEF Referring, KeptOK, RefersOK
  <2>. QED  BY <2>1, <2>2, <2>3, <2>4 DEF TypeOK, IngestType, JobsType, CountType
<1>2. IngestType /\ Audio /\ Referring => RowsHaveTheirAudio
  <2>. SUFFICES ASSUME IngestType, Audio, Referring PROVE RowsHaveTheirAudio
    OBVIOUS
  <2>1. ASSUME NEW u \in HasRow
        PROVE  \/ {rows[u].path, upload[u].in} \intersect reclaimed # {}
               \/ pruner.pc = "delete" /\ Victim.of = u
               \/ \E v \in Uploads : upload[v].left /\ upload[v].out \in {rows[u].path, upload[u].out}
               \/ Exists(rows[u].path) /\ files[rows[u].path] = u
    <3>1. u \in Uploads /\ rows[u].path = upload[u].path
      BY DEF HasRow, Audio, RowsOK
    <3>2. CASE Gone(u)
      BY <3>2 DEF Gone
    <3>3. CASE ~Gone(u) /\ Intact(u, upload[u].path)
      BY <3>1, <3>3 DEF Intact
    <3>4. CASE ~Gone(u) /\ Spoiled(u)
      <4>1. /\ upload[u].in \in Wavs \union M4as /\ (upload[u].out \in M4as => rows[u].path = upload[u].out)
            /\ upload[u].in \in M4as => rows[u].path = upload[u].in
        BY <3>1, Kinds DEF Audio, NamesOK
      <4>2. CASE upload[u].in \in reclaimed \/ upload[u].out \in reclaimed
        <5>1. upload[u].out \in reclaimed => upload[u].out \in M4as
          BY <3>1, Kinds DEF IngestType, PrunerType, Audio, NamesOK
        <5>. QED  BY <4>1, <4>2, <5>1
      <4>3. CASE \E v \in Uploads : upload[v].left /\ upload[v].out \in {upload[u].in, upload[u].out}
        <5>1. PICK v \in Uploads : upload[v].left /\ upload[v].out \in {upload[u].in, upload[u].out}
          BY <4>3
        <5>2. upload[v].out \in M4as \union Tmps
          BY <5>1 DEF Audio, NamesOK
        <5>3. upload[v].out = upload[u].in => upload[v].out = rows[u].path
          BY <4>1, <5>2, Kinds
        <5>. QED  BY <5>1, <5>3
      <4>. QED  BY <3>4, <4>2, <4>3 DEF Spoiled, Bad
    <3>5. Gone(u) \/ Holds(u)
      BY DEF Holds
    <3>. QED  BY <3>1, <3>2, <3>3, <3>4, <3>5 DEF Audio, StoredIsOwn
  <2>. QED  BY <1>1, <2>1 DEF RowsHaveTheirAudio
<1>. QED  BY <1>2, ReferringAlways, PTL

-----------------------------------------------------------------------------
(* The inductive invariant about duplicates.                               *)

\* What an upload found when it was checked is not near it.
SeenAreFar ==
  \A u \in Uploads :
    upload[u].pc # "ended" \/ u \in HasRow =>
      \A v \in upload[u].seen : ~Near(call[u].time, call[v].time)

\* But for its check, a handler leaves what it saw alone.
LEMMA HandlersRemember ==
  ASSUME UploadType, IdsType, NEW u \in Uploads, Begin(u) \/ Handle(u) \/ GiveUp(u), ~CheckDuplicate(u)
  PROVE  \E r : Go(u, r) /\ r.seen = upload[u].seen
<1>. DEFINE h == upload[u]
<1>0. h \in Handler /\ "seen" \in DOMAIN h /\ DOMAIN h = DOMAIN Fresh
  BY DEF UploadType, Handler, Fresh
<1>1. CASE Begin(u)
  <2>. DEFINE r(pc) == [h EXCEPT !.pc = pc, !.sys = ids.sys]
  <2>1. PICK pc : Go(u, r(pc))
    BY <1>1 DEF Begin
  <2>2. r(pc).seen = h.seen
    BY <1>0 DEF Handler
  <2>. QED  BY <2>1, <2>2
<1>2. ASSUME NEW pc, To(u, pc) PROVE \E r : Go(u, r) /\ r.seen = h.seen
  <2>1. [h EXCEPT !.pc = pc].seen = h.seen
    BY <1>0 DEF Handler
  <2>. QED  BY <1>2, <2>1 DEF To
<1>3. CASE CreateSystem(u)
  <2>1. CASE To(u, "ended")
    BY <1>2, <2>1
  <2>2. CASE Go(u, [h EXCEPT !.pc = "talkgroup", !.sys = ids'.sys])
    <3>1. [h EXCEPT !.pc = "talkgroup", !.sys = ids'.sys].seen = h.seen
      BY <1>0 DEF Handler
    <3>. QED  BY <2>2, <3>1
  <2>. QED  BY <1>3, <2>1, <2>2 DEF CreateSystem
<1>4. CASE ReadTalkgroup(u)
  <2>. DEFINE r(pc, t) == [h EXCEPT !.pc = pc, !.tg = t]
  <2>1. PICK pc, t : Go(u, r(pc, t))
    BY <1>4 DEF ReadTalkgroup
  <2>2. r(pc, t).seen = h.seen
    BY <1>0 DEF Handler
  <2>. QED  BY <2>1, <2>2
<1>5. CASE CreateTalkgroup(u)
  <2>1. CASE To(u, "ended")
    BY <1>2, <2>1
  <2>2. CASE Go(u, [h EXCEPT !.pc = "duplicate", !.tg = ids'.tg])
    <3>1. [h EXCEPT !.pc = "duplicate", !.tg = ids'.tg].seen = h.seen
      BY <1>0 DEF Handler
    <3>. QED  BY <2>2, <3>1
  <2>. QED  BY <1>5, <2>1, <2>2 DEF CreateTalkgroup
<1>6. CASE Store(u)
  <2>. DEFINE r(pc, p) == [h EXCEPT !.pc = pc, !.path = p, !.in = p]
  <2>1. PICK pc, p : Go(u, r(pc, p))
    BY <1>6 DEF Store
  <2>2. r(pc, p).seen = h.seen
    BY <1>0 DEF Handler
  <2>. QED  BY <2>1, <2>2
<1>7. CASE Submit(u)
  <2>. DEFINE r(p) == [h EXCEPT !.pc = "convert", !.out = p]
  <2>1. PICK p : Go(u, r(p))
    BY <1>7 DEF Submit, Ask
  <2>2. r(p).seen = h.seen
    BY <1>0 DEF Handler
  <2>. QED  BY <2>1, <2>2
<1>8. CASE Converted(u)
  <2>1. \/ Go(u, [h EXCEPT !.pc = "ended"]) \/ Go(u, [h EXCEPT !.pc = "insert"])
        \/ Go(u, [h EXCEPT !.pc = "insert", !.path = h.out])
    BY <1>8 DEF Converted
  <2>2. \A pc : [h EXCEPT !.pc = pc].seen = h.seen
    BY <1>0 DEF Handler
  <2>3. [h EXCEPT !.pc = "insert", !.path = h.out].seen = h.seen
    BY <1>0 DEF Handler
  <2>. QED  BY <2>1, <2>2, <2>3
<1>9. CASE Insert(u)
  BY <1>2, <1>9 DEF Insert
<1>10. CASE GiveUp(u)
  <2>. DEFINE r(b) == [h EXCEPT !.pc = "ended", !.left = b]
  <2>1. PICK b : Go(u, r(b))
    BY <1>10 DEF GiveUp
  <2>2. r(b).seen = h.seen
    BY <1>0 DEF Handler
  <2>. QED  BY <2>1, <2>2
<1>. QED  BY <1>1, <1>3, <1>4, <1>5, <1>6, <1>7, <1>8, <1>9, <1>10 DEF Handle

LEMMA HandlersSeeFar ==
  ASSUME IngestType, Audio, SeenAreFar, NEW u \in Uploads, Begin(u) \/ Handle(u) \/ GiveUp(u)
  PROVE  SeenAreFar'
<1>. DEFINE Far(v) == \A w \in upload[v].seen : ~Near(call[v].time, call[w].time)
<1>0. upload \in [Uploads -> Handler] /\ IdsType
  BY DEF IngestType, UploadType
<1>1. call' = call
  BY DEF Begin, GiveUp, Handle, CreateSystem, ReadTalkgroup, CreateTalkgroup,
         CheckDuplicate, Store, Submit, Ask, Converted, Insert
<1>2. \A v \in Uploads : v # u => upload'[v] = upload[v] /\ (v \in HasRow' => v \in HasRow)
  <2>1. rows' = rows \/ \E x : rows' = [rows EXCEPT ![u] = x]
    BY DEF Begin, GiveUp, Handle, CreateSystem, ReadTalkgroup, CreateTalkgroup,
           CheckDuplicate, Store, Submit, Ask, Converted, Insert
  <2>2. \E r : Go(u, r)
    BY <1>0, HandlersRemember DEF CheckDuplicate, IngestType
  <2>. QED  BY <1>0, <2>1, <2>2 DEF Go, HasRow, IngestType, RowsType
<1>3. upload[u].pc # "ended"
  BY DEF At, Begin, GiveUp, Handle, CreateSystem, ReadTalkgroup, CreateTalkgroup,
         CheckDuplicate, Store, Submit, Ask, Converted, Insert
<1>. HIDE DEF Far
<1>4. upload'[u].pc # "ended" \/ u \in HasRow' => Far(u)'
  <2>1. CASE CheckDuplicate(u)
    <3>1. u \notin HasRow'
      BY <2>1, Quiet DEF CheckDuplicate, At, HasRow
    <3>. DEFINE there == {v \in HasRow : rows[v].tg = upload[u].tg}
    <3>2. CASE Go(u, [upload[u] EXCEPT
                        !.pc = IF \E v \in there : Near(call[u].time, call[v].time)
                                 THEN "ended" ELSE "store",
                        !.seen = there])
      <4>1. /\ upload'[u].seen = there
            /\ upload'[u].pc = IF \E v \in there : Near(call[u].time, call[v].time)
                                 THEN "ended" ELSE "store"
        BY <1>0, <3>2 DEF Go, Handler
      <4>. QED  BY <1>1, <3>1, <4>1 DEF Far
    <3>3. CASE Go(u, [upload[u] EXCEPT !.pc = "store", !.blind = TRUE])
      <4>1. upload'[u].seen = upload[u].seen
        BY <1>0, <3>3 DEF Go, Handler
      <4>. QED  BY <1>1, <1>3, <4>1 DEF SeenAreFar, Far
    <3>. QED  BY <2>1, <3>2, <3>3 DEF CheckDuplicate
  <2>2. CASE ~CheckDuplicate(u)
    <3>1. PICK r : Go(u, r) /\ r.seen = upload[u].seen
      BY <1>0, <2>2, HandlersRemember DEF IngestType
    <3>2. upload'[u].seen = upload[u].seen
      BY <1>0, <3>1 DEF Go
    <3>. QED  BY <1>1, <1>3, <3>2 DEF SeenAreFar, Far
  <2>. QED  BY <2>1, <2>2
<1>5. \A v \in Uploads : v # u => (upload'[v].pc # "ended" \/ v \in HasRow' => Far(v)')
  BY <1>1, <1>2 DEF SeenAreFar, Far
<1>. QED  BY <1>4, <1>5 DEF SeenAreFar, Far

LEMMA SeenStep ==
  ASSUME IngestType, Audio, SeenAreFar, [ANext]_avars
  PROVE  SeenAreFar'
<1>1. IngestStep
  BY ToIngest
<1>2. ASSUME call' = call, HasRow' \subseteq HasRow,
             \A u \in Uploads : /\ upload'[u].seen = upload[u].seen
                                /\ (upload'[u].pc # "ended" => upload[u].pc # "ended")
      PROVE  SeenAreFar'
  BY <1>2 DEF SeenAreFar
<1>3. ASSUME NEW u \in Uploads, Begin(u) \/ Handle(u) \/ GiveUp(u)
      PROVE  SeenAreFar'
  BY <1>3, HandlersSeeFar
<1>4. CASE Work \/ Prune \/ DeleteSystem \/ DeleteTalkgroup \/ UNCHANGED stored
  <2>1. call' = call /\ upload' = upload
    BY <1>4 DEF Work, JobStart, JobEnd, Finish, Prune, PruneQuery, PruneFile, PruneRow,
                DeleteSystem, DeleteTalkgroup, stored
  <2>2. HasRow' \subseteq HasRow
    <3>1. CASE Work \/ PruneQuery \/ PruneFile \/ UNCHANGED stored
      BY <3>1 DEF Work, JobStart, JobEnd, Finish, PruneQuery, PruneFile, stored, HasRow
    <3>2. CASE PruneRow
      <4>1. rows' = rows \/ rows' = [rows EXCEPT ![Victim.of] = NoRow]
        BY <3>2 DEF PruneRow
      <4>. QED  BY <4>1 DEF HasRow, IngestType, RowsType
    <3>3. CASE DeleteSystem
      BY <3>3 DEF DeleteSystem, HasRow
    <3>4. CASE DeleteTalkgroup
      BY <3>4, DeleteTalkgroupKeeps
    <3>. QED  BY <1>4, <3>1, <3>2, <3>3, <3>4 DEF Prune
  <2>. QED  BY <1>2, <2>1, <2>2
<1>5. CASE Restart
  <2>1. call' = call /\ HasRow' = HasRow
    BY <1>5 DEF Restart, HasRow
  <2>2. \A u \in Uploads : /\ upload'[u].seen = upload[u].seen
                           /\ (upload'[u].pc # "ended" => upload[u].pc # "ended")
    BY <1>5 DEF Restart, IngestType, UploadType, Handler
  <2>. QED  BY <1>2, <2>1, <2>2
<1>. QED  BY <1>1, <1>3, <1>4, <1>5 DEF IngestStep

LEMMA SeenAtFirst ==
  ASSUME AInit
  PROVE  SeenAreFar
<1>1. \A u \in Uploads : upload[u].seen = {}
  <2>1. Fresh.seen = {}
    BY DEF Fresh
  <2>2. CASE load.plans = {}
    BY <2>1, <2>2 DEF AInit, Init
  <2>3. CASE load.plans # {}
    <3>. DEFINE r(u) == [Fresh EXCEPT !.pc = "ended", !.sys = 1, !.tg = load.tg[u],
                           !.path = <<Stem[u], "m4a">>, !.in = <<Stem[u], "m4a">>]
    <3>1. upload = [u \in Uploads |-> r(u)]
      BY <2>3 DEF AInit, Stock
    <3>2. \A u \in Uploads : r(u).seen = {}
      BY DEF Fresh
    <3>. HIDE DEF r
    <3>. QED  BY <3>1, <3>2
  <2>. QED  BY <2>2, <2>3
<1>. QED  BY <1>1 DEF SeenAreFar

\* Two calls of a talkgroup near each other are both stored only if each was
\* checked before the other was inserted, or could not be (IsDuplicate, then
\* CreateCall, with the conversion between them).
THEOREM DuplicatesAreAlwaysConcurrent == ASpec => []DuplicatesAreConcurrent
<1>1. AInit => SeenAreFar
  BY SeenAtFirst
<1>2. IngestType /\ Audio /\ SeenAreFar /\ [ANext]_avars => SeenAreFar'
  BY SeenStep
<1>3. SeenAreFar => DuplicatesAreConcurrent
  BY DEF SeenAreFar, DuplicatesAreConcurrent, HasRow
<1>. QED  BY <1>1, <1>2, <1>3, AudioAlways, PTL DEF ASpec

-----------------------------------------------------------------------------
(* The inductive invariant about searches.                                 *)

\* Pages read, of a search in which no call was taken out of a page: each call
\* there was at first and still is has been seen, or comes after as many
\* others, unless one of those has gone.  S is the calls there are.
Turned(r) == IF r.pc = "list" THEN r.page - 1 ELSE r.page
Ahead(r, u) == {v \in r.there : Newer(v, u)}
Searching == {"list", "turn", "done"}
VisitFields == {"pc", "of", "id", "expires", "page", "total", "there", "seen", "cut"}

Reached(r, S) ==
  \A u \in S :
    \/ u \in r.seen \/ ~(Ahead(r, u) \subseteq S)
    \/ r.pc # "done" /\ Cardinality(Ahead(r, u)) >= Turned(r)
SearchOK(r, S) ==
  /\ DOMAIN r = VisitFields /\ r.cut \in BOOLEAN
  /\ S \subseteq r.there /\ r.there \subseteq Uploads
  /\ r.page \in Nat \ {0}
  /\ r.pc = "list" => r.total \in Nat /\ Cardinality(S) <= r.total
  /\ r.cut = FALSE => Reached(r, S)
Paging(r, S) ==
  /\ r.pc = "new" => r = [Ended EXCEPT !.pc = "new"]
  /\ r.pc \in Searching => load.plans # {} /\ SearchOK(r, S)

\* Where users visit, nobody uploads.
LoadOK ==
  /\ "plans" \in DOMAIN load
  /\ load.plans # {} => \A u \in Uploads : upload[u].pc = "ended"
Searches ==
  /\ LoadOK /\ DOMAIN visit = Visitors
  /\ \A x \in Visitors : Paging(visit[x], HasRow)

\* Calls are in order.
LEMMA NewerIs ==
  ASSUME call \in Calls
  PROVE  /\ \A u \in Uploads : ~Newer(u, u)
         /\ \A u, v, w \in Uploads : Newer(u, v) /\ Newer(v, w) => Newer(u, w)
         /\ \A u, v \in Uploads : u # v => Newer(u, v) \/ Newer(v, u)
<1>1. \A u \in Uploads : call[u].time \in Nat
  BY IngestAssumption DEF IngestAssumption
<1>2. \A u \in Uploads : Stem[u] \in Int
  <2>1. Cardinality(Uploads) \in Nat
    BY Sizes
  <2>. QED  BY <2>1, StemIs
<1>3. \A u, v \in Uploads : Stem[u] = Stem[v] => u = v
  BY StemIs
<1>. QED  BY <1>1, <1>2, <1>3 DEF Newer

\* Who has others before him has somebody last among them.
LEMMA LastOf ==
  ASSUME call \in Calls, NEW S \in SUBSET Uploads, NEW u \in S, {v \in S : Newer(v, u)} # {}
  PROVE  \E w \in S : /\ Newer(w, u)
                      /\ Cardinality({v \in S : Newer(v, u)}) = Cardinality({v \in S : Newer(v, w)}) + 1
<1>. DEFINE N(x) == {v \in S : Newer(v, x)}
            M == Cardinality(S)
            Left(x) == M - Cardinality(N(x))
            R == {Left(x) : x \in N(u)}
<1>1. IsFiniteSet(S) /\ M \in Nat
  BY Sizes, FS_Subset, FS_CardinalityType
<1>2. ASSUME NEW x \in S
      PROVE  IsFiniteSet(N(x)) /\ Cardinality(N(x)) \in Nat /\ Cardinality(N(x)) <= M
  <2>1. N(x) \subseteq S
    OBVIOUS
  <2>. QED  BY <1>1, <2>1, FS_Subset, FS_CardinalityType
<1>3. R \subseteq Nat /\ R # {}
  <2>1. \A x \in N(u) : Left(x) \in Nat
    <3>. HIDE DEF M
    <3>. QED  BY <1>1, <1>2
  <2>. QED  BY <2>1
<1>4. PICK least \in R : \A y \in R : ~(<<y, least>> \in OpToRel(<, Nat))
  <2>1. IsWellFoundedOn(OpToRel(<, Nat), Nat)
    BY NatLessThanWellFounded
  <2>. HIDE DEF R
  <2>. QED  BY <1>3, <2>1, WFMin
<1>5. PICK w \in N(u) : least = Left(w)
  OBVIOUS
<1>6. ASSUME NEW x \in N(u) PROVE Cardinality(N(x)) <= Cardinality(N(w))
  <2>1. Left(x) \in R /\ least \in Nat /\ Left(x) \in Nat
    BY <1>3
  <2>2. ~(Left(x) < least)
    BY <1>4, <2>1 DEF OpToRel
  <2>3. x \in S /\ w \in S
    OBVIOUS
  <2>4. Cardinality(N(x)) \in Nat /\ Cardinality(N(w)) \in Nat
    BY <1>2, <2>3
  <2>. HIDE DEF M, N, R
  <2>. QED  BY <1>1, <1>5, <2>1, <2>2, <2>4
<1>7. N(u) = N(w) \union {w} /\ w \notin N(w)
  <2>1. \A x \in N(w) : x \in N(u)
    BY NewerIs
  <2>2. w \notin N(w)
    BY NewerIs
  <2>3. ASSUME NEW x \in N(u), x # w PROVE x \in N(w)
    <3>1. CASE Newer(w, x)
      <4>1. N(w) \union {w} \subseteq N(x)
        BY <3>1, NewerIs
      <4>2. IsFiniteSet(N(w)) /\ IsFiniteSet(N(x))
        BY <1>2
      <4>3. Cardinality(N(w) \union {w}) = Cardinality(N(w)) + 1
        BY <2>2, <4>2, FS_AddElement
      <4>4. Cardinality(N(w) \union {w}) <= Cardinality(N(x))
        BY <4>1, <4>2, FS_Subset
      <4>5. Cardinality(N(w)) \in Nat /\ Cardinality(N(x)) \in Nat /\ Cardinality(N(x)) <= Cardinality(N(w))
        BY <1>2, <1>6
      <4>. HIDE DEF N
      <4>. QED  BY <4>3, <4>4, <4>5
    <3>2. CASE ~Newer(w, x)
      BY <2>3, <3>2, NewerIs
    <3>. QED  BY <3>1, <3>2
  <2>. QED  BY <2>1, <2>2, <2>3
<1>8. Cardinality(N(u)) = Cardinality(N(w)) + 1
  <2>1. IsFiniteSet(N(w))
    BY <1>2
  <2>2. Cardinality(N(w) \union {w}) = Cardinality(N(w)) + 1
    <3>. HIDE DEF N
    <3>. QED  BY <1>7, <2>1, FS_AddElement
  <2>. QED  BY <1>7, <2>2
<1>. QED  BY <1>5, <1>8

\* If a page has no call, no call comes after as many others.
LEMMA NoGap ==
  ASSUME call \in Calls, NEW S \in SUBSET Uploads, NEW n \in Nat,
         \A u \in S : Cardinality({v \in S : Newer(v, u)}) # n, NEW u \in S
  PROVE  Cardinality({v \in S : Newer(v, u)}) < n
<1>. DEFINE N(x) == Cardinality({v \in S : Newer(v, x)})
            R == {k \in Nat : k > n /\ \E x \in S : N(x) = k}
<1>1. \A x \in S : N(x) \in Nat
  <2>. SUFFICES ASSUME NEW x \in S PROVE N(x) \in Nat
    OBVIOUS
  <2>1. IsFiniteSet({v \in S : Newer(v, x)})
    BY Sizes, FS_Subset
  <2>. QED  BY <2>1, FS_CardinalityType
<1>. SUFFICES ASSUME ~(N(u) < n) PROVE FALSE
  OBVIOUS
<1>2. N(u) \in R
  <2>1. N(u) \in Nat /\ N(u) # n
    BY <1>1
  <2>. HIDE DEF N
  <2>2. N(u) > n
    BY <2>1
  <2>. QED  BY <2>1, <2>2
<1>3. PICK k \in R : \A y \in R : ~(<<y, k>> \in OpToRel(<, Nat))
  <2>1. IsWellFoundedOn(OpToRel(<, Nat), Nat)
    BY NatLessThanWellFounded
  <2>2. R \subseteq Nat /\ R # {}
    BY <1>2
  <2>. HIDE DEF R
  <2>. QED  BY <2>1, <2>2, WFMin
<1>4. PICK x \in S : N(x) = k
  OBVIOUS
<1>5. {v \in S : Newer(v, x)} # {}
  <2>1. Cardinality({}) = 0
    BY FS_EmptySet
  <2>2. N(x) # 0
    BY <1>4
  <2>. QED  BY <2>1, <2>2
<1>6. PICK w \in S : N(x) = N(w) + 1
  BY <1>5, LastOf
<1>7. N(w) \in Nat /\ N(w) # n
  BY <1>1
<1>. HIDE DEF N
<1>8. N(w) \in R /\ N(w) < k
  BY <1>4, <1>6, <1>7
<1>. QED  BY <1>3, <1>8 DEF OpToRel

\* Calls that go leave a search where it is.
LEMMA FewerRows ==
  ASSUME NEW r, NEW S \in SUBSET Uploads, NEW T, T \subseteq S, Paging(r, S)
  PROVE  Paging(r, T)
<1>. SUFFICES ASSUME r.pc \in Searching PROVE SearchOK(r, T)
  BY DEF Paging
<1>1. SearchOK(r, S)
  BY DEF Paging
<1>2. ASSUME r.pc = "list" PROVE Cardinality(T) <= r.total
  <2>1. IsFiniteSet(S)
    BY Sizes, FS_Subset
  <2>2. IsFiniteSet(T) /\ Cardinality(T) <= Cardinality(S)
    BY <2>1, FS_Subset
  <2>3. Cardinality(T) \in Nat /\ Cardinality(S) \in Nat
    BY <2>1, <2>2, FS_CardinalityType
  <2>4. r.total \in Nat /\ Cardinality(S) <= r.total
    BY <1>1, <1>2 DEF SearchOK
  <2>. QED  BY <2>2, <2>3, <2>4
<1>3. ASSUME Reached(r, S) PROVE Reached(r, T)
  BY <1>3 DEF Reached
<1>. QED  BY <1>1, <1>2, <1>3 DEF SearchOK

LEMMA AheadFew ==
  ASSUME call \in Calls, NEW r, NEW S \in SUBSET Uploads, S \subseteq r.there, NEW u \in S, Ahead(r, u) \subseteq S
  PROVE  /\ Ahead(r, u) = {v \in S : Newer(v, u)}
         /\ Cardinality(Ahead(r, u)) \in Nat /\ Cardinality(Ahead(r, u)) < Cardinality(S)
         /\ Cardinality(S) \in Nat
<1>1. Ahead(r, u) = {v \in S : Newer(v, u)}
  BY DEF Ahead
<1>2. IsFiniteSet(S)
  BY Sizes, FS_Subset
<1>3. IsFiniteSet(Ahead(r, u)) /\ u \notin Ahead(r, u)
  BY <1>2, FS_Subset, NewerIs DEF Ahead
<1>4. Cardinality(Ahead(r, u) \union {u}) = Cardinality(Ahead(r, u)) + 1
  BY <1>3, FS_AddElement
<1>5. Cardinality(Ahead(r, u) \union {u}) <= Cardinality(S)
  <2>1. Ahead(r, u) \union {u} \subseteq S
    OBVIOUS
  <2>. QED  BY <1>2, <2>1, FS_Subset
<1>6. Cardinality(Ahead(r, u)) \in Nat /\ Cardinality(S) \in Nat
  BY <1>2, <1>3, FS_CardinalityType
<1>. QED  BY <1>1, <1>4, <1>5, <1>6

LEMMA Counted ==
  ASSUME NEW r, Paging(r, HasRow), r.pc \in {"new", "turn"}, load.plans # {}, NEW p,
         p = [r EXCEPT !.pc = "list", !.page = @ + 1, !.total = Cardinality(HasRow),
                       !.there = IF r.pc = "new" THEN HasRow ELSE @]
  PROVE  Paging(p, HasRow)
<1>. DEFINE S == HasRow
            there == IF r.pc = "new" THEN S ELSE r.there
            total == Cardinality(S)
<1>0. S \in SUBSET Uploads
  BY DEF HasRow
<1>1. DOMAIN r = VisitFields
  BY DEF Paging, SearchOK, Searching, Ended, VisitFields
<1>2. p = [r EXCEPT !.pc = "list", !.page = r.page + 1, !.total = total, !.there = there]
  OBVIOUS
<1>. HIDE DEF there, total, S
<1>3. /\ DOMAIN p = VisitFields /\ p.pc = "list" /\ p.page = r.page + 1 /\ p.total = total
      /\ p.there = there /\ p.seen = r.seen /\ p.cut = r.cut
  BY <1>1, <1>2 DEF VisitFields
<1>4. total \in Nat
  BY <1>0, Sizes, FS_Subset, FS_CardinalityType DEF total
<1>5. CASE r.pc = "new"
  <2>1. r.page = 0 /\ r.seen = {} /\ r.cut = FALSE
    BY <1>5 DEF Paging, Ended
  <2>2. p.there = S /\ Turned(p) = 0
    BY <1>3, <1>5, <2>1 DEF there, Turned
  <2>3. ASSUME NEW u \in S PROVE Cardinality(Ahead(p, u)) \in Nat
    <3>1. IsFiniteSet(Ahead(p, u))
      BY <1>0, <2>2, Sizes, FS_Subset DEF Ahead
    <3>. QED  BY <3>1, FS_CardinalityType
  <2>4. Reached(p, S)
    BY <1>3, <2>2, <2>3 DEF Reached
  <2>5. p.page = 1 /\ p.page \in Nat \ {0}
    BY <1>3, <2>1
  <2>6. p.total \in Nat /\ Cardinality(S) <= p.total
    BY <1>3, <1>4 DEF total
  <2>7. SearchOK(p, S)
    <3>. HIDE DEF Reached
    <3>. QED  BY <1>0, <1>3, <2>1, <2>2, <2>4, <2>5, <2>6 DEF SearchOK
  <2>. QED  BY <1>3, <2>7 DEF Paging, S
<1>6. CASE r.pc = "turn"
  <2>1. SearchOK(r, S)
    BY <1>6 DEF Paging, Searching, S
  <2>2. there = r.there /\ r.page \in Nat
    BY <1>6, <2>1 DEF there, SearchOK
  <2>3. Turned(p) = Turned(r)
    BY <1>3, <1>6, <2>2 DEF Turned
  <2>4. \A u \in S : Ahead(p, u) = Ahead(r, u)
    BY <1>3, <2>2 DEF Ahead
  <2>5. Reached(r, S) => Reached(p, S)
    BY <1>3, <1>6, <2>3, <2>4 DEF Reached
  <2>6. SearchOK(p, S)
    BY <1>3, <1>4, <2>1, <2>2, <2>5 DEF SearchOK, total
  <2>. QED  BY <1>3, <2>6 DEF Paging, S
<1>. QED  BY <1>5, <1>6

\* A page is read.
LEMMA PageRead ==
  ASSUME call \in Calls, NEW r, Paging(r, HasRow), r.pc = "list", NEW heard, heard \subseteq Listed(r.page - 1),
         NEW total, total = r.total \/ (heard = {} /\ total = r.page - 1), NEW p,
         p = [r EXCEPT !.pc = IF r.page < total THEN "turn" ELSE "done",
                       !.seen = @ \union heard, !.cut = @ \/ heard # Listed(r.page - 1)]
  PROVE  Paging(p, HasRow)
<1>. DEFINE S == HasRow
            read == Listed(r.page - 1)
            pc == IF r.page < total THEN "turn" ELSE "done"
            cut == r.cut \/ heard # read
            seen == r.seen \union heard
<1>0. S \in SUBSET Uploads
  BY DEF HasRow
<1>1. SearchOK(r, S) /\ load.plans # {}
  BY DEF Paging, Searching
<1>2. DOMAIN r = VisitFields /\ r.page \in Nat \ {0} /\ r.total \in Nat /\ Cardinality(S) <= r.total /\ r.cut \in BOOLEAN
  BY <1>1 DEF SearchOK
<1>3. read = {u \in S : Cardinality({v \in S : Newer(v, u)}) = r.page - 1}
  BY DEF Listed
<1>4. p = [r EXCEPT !.pc = pc, !.seen = seen, !.cut = cut]
  OBVIOUS
<1>. HIDE DEF S, read, pc, cut, seen
<1>5. /\ DOMAIN p = VisitFields /\ p.pc = pc /\ p.seen = seen /\ p.cut = cut
      /\ p.page = r.page /\ p.there = r.there
  BY <1>2, <1>4 DEF VisitFields
<1>6. pc \in {"turn", "done"} /\ Turned(p) = r.page /\ Turned(r) = r.page - 1
  BY <1>5 DEF pc, Turned
<1>7. \A u : Ahead(p, u) = Ahead(r, u)
  BY <1>5 DEF Ahead
<1>8. ASSUME cut = FALSE PROVE heard = read /\ Reached(r, S)
  <2>1. r.cut = FALSE /\ heard = read
    BY <1>2, <1>8 DEF cut
  <2>. QED  BY <1>1, <2>1 DEF SearchOK
<1>9. ASSUME cut = FALSE, NEW u \in S, u \notin seen, Ahead(r, u) \subseteq S
      PROVE  pc # "done" /\ Cardinality(Ahead(r, u)) >= r.page
  <2>1. u \notin r.seen /\ u \notin read
    BY <1>8, <1>9 DEF seen
  <2>2. /\ Ahead(r, u) = {v \in S : Newer(v, u)} /\ Cardinality(S) \in Nat
        /\ Cardinality(Ahead(r, u)) \in Nat /\ Cardinality(Ahead(r, u)) < Cardinality(S)
    BY <1>0, <1>1, <1>9, AheadFew DEF SearchOK
  <2>3. Cardinality(Ahead(r, u)) >= r.page - 1
    BY <1>6, <1>8, <1>9, <2>1 DEF Reached
  <2>4. Cardinality(Ahead(r, u)) # r.page - 1
    BY <1>3, <2>1, <2>2
  <2>5. Cardinality(Ahead(r, u)) >= r.page
    BY <1>2, <2>2, <2>3, <2>4
  <2>6. total = r.total
    <3>1. CASE heard = {}
      <4>1. \A v \in S : Cardinality({w \in S : Newer(w, v)}) # r.page - 1
        BY <1>3, <1>8, <1>9, <3>1
      <4>2. r.page - 1 \in Nat
        BY <1>2
      <4>3. Cardinality({v \in S : Newer(v, u)}) < r.page - 1
        BY <1>0, <4>1, <4>2, NoGap
      <4>. QED  BY <1>2, <2>2, <2>5, <4>3
    <3>. QED  BY <3>1
  <2>7. r.page < total
    BY <1>2, <2>2, <2>5, <2>6
  <2>. QED  BY <2>5, <2>7 DEF pc
<1>10. ASSUME cut = FALSE PROVE Reached(p, S)
  BY <1>5, <1>6, <1>7, <1>9, <1>10 DEF Reached
<1>11. cut \in BOOLEAN
  BY <1>2 DEF cut
<1>12. SearchOK(p, S)
  BY <1>1, <1>2, <1>5, <1>6, <1>10, <1>11 DEF SearchOK
<1>. QED  BY <1>1, <1>5, <1>6, <1>12 DEF Paging, S

LEMMA PagesLater ==
  ASSUME call' = call, load'.plans = load.plans, LoadOK', DOMAIN visit' = Visitors,
         \A x \in Visitors : Paging(visit'[x], HasRow')
  PROVE  Searches'
<1>1. \A u, v : Newer(u, v)' <=> Newer(u, v)
  BY DEF Newer
<1>. QED  BY <1>1 DEF Searches, Paging, SearchOK, Reached, Ahead, Turned

\* What there is to do at first stays.
LEMMA PlansStay ==
  ASSUME "plans" \in DOMAIN load, [ANext]_avars
  PROVE  load'.plans = load.plans /\ "plans" \in DOMAIN load'
<1>1. CASE Edit \/ Tick
  BY <1>1 DEF Edit, Tick
<1>2. CASE UNCHANGED load
  BY <1>2
<1>3. UNCHANGED load \/ Edit \/ Tick
  <2>1. ASSUME NEW u \in Uploads, Beside(Begin(u)) \/ Beside(Handle(u)) \/ Beside(GiveUp(u)) \/ Others(u)
        PROVE  UNCHANGED load
    BY <2>1 DEF Beside, Cascade, Others
  <2>2. ASSUME Beside(Work) \/ Beside(Prune) \/ Beside(DeleteSystem) \/ Beside(DeleteTalkgroup) \/ ARestart
        PROVE  UNCHANGED load
    BY <2>2 DEF Beside, Cascade, ARestart
  <2>3. ASSUME NEW x \in Visitors, Sharing(x) \/ Marking(x) \/ Search(x)
        PROVE  UNCHANGED load
    BY <2>3 DEF Sharing, ShareCheck, ShareCreate, UnshareCheck, UnshareDelete,
                Marking, ToggleRead, ToggleWrite, Search, SearchCount, SearchList, Page
  <2>4. ASSUME Links PROVE UNCHANGED load
    BY <2>4 DEF Links, RevokeLink, RestoreLink, SweepList, SweepDelete
  <2>5. ASSUME SetExpiry \/ \E w \in Users : SetGrants(w) PROVE Edit
    BY <2>5 DEF SetExpiry, SetGrants
  <2>6. ASSUME UNCHANGED avars PROVE UNCHANGED load
    BY <2>6 DEF avars
  <2>. QED  BY <2>1, <2>2, <2>3, <2>4, <2>5, <2>6 DEF ANext
<1>. QED  BY <1>1, <1>2, <1>3

\* Where users visit, calls only go.
LEMMA CallsOnlyGo ==
  ASSUME IngestType, Audio, LoadOK, load.plans # {}, IngestStep
  PROVE  /\ HasRow' \subseteq HasRow
         /\ \A u \in Uploads : upload'[u].pc = "ended"
<1>1. \A u \in Uploads : upload[u].pc = "ended"
  BY DEF LoadOK
<1>2. ASSUME NEW u \in Uploads PROVE ~Begin(u) /\ ~Handle(u) /\ ~GiveUp(u)
  BY <1>1 DEF Begin, GiveUp, Handle, CreateSystem, ReadTalkgroup, CreateTalkgroup,
              CheckDuplicate, Store, Submit, Converted, Insert, At
<1>3. CASE Work
  <2>1. UNCHANGED <<rows, upload>>
    BY <1>3 DEF Work, JobStart, JobEnd, Finish
  <2>. QED  BY <1>1, <2>1 DEF HasRow
<1>4. CASE Prune
  <2>1. upload' = upload
    BY <1>4 DEF Prune, PruneQuery, PruneFile, PruneRow
  <2>2. rows' = rows \/ rows' = [rows EXCEPT ![Victim.of] = NoRow]
    BY <1>4 DEF Prune, PruneQuery, PruneFile, PruneRow
  <2>3. \A u \in Uploads : rows'[u] = rows[u] \/ rows'[u] = NoRow
    BY <2>2 DEF IngestType, RowsType
  <2>. QED  BY <1>1, <2>1, <2>3 DEF HasRow
<1>5. CASE DeleteSystem
  BY <1>1, <1>5 DEF DeleteSystem, HasRow
<1>6. CASE DeleteTalkgroup
  BY <1>1, <1>6, DeleteTalkgroupKeeps DEF DeleteTalkgroup
<1>7. CASE Restart
  BY <1>1, <1>7 DEF Restart, HasRow
<1>8. CASE UNCHANGED stored
  BY <1>1, <1>8 DEF stored, HasRow
<1>. QED  BY <1>2, <1>3, <1>4, <1>5, <1>6, <1>7, <1>8 DEF IngestStep

\* A request that is new or searches was so before, or searches on.
Elsewhere(r) == r.pc \notin Searching \union {"new"}
LEMMA VisitsMove ==
  ASSUME DOMAIN visit = Visitors, [ANext]_avars
  PROVE  /\ DOMAIN visit' = Visitors
         /\ \A x \in Visitors : visit'[x] = visit[x] \/ Elsewhere(visit'[x]) \/ Search(x)
<1>. DEFINE Left(x) == visit'[x] = visit[x] \/ Elsewhere(visit'[x])
            Quietly == DOMAIN visit' = Visitors /\ \A x \in Visitors : Left(x)
<1>1. ASSUME UNCHANGED visit PROVE Quietly
  BY <1>1
<1>2. ASSUME NEW x \in Visitors, NEW r, Goes(x, r)
      PROVE  DOMAIN visit' = Visitors /\ visit'[x] = r /\ \A y \in Visitors : y # x => visit'[y] = visit[y]
  BY <1>2 DEF Goes
<1>3. Elsewhere(Ended)
  BY DEF Elsewhere, Ended, Searching
<1>4. ASSUME NEW x \in Visitors, Ends(x) PROVE Quietly
  BY <1>2, <1>3, <1>4 DEF Ends
<1>5. ASSUME NEW x \in Visitors, Sharing(x) \/ Marking(x) PROVE Quietly
  <2>1. Ends(x) \/ \E r : Goes(x, r) /\ Elsewhere(r)
    <3>1. ASSUME ShareCheck(x) PROVE Ends(x) \/ \E r : Goes(x, r) /\ Elsewhere(r)
      <4>1. Ends(x) \/ \E u, e : Goes(x, [Ended EXCEPT !.pc = "create", !.of = u, !.expires = e])
        BY <3>1 DEF ShareCheck
      <4>2. \A u, e : Elsewhere([Ended EXCEPT !.pc = "create", !.of = u, !.expires = e])
        BY DEF Elsewhere, Ended, Searching
      <4>. QED  BY <4>1, <4>2
    <3>2. ASSUME UnshareCheck(x) PROVE \E r : Goes(x, r) /\ Elsewhere(r)
      <4>1. \E u, i : Goes(x, [Ended EXCEPT !.pc = "delete", !.of = u, !.id = i])
        BY <3>2 DEF UnshareCheck
      <4>2. \A u, i : Elsewhere([Ended EXCEPT !.pc = "delete", !.of = u, !.id = i])
        BY DEF Elsewhere, Ended, Searching
      <4>. QED  BY <4>1, <4>2
    <3>3. ASSUME ToggleRead(x) PROVE \E r : Goes(x, r) /\ Elsewhere(r)
      <4>1. \E u, pc : pc \in {"mark", "unmark"} /\ Goes(x, [Ended EXCEPT !.of = u, !.pc = pc])
        BY <3>3 DEF ToggleRead
      <4>2. \A u : \A pc \in {"mark", "unmark"} : Elsewhere([Ended EXCEPT !.of = u, !.pc = pc])
        BY DEF Elsewhere, Ended, Searching
      <4>. QED  BY <4>1, <4>2
    <3>4. ASSUME ShareCreate(x) \/ UnshareDelete(x) \/ ToggleWrite(x) PROVE Ends(x)
      BY <3>4 DEF ShareCreate, UnshareDelete, ToggleWrite
    <3>. QED  BY <1>5, <3>1, <3>2, <3>3, <3>4 DEF Sharing, Marking
  <2>. QED  BY <1>2, <1>4, <2>1
<1>6. ASSUME NEW x \in Visitors, Search(x)
      PROVE  DOMAIN visit' = Visitors /\ \A y \in Visitors : visit'[y] = visit[y] \/ Search(y)
  <2>1. \E r : Goes(x, r)
    BY <1>6 DEF Search, SearchCount, SearchList, Page
  <2>. QED  BY <1>2, <1>6, <2>1
<1>7. CASE ARestart
  BY <1>3, <1>7 DEF ARestart
<1>8. ASSUME NEW u \in Uploads, Beside(Begin(u)) \/ Beside(Handle(u)) \/ Beside(GiveUp(u)) \/ Others(u)
      PROVE  UNCHANGED visit
  BY <1>8 DEF Beside, Others
<1>9. ASSUME Beside(Work) \/ Beside(Prune) \/ Beside(DeleteSystem) \/ Beside(DeleteTalkgroup)
      PROVE  UNCHANGED visit
  BY <1>9 DEF Beside
<1>10. ASSUME Links \/ SetExpiry \/ Tick \/ (\E w \in Users : SetGrants(w)) \/ UNCHANGED avars
       PROVE  UNCHANGED visit
  BY <1>10 DEF Links, RevokeLink, RestoreLink, SweepList, SweepDelete, SetExpiry, Tick, SetGrants, avars
<1>. QED  BY <1>1, <1>5, <1>6, <1>7, <1>8, <1>9, <1>10 DEF ANext

LEMMA SearchesStep ==
  ASSUME IngestType, Audio, Searches, [ANext]_avars
  PROVE  Searches'
<1>1. IngestStep /\ load'.plans = load.plans /\ "plans" \in DOMAIN load'
  BY ToIngest, PlansStay DEF Searches, LoadOK
<1>2. call' = call /\ call \in Calls
  BY <1>1 DEF IngestType, IngestStep, stored, Begin, GiveUp, Handle, CreateSystem, ReadTalkgroup, CreateTalkgroup,
              CheckDuplicate, Store, Submit, Ask, Converted, Insert, Work, JobStart, JobEnd, Finish,
              Prune, PruneQuery, PruneFile, PruneRow, DeleteSystem, DeleteTalkgroup, Restart
<1>3. load.plans # {} => HasRow' \subseteq HasRow /\ \A u \in Uploads : upload'[u].pc = "ended"
  BY <1>1, CallsOnlyGo DEF Searches
<1>4. LoadOK'
  BY <1>1, <1>3 DEF LoadOK
<1>5. /\ DOMAIN visit' = Visitors
      /\ \A x \in Visitors : visit'[x] = visit[x] \/ Elsewhere(visit'[x]) \/ Search(x)
  BY VisitsMove DEF Searches
<1>6. HasRow \in SUBSET Uploads
  BY DEF HasRow
<1>7. ASSUME NEW x \in Visitors PROVE Paging(visit'[x], HasRow')
  <2>. DEFINE r == visit[x]
  <2>0. Paging(r, HasRow)
    BY DEF Searches
  <2>1. CASE visit'[x] = visit[x]
    <3>1. CASE load.plans = {}
      BY <2>0, <2>1, <3>1 DEF Paging
    <3>2. CASE load.plans # {}
      BY <1>3, <1>6, <2>0, <2>1, <3>2, FewerRows
    <3>. QED  BY <3>1, <3>2
  <2>2. CASE Elsewhere(visit'[x])
    BY <2>2 DEF Elsewhere, Paging
  <2>3. CASE SearchCount(x)
    <3>. DEFINE p == [r EXCEPT !.pc = "list", !.page = @ + 1, !.total = Cardinality(HasRow),
                               !.there = IF r.pc = "new" THEN HasRow ELSE @]
    <3>1. load.plans # {} /\ r.pc \in {"new", "turn"} /\ Goes(x, p) /\ UNCHANGED vars
      BY <2>3 DEF SearchCount, VisitIs
    <3>2. visit'[x] = p
      BY <3>1 DEF Goes, Searches
    <3>3. HasRow' = HasRow
      BY <3>1 DEF vars, HasRow
    <3>4. Paging(p, HasRow)
      BY <2>0, <3>1, Counted
    <3>. HIDE DEF p
    <3>. QED  BY <3>2, <3>3, <3>4
  <2>4. CASE SearchList(x)
    <3>. DEFINE read  == Listed(r.page - 1)
                heard == {u \in read : Hears(By[x], u)}
                total == IF By[x] \notin Admins /\ By[x] \in restricted /\ heard = {}
                           THEN r.page - 1 ELSE r.total
                p == [r EXCEPT !.pc = IF r.page < total THEN "turn" ELSE "done",
                               !.seen = @ \union heard, !.cut = @ \/ heard # read]
    <3>1. load.plans # {} /\ r.pc = "list" /\ Goes(x, p) /\ UNCHANGED vars
      BY <2>4 DEF SearchList, Page, VisitIs
    <3>2. visit'[x] = p
      BY <3>1 DEF Goes, Searches
    <3>3. HasRow' = HasRow
      BY <3>1 DEF vars, HasRow
    <3>4. heard \subseteq read /\ (total = r.total \/ (heard = {} /\ total = r.page - 1))
      OBVIOUS
    <3>5. Paging(p, HasRow)
      <4>. HIDE DEF heard, total
      <4>. QED  BY <1>2, <2>0, <3>1, <3>4, PageRead
    <3>. HIDE DEF p
    <3>. QED  BY <3>2, <3>3, <3>5
  <2>. QED  BY <1>5, <2>1, <2>2, <2>3, <2>4 DEF Search
<1>. QED  BY <1>1, <1>2, <1>4, <1>5, <1>7, PagesLater

LEMMA SearchesAtFirst ==
  ASSUME AInit
  PROVE  Searches
<1>1. /\ load \in Loads /\ visit = [x \in Visitors |-> [Ended EXCEPT !.pc = "new"]]
      /\ IF load.plans = {} THEN Init ELSE Stock(load)
  BY DEF AInit
<1>2. "plans" \in DOMAIN load
  BY <1>1, ArchiveAssumption DEF ArchiveAssumption
<1>3. LoadOK
  <2>1. \A t, p : [Fresh EXCEPT !.pc = "ended", !.sys = 1, !.tg = t, !.path = p, !.in = p].pc = "ended"
    BY DEF Fresh
  <2>2. ASSUME load.plans # {}, NEW u \in Uploads PROVE upload[u].pc = "ended"
    <3>1. upload = [v \in Uploads |-> [Fresh EXCEPT !.pc = "ended", !.sys = 1, !.tg = load.tg[v],
                                         !.path = <<Stem[v], "m4a">>, !.in = <<Stem[v], "m4a">>]]
      BY <1>1, <2>2 DEF Stock
    <3>. QED  BY <2>1, <3>1
  <2>. QED  BY <1>2, <2>2 DEF LoadOK
<1>4. [Ended EXCEPT !.pc = "new"].pc = "new"
  BY DEF Ended
<1>. QED  BY <1>1, <1>3, <1>4 DEF Searches, Paging, Searching

\* A search turned to the end has shown every call that was there at first
\* and still is, unless a newer one went meanwhile or the user's grants took
\* a call out of a page: GetCalls, which counts, lists at an offset and then
\* drops what is not granted, beside the pruner and the admins.
THEOREM SearchesAlwaysReachAll == ASpec => []SearchReachesAll
<1>1. AInit => Searches
  BY SearchesAtFirst
<1>2. IngestType /\ Audio /\ Searches /\ [ANext]_avars => Searches'
  BY SearchesStep
<1>3. Searches => SearchReachesAll
  <2>. SUFFICES ASSUME Searches, NEW x \in Visitors, visit[x].pc = "done", ~visit[x].cut,
                       NEW u \in visit[x].there \intersect HasRow
                PROVE  u \in visit[x].seen \/ \E v \in visit[x].there \ HasRow : Newer(v, u)
    BY DEF SearchReachesAll
  <2>1. SearchOK(visit[x], HasRow)
    BY DEF Searches, Paging, Searching
  <2>2. visit[x].cut = FALSE
    BY <2>1 DEF SearchOK
  <2>. QED  BY <2>1, <2>2 DEF SearchOK, Reached, Ahead
<1>. QED  BY <1>1, <1>2, <1>3, AudioAlways, PTL DEF ASpec

=============================================================================
