------------------------------- MODULE Ingest -------------------------------
(***************************************************************************)
(* A call from upload to pruning: PostCallUpload and PostCallUploadV1      *)
(* (internal/handler/calls), which differ in wire format only, the         *)
(* recordings on disk and their conversion (internal/audio), the rows with *)
(* the bookmarks and shared links that keep them, and the deletion of what *)
(* they refer to (internal/admin).                                         *)
(*                                                                         *)
(* Each query is a step and each call on the file system is one; requests, *)
(* the conversion worker, the pruner and admins interleave between them.   *)
(* One recorder system and one talkgroup of it, which come and go: ids are *)
(* never used again.  A path is a stem and an extension; createUniqueFile  *)
(* draws another stem when one is taken.  A file is known by the upload    *)
(* whose audio it holds.                                                   *)
(***************************************************************************)
EXTENDS Integers, Sequences, FiniteSets, SequencesExt

CONSTANTS
  Uploads,      \* requests; each inserts one row at most
  None,         \* no upload
  Calls,        \* what is uploaded: functions from Uploads
  Old,          \* calls made before are past pruneDays
  Window,       \* duplicateDetectionTimeFrame; 0 or less: no check
  Workers,      \* conversions at a time
  Batch,        \* rows of one prune query
  MaxIds,       \* bound: systems, and talkgroups, ever created
  MaxFailures,  \* bound: failing steps, and requests given up
  MaxRestarts   \* bound: restarts

ASSUME IngestAssumption ==
  /\ IsFiniteSet(Uploads) /\ Uploads # {} /\ None \notin Uploads
  /\ Calls \subseteq [Uploads -> [time : Nat, ext : {"wav", "m4a"}]]
  /\ Old \in Nat /\ Window \in Int
  /\ {Workers, Batch, MaxIds} \subseteq Nat \ {0}
  /\ {MaxFailures, MaxRestarts} \subseteq Nat

VARIABLES
  call,      \* call[u]: when it was made, and the extension of its file
  upload,    \* upload[u]: the handler, with what it has read
  ids,       \* the row of the system and of the talkgroup, and ids used
  rows,      \* rows[u]: the path and talkgroup of u's row; NoRow
  kept,      \* rows somebody has bookmarked or shared
  files,     \* files[p]: the upload whose audio is there; None: reserved
  jobs,      \* the conversion queue
  running,   \* the jobs being run, with the audio each has read
  outcome,   \* outcome[u]: what its job's Done channel holds
  pruner,    \* the batch still to be pruned, and whether a row is half gone
  reclaimed, \* paths removed of rows that could not be deleted
  failures,  \* steps that have failed so far
  restarts   \* restarts so far

disk == <<files, reclaimed>>
pool == <<jobs, running, outcome>>
vars == <<call, upload, ids, rows, kept, disk, pool, pruner, failures, restarts>>

Stems == 0..2 * Cardinality(Uploads)
Exts  == {"wav", "m4a", "tmp.m4a"}
Paths == Stems \X Exts
NoPath == <<0, "none">>
NoRow  == [path |-> NoPath, tg |-> 0]

HasRow == {u \in Uploads : rows[u] # NoRow}

Idle == [pc |-> "idle", batch |-> <<>>]

\* in, out: the file the conversion reads, and the one it writes; left: the
\* request was given up then.
Fresh == [pc |-> "new", sys |-> 0, tg |-> 0, path |-> NoPath, in |-> NoPath, out |-> NoPath,
          seen |-> {}, blind |-> FALSE, left |-> FALSE]

Init ==
  /\ call \in Calls
  /\ upload = [u \in Uploads |-> Fresh]
  /\ ids = [sys |-> 0, tg |-> 0, tgOf |-> 0, usedSys |-> 0, usedTg |-> 0]
  /\ rows = [u \in Uploads |-> NoRow]
  /\ kept = {}
  /\ files = <<>>
  /\ jobs = <<>> /\ running = {} /\ outcome = [u \in Uploads |-> "none"]
  /\ pruner = Idle
  /\ reclaimed = {}
  /\ failures = 0 /\ restarts = 0

-----------------------------------------------------------------------------
(* Files.  A path is there when it is in the domain of files.              *)

Exists(p) == p \in DOMAIN files

Put(f, p, u)  == [q \in DOMAIN f \union {p} |-> IF q = p THEN u ELSE f[q]]
Drop(f, S)    == [q \in DOMAIN f \ S |-> f[q]]

\* createUniqueFile: the name asked for, or one with a suffix not yet taken.
Unique(stem, ext) ==
  IF ~Exists(<<stem, ext>>) THEN {<<stem, ext>>}
  ELSE {<<CHOOSE s \in Stems : ~ \E e \in Exts : Exists(<<s, e>>), ext>>}

-----------------------------------------------------------------------------
(* The handler.                                                            *)

Go(u, r) == upload' = [upload EXCEPT ![u] = r]
At(u, pc) == upload[u].pc = pc
To(u, pc) == Go(u, [upload[u] EXCEPT !.pc = pc])

\* The call goes on to pc, or what has been checked refuses it: the key and its
\* rate, the fields of the form, the blocked talkgroups, or auto-populate off.
OrRefused(pc) == {pc, "ended"}

\* The request is parsed; then GetSystemBySystemID.
Begin(u) ==
  /\ At(u, "new")
  /\ \E pc \in OrRefused(IF ids.sys = 0 THEN "createSystem" ELSE "talkgroup") :
       Go(u, [upload[u] EXCEPT !.pc = pc, !.sys = ids.sys])
  /\ UNCHANGED <<call, ids, rows, kept, disk, pool, pruner, failures, restarts>>

\* CreateSystem: system_id is UNIQUE, so the second of two uploads fails.
CreateSystem(u) ==
  /\ At(u, "createSystem")
  /\ IF ids.sys # 0 THEN To(u, "ended") /\ UNCHANGED ids
     ELSE /\ ids' = [ids EXCEPT !.sys = ids.usedSys + 1, !.usedSys = @ + 1]
          /\ Go(u, [upload[u] EXCEPT !.pc = "talkgroup", !.sys = ids'.sys])
  /\ UNCHANGED <<call, rows, kept, disk, pool, pruner, failures, restarts>>

\* GetTalkgroupBySystemAndTGID, unless the system blocks it.
ReadTalkgroup(u) ==
  LET found == ids.tg # 0 /\ ids.tgOf = upload[u].sys IN
  /\ At(u, "talkgroup")
  /\ \E pc \in OrRefused(IF found THEN "duplicate" ELSE "createTalkgroup") :
       Go(u, [upload[u] EXCEPT !.pc = pc, !.tg = IF found THEN ids.tg ELSE 0])
  /\ UNCHANGED <<call, ids, rows, kept, disk, pool, pruner, failures, restarts>>

\* CreateTalkgroup: UNIQUE in its system, which must be there.
CreateTalkgroup(u) ==
  /\ At(u, "createTalkgroup")
  /\ IF ids.tg # 0 \/ ids.sys # upload[u].sys THEN To(u, "ended") /\ UNCHANGED ids
     ELSE /\ ids' = [ids EXCEPT !.tg = ids.usedTg + 1, !.usedTg = @ + 1, !.tgOf = upload[u].sys]
          /\ Go(u, [upload[u] EXCEPT !.pc = "duplicate", !.tg = ids'.tg])
  /\ UNCHANGED <<call, rows, kept, disk, pool, pruner, failures, restarts>>

\* HasCallAtTimestamp and HasCallInTimeRange; the second contains the first.
Near(t1, t2) == Window > 0 /\ t1 - Window <= t2 /\ t2 <= t1 + Window

\* (Mutant: only calls of the very time are found.)
CheckDuplicateExact(u) ==
  LET there == {v \in HasRow : rows[v].tg = upload[u].tg} IN
  /\ At(u, "duplicate")
  /\ Go(u, [upload[u] EXCEPT
              !.pc = IF \E v \in there : call[u].time = call[v].time THEN "ended" ELSE "store",
              !.seen = there])
  /\ UNCHANGED <<call, ids, rows, kept, disk, pool, pruner, failures, restarts>>

\* IsDuplicate; when its query fails the call is taken in all the same.
CheckDuplicate(u) ==
  LET there == {v \in HasRow : rows[v].tg = upload[u].tg} IN
  /\ At(u, "duplicate")
  /\ \/ /\ Go(u, [upload[u] EXCEPT
                    !.pc = IF \E v \in there : Near(call[u].time, call[v].time)
                             THEN "ended" ELSE "store",
                    !.seen = there])
        /\ UNCHANGED failures
     \/ /\ failures < MaxFailures /\ failures' = failures + 1
        /\ Go(u, [upload[u] EXCEPT !.pc = "store", !.blind = TRUE])
  /\ UNCHANGED <<call, ids, rows, kept, disk, pool, pruner, restarts>>

\* Store: the upload's audio under its own name; then convertStored, or not.
Store(u) ==
  /\ At(u, "store")
  /\ \E p \in Unique(0, call[u].ext), pc \in {"submit", "insert"} :
       /\ files' = Put(files, p, u)
       /\ Go(u, [upload[u] EXCEPT !.pc = pc, !.path = p, !.in = p])
  /\ UNCHANGED <<call, ids, rows, kept, reclaimed, pool, pruner, failures, restarts>>

\* Already the name of the output: convert beside it, and rename.
InPlace(u) == upload[u].path[2] = "m4a"

Ask(u, p) ==
  /\ Go(u, [upload[u] EXCEPT !.pc = "convert", !.out = p])
  /\ jobs' = Append(jobs, [of |-> u, in |-> upload[u].path, out |-> p, read |-> None])
  /\ UNCHANGED <<call, ids, rows, kept, reclaimed, running, outcome, pruner, failures, restarts>>

\* (Mutant: FFmpeg is given the name it would have, taken or not.)
SubmitUnreserved(u) ==
  /\ At(u, "submit")
  /\ Ask(u, <<upload[u].path[1], IF InPlace(u) THEN "tmp.m4a" ELSE "m4a">>)
  /\ UNCHANGED files

\* The output's name is taken before FFmpeg runs.
Submit(u) ==
  /\ At(u, "submit")
  /\ \E p \in Unique(upload[u].path[1], IF InPlace(u) THEN "tmp.m4a" ELSE "m4a") :
       /\ files' = Put(files, p, None)
       /\ Ask(u, p)

\* The answer of the job: keep the output, or fail.
Converted(u) ==
  LET r == upload[u] IN
  /\ At(u, "convert") /\ outcome[u] # "none"
  /\ outcome' = [outcome EXCEPT ![u] = "none"]
  /\ CASE outcome[u] = "failed" ->
            Go(u, [r EXCEPT !.pc = "ended"]) /\ files' = Drop(files, {r.path, r.out})
       [] outcome[u] = "done" /\ InPlace(u) ->
            IF Exists(r.out)
              THEN /\ Go(u, [r EXCEPT !.pc = "insert"])
                   /\ files' = Drop(Put(files, r.path, files[r.out]), {r.out})
              ELSE Go(u, [r EXCEPT !.pc = "ended"]) /\ UNCHANGED files
       [] OTHER ->
            Go(u, [r EXCEPT !.pc = "insert", !.path = r.out]) /\ files' = Drop(files, {r.path})
  /\ UNCHANGED <<call, ids, rows, kept, reclaimed, jobs, running, pruner, failures, restarts>>

\* CreateCall, by which everybody knows of the call; foreign keys must be
\* there.  The file of a call that cannot be inserted stays on disk.
Insert(u) ==
  /\ At(u, "insert")
  /\ rows' = IF ids.sys = upload[u].sys /\ ids.tg = upload[u].tg
               THEN [rows EXCEPT ![u] = [path |-> upload[u].path, tg |-> upload[u].tg]]
               ELSE rows
  /\ To(u, "ended")
  /\ UNCHANGED <<call, ids, kept, disk, pool, pruner, failures, restarts>>

\* A query fails, or the client closes the request, whose context ends: only
\* convertStored puts away what it made.  A job in the queue stays there.
GiveUp(u) ==
  /\ upload[u].pc \in {"talkgroup", "store", "convert", "insert"}
  /\ failures < MaxFailures /\ failures' = failures + 1
  /\ Go(u, [upload[u] EXCEPT !.pc = "ended", !.left = At(u, "convert")])
  /\ files' = IF At(u, "convert")
                THEN Drop(files, {upload[u].path, upload[u].out}) ELSE files
  /\ UNCHANGED <<call, ids, rows, kept, reclaimed, pool, pruner, restarts>>

-----------------------------------------------------------------------------
(* The conversion workers: runJob.                                         *)

\* FFmpeg opens its input.
JobStart ==
  /\ jobs # <<>> /\ Cardinality(running) < Workers
  /\ jobs' = Tail(jobs)
  /\ IF Exists(Head(jobs).in)
       THEN /\ running' = running \union {[Head(jobs) EXCEPT !.read = files[Head(jobs).in]]}
            /\ UNCHANGED outcome
       ELSE /\ outcome' = [outcome EXCEPT ![Head(jobs).of] = "failed"]
            /\ UNCHANGED running
  /\ UNCHANGED <<call, upload, ids, rows, kept, disk, pruner, failures, restarts>>

\* It writes its output, whatever has that name by now (-y), or fails.
Finish(j) ==
  /\ running' = running \ {j}
  /\ \/ /\ files' = Put(files, j.out, j.read)
        /\ outcome' = [outcome EXCEPT ![j.of] = "done"]
        /\ UNCHANGED failures
     \/ /\ failures < MaxFailures /\ failures' = failures + 1
        /\ outcome' = [outcome EXCEPT ![j.of] = "failed"]
        /\ UNCHANGED files
  /\ UNCHANGED <<call, upload, ids, rows, kept, reclaimed, jobs, pruner, restarts>>

\* (Mutant: Done is written when FFmpeg has succeeded.)
JobEndSilent ==
  \E j \in running :
    IF failures < MaxFailures /\ At(j.of, "convert")
      THEN /\ running' = running \ {j} /\ failures' = failures + 1
           /\ UNCHANGED <<call, upload, ids, rows, kept, disk, jobs, outcome, pruner, restarts>>
      ELSE Finish(j)

\* Done has room for the answer, whether or not anybody waits for it.
JobEnd == \E j \in running : Finish(j)

-----------------------------------------------------------------------------
(* The pruner: pruneOldCalls, every hour.                                  *)

\* GetCallIDsOlderThan: old calls nobody keeps.
Prunable == {u \in HasRow : call[u].time < Old /\ u \notin kept}

\* The oldest of them, up to the limit of the query.
Oldest(s) ==
  /\ s \in [1..Len(s) -> Prunable] /\ IsInjective(s)
  /\ Len(s) = IF Cardinality(Prunable) < Batch THEN Cardinality(Prunable) ELSE Batch
  /\ \A i \in 1..Len(s), u \in Prunable :
       call[u].time < call[s[i]].time => \E j \in 1..i : s[j] = u

PruneQuery ==
  /\ pruner = Idle /\ Prunable # {}
  /\ \E n \in 1..Batch : \E s \in [1..n -> Prunable] :
       /\ Oldest(s)
       /\ pruner' = [pc |-> "remove",
                     batch |-> [i \in 1..n |-> [of |-> s[i], path |-> rows[s[i]].path]]]
  /\ UNCHANGED <<call, upload, ids, rows, kept, disk, pool, failures, restarts>>

Victim == Head(pruner.batch)

\* The path is the one the query found; the row may be gone by now.  Whether
\* the file could be removed makes no difference.
PruneFile ==
  /\ pruner.pc = "remove"
  /\ \/ files' = Drop(files, {Victim.path}) /\ UNCHANGED failures
     \/ failures < MaxFailures /\ failures' = failures + 1 /\ UNCHANGED files
  /\ pruner' = [pruner EXCEPT !.pc = "delete"]
  /\ UNCHANGED <<call, upload, ids, rows, kept, reclaimed, pool, restarts>>

\* DeleteCallBatch, with the bookmarks and the link of the call; the next
\* row, the next batch or the next hour, whether or not it worked.
PruneRow ==
  /\ pruner.pc = "delete"
  /\ pruner' = IF Len(pruner.batch) = 1 THEN Idle
               ELSE [pc |-> "remove", batch |-> Tail(pruner.batch)]
  /\ \/ /\ rows' = [rows EXCEPT ![Victim.of] = NoRow]
        /\ kept' = kept \ {Victim.of}
        /\ UNCHANGED <<reclaimed, failures>>
     \/ /\ failures < MaxFailures /\ failures' = failures + 1
        /\ reclaimed' = reclaimed \union {Victim.path}
        /\ UNCHANGED <<rows, kept>>
  /\ UNCHANGED <<call, upload, ids, files, pool, restarts>>

-----------------------------------------------------------------------------
(* Users and admins.                                                       *)

\* A bookmark or a shared link; the foreign key keeps it on calls there are.
Keep(u) ==
  /\ u \in HasRow \ kept
  /\ kept' = kept \union {u}
  /\ UNCHANGED <<call, upload, ids, rows, disk, pool, pruner, failures, restarts>>

Release(u) ==
  /\ u \in kept
  /\ kept' = kept \ {u}
  /\ UNCHANGED <<call, upload, ids, rows, disk, pool, pruner, failures, restarts>>

\* SystemsDelete: talkgroups and calls go with it, and what keeps them; the
\* recordings stay.
DeleteSystem ==
  /\ ids.sys # 0 /\ ids.usedSys < MaxIds /\ ids.usedTg < MaxIds
  /\ ids' = [ids EXCEPT !.sys = 0, !.tg = 0, !.tgOf = 0]
  /\ rows' = [u \in Uploads |-> NoRow]
  /\ kept' = {}
  /\ UNCHANGED <<call, upload, disk, pool, pruner, failures, restarts>>

\* TalkgroupsDelete: its calls stay, without a talkgroup.
DeleteTalkgroup ==
  /\ ids.tg # 0 /\ ids.usedTg < MaxIds
  /\ ids' = [ids EXCEPT !.tg = 0, !.tgOf = 0]
  /\ rows' = [u \in Uploads |-> IF u \in HasRow THEN [rows[u] EXCEPT !.tg = 0] ELSE NoRow]
  /\ UNCHANGED <<call, upload, kept, disk, pool, pruner, failures, restarts>>

\* The process stops and starts: rows and files are all that is left.
Restart ==
  /\ restarts < MaxRestarts /\ restarts' = restarts + 1
  /\ upload' = [u \in Uploads |->
                  IF upload[u].pc \in {"new", "ended"} THEN upload[u]
                  ELSE [upload[u] EXCEPT !.pc = "ended"]]
  /\ jobs' = <<>> /\ running' = {} /\ outcome' = [u \in Uploads |-> "none"]
  /\ pruner' = Idle
  /\ reclaimed' = IF pruner.pc = "delete" THEN reclaimed \union {Victim.path} ELSE reclaimed
  /\ UNCHANGED <<call, ids, rows, kept, files, failures>>

-----------------------------------------------------------------------------

Handle(u) ==
  \/ CreateSystem(u) \/ ReadTalkgroup(u) \/ CreateTalkgroup(u)
  \/ CheckDuplicate(u) \/ Store(u) \/ Submit(u) \/ Converted(u) \/ Insert(u)

Work  == JobStart \/ JobEnd
Prune == PruneQuery \/ PruneFile \/ PruneRow

Next ==
  \/ \E u \in Uploads : Begin(u) \/ Handle(u) \/ GiveUp(u) \/ Keep(u) \/ Release(u)
  \/ Work \/ Prune
  \/ DeleteSystem \/ DeleteTalkgroup \/ Restart

Spec == Init /\ [][Next]_vars

\* A handler goes on, FFmpeg ends, and the pruner is woken by its ticker.
FairSpec ==
  /\ Spec
  /\ \A u \in Uploads : WF_vars(Handle(u))
  /\ WF_vars(Work) /\ WF_vars(Prune)

-----------------------------------------------------------------------------

TypeOK ==
  /\ call \in Calls
  /\ \A u \in Uploads : upload[u].path \in Paths \union {NoPath}
  /\ ids.sys \in 0..MaxIds /\ ids.tg \in 0..MaxIds
  /\ \A u \in HasRow : rows[u].path \in Paths
  /\ kept \subseteq HasRow
  /\ DOMAIN files \subseteq Paths
  /\ outcome \in [Uploads -> {"none", "done", "failed"}]
  /\ failures \in 0..MaxFailures /\ restarts \in 0..MaxRestarts

\* The recording of every call in the database is there and is its own:
\* uploads of files with one name, conversions beside each other or of
\* requests long given up, and the pruner, which frees names, never leave a
\* row with another's audio or none.  Two things do: a prune that removed the
\* file and could not delete the row, to the row and to those who were stored
\* under its name or have it now; and the conversion of an upload given up,
\* which may write to a name that was its own and is free again.
RowsHaveTheirAudio ==
  /\ TypeOK
  /\ \A u \in HasRow :
       \/ {rows[u].path, upload[u].in} \intersect reclaimed # {}
       \/ pruner.pc = "delete" /\ Victim.of = u
       \/ \E v \in Uploads : upload[v].left /\ upload[v].out \in {rows[u].path, upload[u].out}
       \/ Exists(rows[u].path) /\ files[rows[u].path] = u

\* Two calls of a talkgroup within the window of each other are both stored
\* only if each was checked before the other was inserted, or could not be
\* checked (IsDuplicate, then CreateCall).
DuplicatesAreConcurrent ==
  \A u, v \in HasRow :
    /\ u # v /\ rows[u].tg # 0 /\ rows[u].tg = rows[v].tg
    /\ Near(call[u].time, call[v].time)
    /\ ~upload[u].blind
    => v \notin upload[u].seen

\* An upload ends, whatever requests before it left in the conversion queue.
UploadsEnd == \A u \in Uploads : ~At(u, "new") ~> At(u, "ended")

\* An old call goes, or somebody keeps it, although files and rows are
\* removed in two steps with failures and a restart in between.
OldCallsGo ==
  \A u \in Uploads : u \in HasRow /\ call[u].time < Old ~> u \notin HasRow \/ u \in kept

=============================================================================
