---------------------------- MODULE Transcription ----------------------------
(***************************************************************************)
(* The way of a call through transcription: TranscriberManager and its     *)
(* pools (internal/audio/transcriber_manager.go, transcriber.go), the      *)
(* consumer of their results (cmd/server/main.go) and the job history      *)
(* (internal/admin/transcription.go).                                      *)
(*                                                                         *)
(* A job is one hand-over of a call, at upload, by a directory monitor or  *)
(* by an admin's retry.  It is at one place at a time: with its submitter, *)
(* in a channel, or with a goroutine.  Channels are sets with a capacity:  *)
(* nothing said here depends on the order within one.                      *)
(***************************************************************************)
EXTENDS Integers, FiniteSets

CONSTANTS
  Calls, Jobs,
  CallOf(_),       \* the call a job hands over
  Forced,          \* jobs that are retries: never too short
  MaxPools,        \* bound on the pools ever started
  Workers,         \* of a pool
  JobCap,          \* capacity of pool.jobs
  ResultCap,       \* of pool.results
  SharedCap        \* of manager.results

ASSUME TranscriptionAssumption ==
  /\ {MaxPools, Workers, JobCap, ResultCap, SharedCap} \subseteq Nat \ {0}
  /\ \A j \in Jobs : CallOf(j) \in Calls
  /\ Forced \subseteq Jobs /\ IsFiniteSet(Jobs)

Pools == 1..MaxPools
None  == 0

VARIABLES
  place,       \* place[j]: where the job, or its result, is
  poolOf,      \* poolOf[j]: the pool it was submitted to, until it has left it
  current,     \* manager.pool
  life,        \* life[p]: "running" until the pool's context is cancelled
  exited,      \* exited[p]: workers that have returned
  rows         \* rows[c]: the status of c in transcription_jobs

jobs  == <<place, poolOf>>
pools == <<current, life, exited>>
vars  == <<jobs, pools, rows>>

\* A job that is lost was given up by its submitter, went down with the
\* process, or could not be recorded.
InHand == {"submitting", "queued", "working", "finished", "buffered", "pumping", "shared"}
Places == InHand \union {"new", "over", "dropped", "lost"}

At(p, where) == {j \in Jobs : place[j] = where /\ poolOf[j] = p}
Goto(j, where) == place' = [place EXCEPT ![j] = where]
Leave(j) == poolOf' = [poolOf EXCEPT ![j] = None]

Init ==
  /\ place = [j \in Jobs |-> "new"]
  /\ poolOf = [j \in Jobs |-> None]
  /\ exited = [p \in Pools |-> 0]
  /\ current \in {None, 1}
  /\ life = [p \in Pools |-> IF p = current THEN "running" ELSE "unborn"]
  /\ rows = [c \in Calls |-> "none"]

-----------------------------------------------------------------------------
(* Handing a call over.                                                    *)

\* manager.Submit, up to the channel: the pool is read under the lock, and
\* the job history told, which may fail.  Nothing happens while off.
Submit(j) ==
  /\ place[j] = "new"
  /\ poolOf' = [poolOf EXCEPT ![j] = current]
  /\ \/ current = None /\ Goto(j, "over") /\ UNCHANGED rows
     \/ /\ current # None /\ j \notin Forced    \* shorter than the minimum
        /\ Goto(j, "over")
        /\ rows' \in {rows, [rows EXCEPT ![CallOf(j)] = "skipped"]}
     \/ /\ current # None
        /\ Goto(j, "submitting")
        /\ rows' \in {rows, [rows EXCEPT ![CallOf(j)] = "queued"]}
  /\ UNCHANGED pools

\* pool.Submit: the send succeeds when there is room, though the pool may
\* have been replaced since.
Send(j) ==
  /\ place[j] = "submitting"
  /\ Cardinality(At(poolOf[j], "queued")) < JobCap
  /\ Goto(j, "queued")
  /\ UNCHANGED <<poolOf, pools, rows>>

\* Or its context ends first: the uploader hangs up, the monitor is stopped.
GiveUp(j) ==
  /\ place[j] = "submitting"
  /\ Goto(j, "lost") /\ Leave(j)
  /\ UNCHANGED <<pools, rows>>

-----------------------------------------------------------------------------
(* A pool.                                                                 *)

Busy(p) == Cardinality(At(p, "working") \union At(p, "finished"))
Free(p) == Busy(p) + exited[p] < Workers
Closed(p) == exited[p] = Workers    \* pool.results is

\* A worker looks at its context and at the queue in no order.
Take(j) ==
  /\ place[j] = "queued" /\ Free(poolOf[j])
  /\ Goto(j, "working")
  /\ UNCHANGED <<poolOf, pools, rows>>

\* transcribe: the sidecar answers, or after its retries it has not, or the
\* pool is stopped in the middle, which is an error like the others.  Which
\* it was shows when the result is recorded.
Transcribe(j) ==
  /\ place[j] = "working"
  /\ Goto(j, "finished")
  /\ UNCHANGED <<poolOf, pools, rows>>

\* (Mutant: a full channel drops the result.)
SendResultOrDrop(j) ==
  /\ place[j] = "finished"
  /\ IF Cardinality(At(poolOf[j], "buffered")) < ResultCap
       THEN Goto(j, "buffered")
       ELSE Goto(j, "dropped")
  /\ UNCHANGED <<poolOf, pools, rows>>

\* sendResult: the result of a pool that is being stopped may be dropped.
SendResult(j) ==
  /\ place[j] = "finished"
  /\ \/ Cardinality(At(poolOf[j], "buffered")) < ResultCap /\ Goto(j, "buffered")
     \/ life[poolOf[j]] = "cancelled" /\ Goto(j, "dropped")
  /\ UNCHANGED <<poolOf, pools, rows>>

\* A worker sees its context cancelled.  The last one out closes the
\* results.
Exit(p) ==
  /\ life[p] = "cancelled" /\ Free(p)
  /\ exited' = [exited EXCEPT ![p] = @ + 1]
  /\ UNCHANGED <<jobs, current, life, rows>>

\* (Mutant: the pump stops with its pool.)
PumpLiveOnly(j) ==
  /\ \/ /\ place[j] = "buffered" /\ life[poolOf[j]] = "running"
        /\ At(poolOf[j], "pumping") = {}
        /\ Goto(j, "pumping") /\ UNCHANGED poolOf
     \/ /\ place[j] = "pumping"
        /\ Cardinality({k \in Jobs : place[k] = "shared"}) < SharedCap
        /\ Goto(j, "shared") /\ Leave(j)
  /\ UNCHANGED <<pools, rows>>

\* pumpResults carries results, one at a time, from its pool to the shared
\* channel, until the pool's is closed and empty.
Pump(j) ==
  /\ \/ /\ place[j] = "buffered"
        /\ At(poolOf[j], "pumping") = {}
        /\ Goto(j, "pumping") /\ UNCHANGED poolOf
     \/ /\ place[j] = "pumping"
        /\ Cardinality({k \in Jobs : place[k] = "shared"}) < SharedCap
        /\ Goto(j, "shared") /\ Leave(j)
  /\ UNCHANGED <<pools, rows>>

-----------------------------------------------------------------------------
(* consumeTranscriptionResults, one result at a time.                      *)

Recorded(j, ending) ==
  rows' = IF rows[CallOf(j)] # "none" THEN [rows EXCEPT ![CallOf(j)] = ending] ELSE rows

\* Finished updates the call's row, if it has one and the update succeeds.
\* What follows a text (CreateTranscription, BroadcastTRN) touches nothing
\* here.
Record(j) ==
  /\ place[j] = "shared"
  /\ \/ Goto(j, "over") /\ (Recorded(j, "done") \/ Recorded(j, "failed"))
     \/ Goto(j, "lost") /\ UNCHANGED rows
  /\ UNCHANGED <<poolOf, pools>>

\* Old rows are pruned, but those of queued calls.
Prune(c) ==
  /\ rows[c] \notin {"none", "queued"}
  /\ rows' = [rows EXCEPT ![c] = "none"]
  /\ UNCHANGED <<jobs, pools>>

\* The call pruner deletes the call, and its row with it, whatever it says.
DeleteCall(c) ==
  /\ rows[c] # "none"
  /\ rows' = [rows EXCEPT ![c] = "none"]
  /\ UNCHANGED <<jobs, pools>>

-----------------------------------------------------------------------------
(* The manager and the process.                                            *)

Unborn(p) == p \in Pools /\ life[p] = "unborn"

\* Reload: the pool is stopped and, if transcription is on and the sidecar
\* answers, a new one takes its place.  What the old one holds stays with it.
Reload ==
  /\ LET stopped == [p \in Pools |-> IF p = current THEN "cancelled" ELSE life[p]] IN
       \/ current' = None /\ life' = stopped
       \/ \E p \in Pools :
            /\ Unborn(p)
            /\ current' = p
            /\ life' = [stopped EXCEPT ![p] = "running"]
  /\ UNCHANGED <<jobs, exited, rows>>

\* The process dies and main starts it again: what was in memory is gone,
\* and nothing looks for the calls still queued.
Restart ==
  /\ place' = [j \in Jobs |-> IF place[j] \in InHand THEN "lost" ELSE place[j]]
  /\ poolOf' = [j \in Jobs |-> IF place[j] \in InHand THEN None ELSE poolOf[j]]
  /\ exited' = [p \in Pools |-> IF Unborn(p) THEN 0 ELSE Workers]
  /\ LET gone == [p \in Pools |-> IF Unborn(p) THEN "unborn" ELSE "cancelled"] IN
       \/ current' = None /\ life' = gone
       \/ \E p \in Pools :
            /\ Unborn(p)
            /\ current' = p
            /\ life' = [gone EXCEPT ![p] = "running"]
  /\ UNCHANGED rows

Progress(j) == Send(j) \/ Take(j) \/ Transcribe(j) \/ SendResult(j) \/ Pump(j) \/ Record(j)

Next ==
  \/ \E j \in Jobs : Submit(j) \/ GiveUp(j) \/ Progress(j)
  \/ \E p \in Pools : Exit(p)
  \/ \E c \in Calls : Prune(c) \/ DeleteCall(c)
  \/ Reload \/ Restart

Spec == Init /\ [][Next]_vars

\* The goroutines run; the sidecar's answer is bounded by a timeout.
FairSpec ==
  /\ Spec
  /\ \A j \in Jobs : WF_vars(Progress(j))
  /\ \A p \in Pools : WF_vars(Exit(p))

-----------------------------------------------------------------------------
TypeOK ==
  /\ place \in [Jobs -> Places]
  /\ poolOf \in [Jobs -> Pools \union {None}]
  /\ current \in Pools \union {None}
  /\ life \in [Pools -> {"unborn", "running", "cancelled"}]
  /\ exited \in [Pools -> 0..Workers]
  /\ rows \in [Calls -> {"none", "queued", "skipped", "done", "failed"}]

\* Something is still to come of the job, or it is known why not: its
\* submitter gave up, its pool was replaced under it, the process died, or
\* the job history could not be written.
Accounted(j) ==
  \/ place[j] \in InHand
  \/ place[j] = "lost"
  \/ place[j] = "dropped" /\ life[poolOf[j]] = "cancelled"

\* A call the job history shows as queued has a job that is accounted for:
\* pools, pump and consumer lose nothing of their own accord.
QueuedIsAccounted ==
  \A c \in Calls : rows[c] = "queued" => \E j \in Jobs : CallOf(j) = c /\ Accounted(j)

\* There is never a second pool talking to the sidecar, and submitters are
\* never sent to one that is being stopped.
OnePoolRuns == \A p \in Pools : life[p] = "running" <=> current = p

Stopped(j) == poolOf[j] # None /\ life[poolOf[j]] = "cancelled"

\* Jobs are finished, unless their pool is stopped or their submitter gives
\* up: no full channel holds the others up for ever.
JobsFinish ==
  \A j \in Jobs :
    place[j] = "submitting" ~>
      place[j] \in {"over", "lost"} \/ Stopped(j)

\* A result the pool has put in its channel reaches the consumer, although
\* the pool be stopped meanwhile; it is lost only when the process restarts
\* or the job history cannot be written.
ResultsArrive == \A j \in Jobs : place[j] = "buffered" ~> place[j] \in {"over", "lost"}

\* A pool that was stopped goes away: its workers return, its results are
\* closed, and its pump ends.
PoolsEnd ==
  \A p \in Pools :
    life[p] = "cancelled" ~> (Closed(p) /\ At(p, "buffered") \union At(p, "pumping") = {})

\* Pool, pump and consumer never hold each other up for good: jobs are
\* finished, results arrive, and stopped pools go away.
JobsMoveOn == JobsFinish /\ ResultsArrive /\ PoolsEnd

-----------------------------------------------------------------------------
(* What makes the above inductive.                                         *)

PoolsAreBorn ==
  /\ \A j \in Jobs : poolOf[j] # None => life[poolOf[j]] # "unborn"
  /\ \A j \in Jobs : place[j] \in (InHand \ {"shared"}) \union {"dropped"} => poolOf[j] # None
  /\ \A p \in Pools : life[p] # "cancelled" => exited[p] = 0

DroppedIsStopped == \A j \in Jobs : place[j] = "dropped" => life[poolOf[j]] = "cancelled"

\* No job is lost silently, and no second pool runs: a call shown as queued has
\* a job in hand or one known to have been given up or dropped.
TranscriptionInv == TypeOK /\ OnePoolRuns /\ PoolsAreBorn /\ DroppedIsStopped /\ QueuedIsAccounted
=============================================================================
