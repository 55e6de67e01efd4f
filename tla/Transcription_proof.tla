------------------------- MODULE Transcription_proof --------------------------
(***************************************************************************)
(* What holds of transcription for every number of calls, jobs, pools and  *)
(* workers and every capacity of the channels.                             *)
(***************************************************************************)
EXTENDS Transcription, FiniteSetTheorems, TLAPS

USE DEF jobs, pools, None

\* A job that moves along within its pool stays accounted for, and so does
\* everything else.
LEMMA Moved ==
  ASSUME TranscriptionInv, NEW j \in Jobs, NEW where \in InHand \ {"shared"}, Goto(j, where),
         place[j] \in InHand \ {"shared"}, UNCHANGED <<poolOf, pools, rows>>
  PROVE  TranscriptionInv'
<1> USE DEF TranscriptionInv
<1>1. TypeOK'
  BY DEF TypeOK, Goto, Places
<1>2. \A k \in Jobs : place'[k] = IF k = j THEN where ELSE place[k]
  BY DEF TypeOK, Goto
<1>3. OnePoolRuns' /\ PoolsAreBorn'
  BY <1>2 DEF OnePoolRuns, PoolsAreBorn, InHand
<1>4. DroppedIsStopped' /\ QueuedIsAccounted'
  BY <1>2 DEF DroppedIsStopped, QueuedIsAccounted, Accounted, InHand
<1> QED BY <1>1, <1>3, <1>4

\* A job that leaves its pool, to a place it is accounted for at.
LEMMA Left ==
  ASSUME TranscriptionInv, NEW j \in Jobs, NEW where \in {"lost", "shared"}, Goto(j, where),
         Leave(j), UNCHANGED <<pools, rows>>
  PROVE  TranscriptionInv'
<1> USE DEF TranscriptionInv
<1>1. TypeOK'
  BY DEF TypeOK, Goto, Leave, Places, InHand
<1>2. \A k \in Jobs : /\ place'[k] = IF k = j THEN where ELSE place[k]
                      /\ poolOf'[k] = IF k = j THEN None ELSE poolOf[k]
  BY DEF TypeOK, Goto, Leave
<1>3. OnePoolRuns' /\ PoolsAreBorn'
  BY <1>2 DEF OnePoolRuns, PoolsAreBorn, InHand
<1>4. DroppedIsStopped' /\ QueuedIsAccounted'
  BY <1>2 DEF DroppedIsStopped, QueuedIsAccounted, Accounted, InHand
<1> QED BY <1>1, <1>3, <1>4

LEMMA InitInv == Init => TranscriptionInv
<1> SUFFICES ASSUME Init PROVE TranscriptionInv
  OBVIOUS
<1>1. MaxPools \in Nat \ {0} /\ Workers \in Nat \ {0}
  BY TranscriptionAssumption DEF TranscriptionAssumption
<1>2. TypeOK
  BY <1>1 DEF Init, TypeOK, Places, Pools
<1>3. OnePoolRuns /\ PoolsAreBorn /\ DroppedIsStopped /\ QueuedIsAccounted
  BY <1>1 DEF Init, OnePoolRuns, PoolsAreBorn, DroppedIsStopped, QueuedIsAccounted, InHand, Pools
<1> QED BY <1>2, <1>3 DEF TranscriptionInv

LEMMA SubmitInv ==
  ASSUME TranscriptionInv, NEW j \in Jobs, Submit(j)
  PROVE  TranscriptionInv'
<1> USE DEF TranscriptionInv
<1> DEFINE c == CallOf(j)
<1>1. c \in Calls /\ current \in Pools \union {None}
  BY TranscriptionAssumption DEF TranscriptionAssumption, TypeOK
<1>2. PICK where \in {"over", "submitting"} :
        /\ Goto(j, where)
        /\ where = "submitting" => current # None
        /\ \/ rows' = rows
           \/ rows' = [rows EXCEPT ![c] = "skipped"]
           \/ where = "submitting" /\ rows' = [rows EXCEPT ![c] = "queued"]
  BY DEF Submit
<1>3. place[j] = "new" /\ poolOf' = [poolOf EXCEPT ![j] = current] /\ UNCHANGED pools
  BY DEF Submit
<1>4. \A k \in Jobs : /\ place'[k] = IF k = j THEN where ELSE place[k]
                      /\ poolOf'[k] = IF k = j THEN current ELSE poolOf[k]
  BY <1>2, <1>3 DEF TypeOK, Goto
<1>5. TypeOK'
  BY <1>1, <1>2, <1>3 DEF TypeOK, Goto, Places, InHand
<1>6. OnePoolRuns' /\ PoolsAreBorn' /\ DroppedIsStopped'
  <2>1. current # None => life[current] = "running"
    BY <1>1 DEF OnePoolRuns
  <2> QED BY <1>2, <1>3, <1>4, <2>1 DEF OnePoolRuns, PoolsAreBorn, DroppedIsStopped, InHand
<1>7. QueuedIsAccounted'
  <2>1. \A k \in Jobs : Accounted(k) => Accounted(k)'
    BY <1>3, <1>4 DEF Accounted, InHand
  <2>2. where = "submitting" => Accounted(j)'
    BY <1>4 DEF Accounted, InHand
  <2>3. \A d \in Calls : d # c => rows'[d] = rows[d]
    BY <1>1, <1>2 DEF TypeOK
  <2>4. rows'[c] = "queued" => rows[c] = "queued" \/ where = "submitting"
    BY <1>1, <1>2 DEF TypeOK
  <2> QED BY <2>1, <2>2, <2>3, <2>4 DEF QueuedIsAccounted
<1> QED BY <1>5, <1>6, <1>7

LEMMA SendResultInv ==
  ASSUME TranscriptionInv, NEW j \in Jobs, SendResult(j)
  PROVE  TranscriptionInv'
<1> USE DEF TranscriptionInv
<1>1. CASE Goto(j, "buffered")
  BY <1>1, Moved DEF SendResult, InHand
<1>2. CASE life[poolOf[j]] = "cancelled" /\ Goto(j, "dropped")
  <2>1. \A k \in Jobs : place'[k] = IF k = j THEN "dropped" ELSE place[k]
    BY <1>2 DEF TypeOK, Goto
  <2>2. place[j] = "finished" /\ UNCHANGED <<poolOf, pools, rows>>
    BY DEF SendResult
  <2>3. TypeOK'
    BY <1>2, <2>2 DEF TypeOK, Goto, Places
  <2>4. OnePoolRuns' /\ PoolsAreBorn' /\ DroppedIsStopped'
    BY <1>2, <2>1, <2>2 DEF OnePoolRuns, PoolsAreBorn, DroppedIsStopped, InHand
  <2>5. QueuedIsAccounted'
    BY <1>2, <2>1, <2>2 DEF QueuedIsAccounted, Accounted
  <2> QED BY <2>3, <2>4, <2>5
<1> QED BY <1>1, <1>2 DEF SendResult

LEMMA RecordInv ==
  ASSUME TranscriptionInv, NEW j \in Jobs, Record(j)
  PROVE  TranscriptionInv'
<1> USE DEF TranscriptionInv
<1> DEFINE c == CallOf(j)
<1>1. c \in Calls
  BY TranscriptionAssumption DEF TranscriptionAssumption
<1>2. PICK where \in {"over", "lost"} :
        /\ Goto(j, where)
        /\ where = "over" => Recorded(j, "done") \/ Recorded(j, "failed")
        /\ where = "lost" => rows' = rows
  BY DEF Record
<1>3. place[j] = "shared" /\ UNCHANGED <<poolOf, pools>>
  BY DEF Record
<1>4. \A k \in Jobs : place'[k] = IF k = j THEN where ELSE place[k]
  BY <1>2 DEF TypeOK, Goto
<1>5. /\ \A d \in Calls : d # c => rows'[d] = rows[d]
      /\ where = "over" => rows'[c] # "queued"
      /\ rows' \in [Calls -> {"none", "queued", "skipped", "done", "failed"}]
  BY <1>1, <1>2 DEF TypeOK, Recorded
<1>6. TypeOK'
  BY <1>2, <1>3, <1>5 DEF TypeOK, Goto, Places
<1>7. OnePoolRuns' /\ PoolsAreBorn' /\ DroppedIsStopped'
  BY <1>3, <1>4 DEF OnePoolRuns, PoolsAreBorn, DroppedIsStopped, InHand
<1>8. QueuedIsAccounted'
  <2>1. \A k \in Jobs : k # j /\ Accounted(k) => Accounted(k)'
    BY <1>3, <1>4 DEF Accounted
  <2>2. where = "lost" => Accounted(j)' /\ rows' = rows
    BY <1>2, <1>4 DEF Accounted
  <2> QED BY <1>5, <2>1, <2>2 DEF QueuedIsAccounted
<1> QED BY <1>6, <1>7, <1>8

LEMMA PruneInv ==
  ASSUME TranscriptionInv, NEW c \in Calls, Prune(c) \/ DeleteCall(c)
  PROVE  TranscriptionInv'
<1> USE DEF TranscriptionInv
<1>1. \A d \in Calls : rows'[d] = "queued" => rows[d] = "queued"
  BY DEF Prune, DeleteCall, TypeOK
<1>2. UNCHANGED <<jobs, pools>>
  BY DEF Prune, DeleteCall
<1>3. TypeOK'
  BY <1>2 DEF Prune, DeleteCall, TypeOK
<1> QED BY <1>1, <1>2, <1>3
        DEF OnePoolRuns, PoolsAreBorn, DroppedIsStopped, QueuedIsAccounted, Accounted

\* What Reload and Restart do to the pools.
LEMMA PoolsChange ==
  ASSUME TranscriptionInv, NEW stopped \in [Pools -> {"unborn", "running", "cancelled"}],
         \A p \in Pools : (stopped[p] = "unborn" <=> life[p] = "unborn") /\ stopped[p] # "running",
         \A p \in Pools : life[p] = "cancelled" => stopped[p] = "cancelled",
         \/ current' = None /\ life' = stopped
         \/ \E p \in Pools : Unborn(p) /\ current' = p /\ life' = [stopped EXCEPT ![p] = "running"]
  PROVE  /\ current' \in Pools \union {None}
         /\ life' \in [Pools -> {"unborn", "running", "cancelled"}]
         /\ OnePoolRuns'
         /\ \A p \in Pools : life[p] = "cancelled" => life'[p] = "cancelled"
         /\ \A p \in Pools : life[p] # "unborn" => life'[p] # "unborn"
         /\ \A p \in Pools : life'[p] # "cancelled" => life[p] = "unborn"
<1> USE DEF TranscriptionInv
<1>0. 0 \notin Pools
  BY DEF Pools
<1>1. CASE current' = None /\ life' = stopped
  BY <1>0, <1>1 DEF OnePoolRuns, TypeOK
<1>2. CASE \E p \in Pools : Unborn(p) /\ current' = p /\ life' = [stopped EXCEPT ![p] = "running"]
  <2>1. PICK p \in Pools : Unborn(p) /\ current' = p /\ life' = [stopped EXCEPT ![p] = "running"]
    BY <1>2
  <2>2. life[p] = "unborn" /\ \A q \in Pools : life'[q] = IF q = p THEN "running" ELSE stopped[q]
    BY <2>1 DEF Unborn
  <2> QED BY <1>0, <2>1, <2>2 DEF OnePoolRuns, TypeOK
<1> QED BY <1>1, <1>2

\* A dropped job was dropped by a pool.
LEMMA DroppedIsInPool ==
  ASSUME TranscriptionInv, NEW j \in Jobs, place[j] = "dropped"
  PROVE  poolOf[j] \in Pools
BY DEF TranscriptionInv, TypeOK, PoolsAreBorn

\* A free worker has not returned.
LEMMA FreeIsFree ==
  ASSUME TypeOK, NEW p \in Pools, Free(p)
  PROVE  exited[p] + 1 \in 0..Workers
<1>1. IsFiniteSet(Jobs) /\ Workers \in Nat
  BY TranscriptionAssumption DEF TranscriptionAssumption
<1>2. At(p, "working") \union At(p, "finished") \subseteq Jobs
  BY DEF At
<1>3. Busy(p) \in Nat
  BY <1>1, <1>2, FS_Subset, FS_CardinalityType DEF Busy
<1>4. exited[p] \in 0..Workers
  BY DEF TypeOK
<1> QED BY <1>1, <1>3, <1>4 DEF Free

LEMMA ExitInv ==
  ASSUME TranscriptionInv, NEW p \in Pools, Exit(p)
  PROVE  TranscriptionInv'
<1> USE DEF TranscriptionInv
<1>1. exited' = [exited EXCEPT ![p] = @ + 1] /\ life[p] = "cancelled" /\ UNCHANGED <<jobs, current, life, rows>>
  BY DEF Exit
<1>2. exited'[p] \in 0..Workers
  BY <1>1, FreeIsFree DEF Exit, TypeOK
<1>3. TypeOK'
  BY <1>1, <1>2 DEF TypeOK
<1>4. OnePoolRuns' /\ PoolsAreBorn' /\ DroppedIsStopped' /\ QueuedIsAccounted'
  BY <1>1 DEF TypeOK, OnePoolRuns, PoolsAreBorn, DroppedIsStopped, QueuedIsAccounted, Accounted
<1> QED BY <1>3, <1>4

LEMMA ReloadInv ==
  ASSUME TranscriptionInv, Reload
  PROVE  TranscriptionInv'
<1> USE DEF TranscriptionInv
<1> DEFINE stopped == [p \in Pools |-> IF p = current THEN "cancelled" ELSE life[p]]
<1>1. /\ \/ current' = None /\ life' = stopped
         \/ \E p \in Pools : Unborn(p) /\ current' = p /\ life' = [stopped EXCEPT ![p] = "running"]
      /\ UNCHANGED <<jobs, exited, rows>>
  BY DEF Reload
<1>2. /\ stopped \in [Pools -> {"unborn", "running", "cancelled"}]
      /\ \A p \in Pools : (stopped[p] = "unborn" <=> life[p] = "unborn") /\ stopped[p] # "running"
      /\ \A p \in Pools : life[p] = "cancelled" => stopped[p] = "cancelled"
  BY DEF TypeOK, OnePoolRuns
<1> HIDE DEF stopped
<1>3. /\ current' \in Pools \union {None}
      /\ life' \in [Pools -> {"unborn", "running", "cancelled"}]
      /\ OnePoolRuns'
      /\ \A p \in Pools : life[p] = "cancelled" => life'[p] = "cancelled"
      /\ \A p \in Pools : life[p] # "unborn" => life'[p] # "unborn"
      /\ \A p \in Pools : life'[p] # "cancelled" => life[p] = "unborn"
  BY <1>1, <1>2, PoolsChange
<1>4. TypeOK'
  BY <1>1, <1>3 DEF TypeOK
<1>5. PoolsAreBorn' /\ DroppedIsStopped' /\ QueuedIsAccounted'
  <2>1. \A j \in Jobs : poolOf[j] = None \/ poolOf[j] \in Pools
    BY DEF TypeOK
  <2>2. \A j \in Jobs : place[j] = "dropped" => life'[poolOf[j]] = "cancelled"
    BY <1>3, <2>1, DroppedIsInPool DEF DroppedIsStopped
  <2>3. PoolsAreBorn'
    BY <1>1, <1>3, <2>1 DEF PoolsAreBorn
  <2> QED BY <1>1, <2>2, <2>3 DEF DroppedIsStopped, QueuedIsAccounted, Accounted
<1> QED BY <1>3, <1>4, <1>5

LEMMA RestartInv ==
  ASSUME TranscriptionInv, Restart
  PROVE  TranscriptionInv'
<1> USE DEF TranscriptionInv
<1> DEFINE gone == [p \in Pools |-> IF Unborn(p) THEN "unborn" ELSE "cancelled"]
<1>1. /\ \/ current' = None /\ life' = gone
         \/ \E p \in Pools : Unborn(p) /\ current' = p /\ life' = [gone EXCEPT ![p] = "running"]
      /\ place' = [j \in Jobs |-> IF place[j] \in InHand THEN "lost" ELSE place[j]]
      /\ poolOf' = [j \in Jobs |-> IF place[j] \in InHand THEN None ELSE poolOf[j]]
      /\ exited' = [p \in Pools |-> IF Unborn(p) THEN 0 ELSE Workers]
      /\ UNCHANGED rows
  BY DEF Restart
<1>2. /\ gone \in [Pools -> {"unborn", "running", "cancelled"}]
      /\ \A p \in Pools : (gone[p] = "unborn" <=> life[p] = "unborn") /\ gone[p] # "running"
      /\ \A p \in Pools : life[p] = "cancelled" => gone[p] = "cancelled"
  BY DEF TypeOK, Unborn
<1> HIDE DEF gone
<1>3. /\ current' \in Pools \union {None}
      /\ life' \in [Pools -> {"unborn", "running", "cancelled"}]
      /\ OnePoolRuns'
      /\ \A p \in Pools : life[p] = "cancelled" => life'[p] = "cancelled"
      /\ \A p \in Pools : life[p] # "unborn" => life'[p] # "unborn"
      /\ \A p \in Pools : life'[p] # "cancelled" => life[p] = "unborn"
  BY <1>1, <1>2, PoolsChange DEF TypeOK
<1>4. TypeOK'
  BY <1>1, <1>3, TranscriptionAssumption DEF TypeOK, Places, TranscriptionAssumption
<1>5. PoolsAreBorn' /\ DroppedIsStopped' /\ QueuedIsAccounted'
  <2>1. \A j \in Jobs : poolOf[j] = None \/ poolOf[j] \in Pools
    BY DEF TypeOK
  <2>2. \A j \in Jobs : place'[j] = "dropped" =>
           place[j] = "dropped" /\ poolOf'[j] = poolOf[j] /\ life'[poolOf[j]] = "cancelled"
    BY <1>1, <1>3, <2>1, DroppedIsInPool DEF DroppedIsStopped, InHand
  <2>3. PoolsAreBorn'
    BY <1>1, <1>3, <2>1 DEF PoolsAreBorn, InHand, Unborn
  <2>4. \A j \in Jobs : Accounted(j) => Accounted(j)'
    BY <1>1, <2>2 DEF Accounted, InHand
  <2> QED BY <1>1, <2>2, <2>3, <2>4 DEF DroppedIsStopped, QueuedIsAccounted
<1> QED BY <1>3, <1>4, <1>5

LEMMA InvStep == TranscriptionInv /\ [Next]_vars => TranscriptionInv'
<1> SUFFICES ASSUME TranscriptionInv, [Next]_vars PROVE TranscriptionInv'
  OBVIOUS
<1>1. ASSUME NEW j \in Jobs, Submit(j) \/ SendResult(j) \/ Record(j) PROVE TranscriptionInv'
  BY <1>1, SubmitInv, SendResultInv, RecordInv
<1>2. ASSUME NEW j \in Jobs, GiveUp(j) PROVE TranscriptionInv'
  BY <1>2, Left DEF GiveUp
<1>3. ASSUME NEW j \in Jobs, Send(j) \/ Take(j) \/ Transcribe(j) PROVE TranscriptionInv'
  BY <1>3, Moved DEF Send, Take, Transcribe, InHand
<1>4. ASSUME NEW j \in Jobs, Pump(j) PROVE TranscriptionInv'
  BY <1>4, Moved, Left DEF Pump, InHand
<1>5. ASSUME NEW p \in Pools, Exit(p) PROVE TranscriptionInv'
  BY <1>5, ExitInv
<1>6. ASSUME NEW c \in Calls, Prune(c) \/ DeleteCall(c) PROVE TranscriptionInv'
  BY <1>6, PruneInv
<1>7. CASE Reload \/ Restart
  BY <1>7, ReloadInv, RestartInv
<1>8. CASE UNCHANGED vars
  BY <1>8 DEF vars, TranscriptionInv, TypeOK, OnePoolRuns, PoolsAreBorn, DroppedIsStopped,
              QueuedIsAccounted, Accounted
<1> QED BY <1>1, <1>2, <1>3, <1>4, <1>5, <1>6, <1>7, <1>8 DEF Next, Progress

\* A call shown as queued in the job history has a job that is in hand, or
\* was given up, replaced, unrecorded or lost with the process; and there is
\* one running pool, the manager's: for any number of jobs, pools, workers,
\* reloads and restarts (transcriber_manager.go, transcriber.go, main.go).
THEOREM TranscriptionSafety == Spec => []TranscriptionInv
BY InitInv, InvStep, PTL DEF Spec
=============================================================================
