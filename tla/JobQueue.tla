------------------------------ MODULE JobQueue ------------------------------
(***************************************************************************)
(* orchestrator/jobs.py: the single-flight slot of the one analysis VM,    *)
(* the FIFO queue of analysis jobs, the job records, and the stale-job     *)
(* watchdog.  Every `with _lock:` block is one step and so is every thread *)
(* start, run or return between two such blocks; threads interleave freely.*)
(*                                                                         *)
(* A job is a fresh uuid, so each is submitted at most once.  Harness and  *)
(* guardian jobs have the same control and are both "script jobs".  The    *)
(* synchronous /api/analyze takes the slot without a job record.           *)
(* _queue_specs always has exactly the ids of _queue (both change in the   *)
(* same critical sections) and is not a variable of its own.               *)
(*                                                                         *)
(* An operator whose name has a suffix after "_" is a seeded fault: it is  *)
(* not part of the model, and shows that a property can fail.              *)
(***************************************************************************)
EXTENDS Integers, Sequences, FiniteSets

CONSTANTS AnalysisJobs,      \* POST /api/jobs: queued when the VM is busy
          ScriptJobs,        \* harness and guardian jobs: rejected when busy
          SyncJobs,          \* POST /api/analyze: rejected when busy, no record
          None,              \* Python's None
          MaxRetained,       \* MAX_RETAINED_JOBS
          ThreadStartMayFail \* can threading.Thread.start() raise?

Jobs == AnalysisJobs \cup ScriptJobs \cup SyncJobs

ASSUME JobsAssumption ==
  /\ IsFiniteSet(Jobs)
  /\ AnalysisJobs \cap ScriptJobs = {}
  /\ SyncJobs \cap (AnalysisJobs \cup ScriptJobs) = {}
  /\ None \notin Jobs
  /\ MaxRetained \in Nat
  /\ ThreadStartMayFail \in BOOLEAN

VARIABLES active,    \* _active_job_id
          queue,     \* _queue
          status,    \* the records' "status"; "absent": not (or no longer) in _jobs
          born,      \* position of a record in the insertion order of _jobs, 0 before
          phase,     \* where the job's submitter, thread or releaser has got to
          stale,     \* jobs whose run is older than STALE_JOB_MAX_SECONDS
          watchdog,  \* where the watchdog thread has got to
          reaping,   \* the job_id _reap_stale_job has read, or None
          admitted,  \* history: jobs that claimed the slot or were queued, in order
          served     \* history: jobs that were given the slot, in order

vars == <<active, queue, status, born, phase, stale, watchdog, reaping,
          admitted, served>>

Terminal == {"completed", "failed"}
Statuses == Terminal \cup {"absent", "queued", "running"}

(***************************************************************************)
(* new: not submitted.  ensuring: its submitter starts the watchdog.       *)
(* rejected: 409 or an exception, nothing left behind.  acquired: slot     *)
(* taken, record not yet made.  recorded: record made, slot not yet tried. *)
(* waiting: in _queue.  starting / handoff: owns the slot, its thread is   *)
(* about to be started by the submitter / by release().  orphaned: the     *)
(* submitter's thread.start() raised.  launched, running, driving: in the  *)
(* job's thread, before "running" is recorded, before and after the        *)
(* executor exists.  died: the executor's constructor raised, outside the  *)
(* try.  releasing: about to call release().  done: released.              *)
(***************************************************************************)
Phases == {"new", "ensuring", "rejected", "acquired", "recorded", "waiting",
           "starting", "handoff", "orphaned", "launched", "running", "driving",
           "died", "releasing", "done"}

Init ==
  /\ active = None
  /\ queue = <<>>
  /\ status = [j \in Jobs |-> "absent"]
  /\ born = [j \in Jobs |-> 0]
  /\ phase = [j \in Jobs |-> "new"]
  /\ stale = {}
  /\ watchdog = "off"
  /\ reaping = None
  /\ admitted = <<>>
  /\ served = <<>>

Move(j, p) == phase' = [phase EXCEPT ![j] = p]

(* update_job: a record that was evicted meanwhile is left alone. *)
UpdateStatus(j, s) ==
  status' = IF status[j] = "absent" THEN status ELSE [status EXCEPT ![j] = s]

-----------------------------------------------------------------------------
(* Submission.  _ensure_watchdog sets its flag under the lock and starts   *)
(* the thread after it; a failed start reaches the caller and the flag     *)
(* stays set, so no later submission tries again.                          *)

EnsureWatchdog(j) ==
  /\ phase[j] = "new" /\ watchdog = "off"
  /\ watchdog' = "starting"
  /\ Move(j, "ensuring")
  /\ UNCHANGED <<active, queue, status, born, stale, reaping, admitted, served>>

WatchdogStarts(j) ==
  /\ phase[j] = "ensuring"
  /\ watchdog' = "scan"
  /\ Move(j, "new")
  /\ UNCHANGED <<active, queue, status, born, stale, reaping, admitted, served>>

WatchdogStartFails(j) ==
  /\ ThreadStartMayFail
  /\ phase[j] = "ensuring"
  /\ watchdog' = "lost"
  /\ Move(j, "rejected")
  /\ UNCHANGED <<active, queue, status, born, stale, reaping, admitted, served>>

(* _evict_finished_locked: while more than MaxRetained records, drop the   *)
(* oldest completed or failed one.                                         *)
EvictFinished_AnyStatus(st, age) ==
  LET kept == {j \in Jobs : st[j] # "absent"}
      excess == Cardinality(kept) - MaxRetained
      Older(j) == Cardinality({k \in kept : age[k] <= age[j]})
  IN  [j \in Jobs |->
         IF j \in kept /\ Older(j) <= excess THEN "absent" ELSE st[j]]

EvictFinished(st, age) ==
  LET finished == {j \in Jobs : st[j] \in Terminal}
      excess == Cardinality({j \in Jobs : st[j] # "absent"}) - MaxRetained
      Older(j) == Cardinality({k \in finished : age[k] <= age[j]})
  IN  [j \in Jobs |->
         IF j \in finished /\ Older(j) <= excess THEN "absent" ELSE st[j]]

(* _create_job_record: insert and evict in one critical section.  An       *)
(* analysis job does this first, a script job once it has the slot.        *)
CreateRecord(j) ==
  /\ \/ /\ j \in AnalysisJobs
        /\ phase[j] = "new" /\ watchdog # "off"
        /\ Move(j, "recorded")
     \/ /\ j \in ScriptJobs
        /\ phase[j] = "acquired"
        /\ Move(j, "starting")
  /\ born' = [born EXCEPT ![j] = 1 + Cardinality({k \in Jobs : born[k] # 0})]
  /\ status' = EvictFinished([status EXCEPT ![j] = "queued"], born')
  /\ UNCHANGED <<active, queue, stale, watchdog, reaping, admitted, served>>

(* submit_analysis_job: claim the slot or join the queue, atomically. *)
ClaimOrEnqueue(j) ==
  /\ phase[j] = "recorded"
  /\ admitted' = Append(admitted, j)
  /\ \/ /\ active = None
        /\ active' = j
        /\ served' = Append(served, j)
        /\ Move(j, "starting")
        /\ UNCHANGED queue
     \/ /\ active # None
        /\ queue' = Append(queue, j)
        /\ Move(j, "waiting")
        /\ UNCHANGED <<active, served>>
  /\ UNCHANGED <<status, born, stale, watchdog, reaping>>

(* try_acquire, for the callers that do not queue. *)
TryAcquire(j) ==
  /\ j \notin AnalysisJobs
  /\ phase[j] = "new" /\ watchdog # "off"
  /\ active = None
  /\ active' = j
  /\ admitted' = Append(admitted, j)
  /\ served' = Append(served, j)
  /\ Move(j, IF j \in SyncJobs THEN "driving" ELSE "acquired")
  /\ UNCHANGED <<queue, status, born, stale, watchdog, reaping>>

RejectBusy(j) ==
  /\ j \notin AnalysisJobs
  /\ phase[j] = "new" /\ watchdog # "off"
  /\ active # None
  /\ Move(j, "rejected")
  /\ UNCHANGED <<active, queue, status, born, stale, watchdog, reaping,
                 admitted, served>>

(* thread.start() in a submitter has no handler: when it raises, nobody is *)
(* left to release the slot.                                               *)
StartThread(j) ==
  /\ phase[j] \in {"starting", "handoff"}
  /\ Move(j, "launched")
  /\ UNCHANGED <<active, queue, status, born, stale, watchdog, reaping,
                 admitted, served>>

SubmitterStartFails(j) ==
  /\ ThreadStartMayFail
  /\ phase[j] = "starting"
  /\ Move(j, "orphaned")
  /\ UNCHANGED <<active, queue, status, born, stale, watchdog, reaping,
                 admitted, served>>

(* The same failure inside release(): the job is failed, then released. *)
HandOffFails_NoRelease(j) ==
  /\ ThreadStartMayFail
  /\ phase[j] = "handoff"
  /\ UpdateStatus(j, "failed")
  /\ Move(j, "died")
  /\ UNCHANGED <<active, queue, born, stale, watchdog, reaping, admitted, served>>

HandOffFails(j) ==
  /\ ThreadStartMayFail
  /\ phase[j] = "handoff"
  /\ UpdateStatus(j, "failed")
  /\ Move(j, "releasing")
  /\ UNCHANGED <<active, queue, born, stale, watchdog, reaping, admitted, served>>

-----------------------------------------------------------------------------
(* The job's own thread. *)

MarkRunning(j) ==
  /\ phase[j] = "launched"
  /\ UpdateStatus(j, "running")
  /\ Move(j, IF j \in AnalysisJobs THEN "running" ELSE "driving")
  /\ UNCHANGED <<active, queue, born, stale, watchdog, reaping, admitted, served>>

(* SandboxExecutor(config) runs before the try: if it raises, the thread   *)
(* ends without releasing.                                                 *)
ConstructExecutor(j) ==
  /\ phase[j] = "running"
  /\ Move(j, "driving") \/ Move(j, "died")
  /\ UNCHANGED <<active, queue, status, born, stale, watchdog, reaping,
                 admitted, served>>

(* The run returns or raises, and its outcome is recorded. *)
FinishRun(j) ==
  /\ phase[j] = "driving"
  /\ \E outcome \in Terminal : UpdateStatus(j, outcome)
  /\ Move(j, "releasing")
  /\ UNCHANGED <<active, queue, born, stale, watchdog, reaping, admitted, served>>

(* release(j): only the owner frees the slot, and it goes straight to the  *)
(* head of the queue.  ph is phase after the caller's own move.            *)
FreeSlot_NotOwner(j, ph) ==
  IF queue = <<>>
    THEN /\ active' = None
         /\ phase' = ph
         /\ UNCHANGED <<queue, served>>
    ELSE /\ active' = Head(queue)
         /\ queue' = Tail(queue)
         /\ served' = Append(served, Head(queue))
         /\ phase' = [ph EXCEPT ![Head(queue)] = "handoff"]

FreeSlot_Gap(j, ph) ==
  /\ active' = IF active = j THEN None ELSE active
  /\ phase' = ph
  /\ UNCHANGED <<queue, served>>

FreeSlot(j, ph) ==
  IF active # j \/ queue = <<>>
    THEN /\ active' = IF active = j THEN None ELSE active
         /\ phase' = ph
         /\ UNCHANGED <<queue, served>>
    ELSE /\ active' = Head(queue)
         /\ queue' = Tail(queue)
         /\ served' = Append(served, Head(queue))
         /\ phase' = [ph EXCEPT ![Head(queue)] = "handoff"]

Release(j) ==
  /\ phase[j] = "releasing"
  /\ FreeSlot(j, [phase EXCEPT ![j] = "done"])
  /\ UNCHANGED <<status, born, stale, watchdog, reaping, admitted>>

-----------------------------------------------------------------------------
(* The clock and the watchdog. *)

TimePasses(j) ==
  /\ j \notin stale
  /\ status[j] = "running" \/ (j \in SyncJobs /\ phase[j] = "driving")
  /\ stale' = stale \cup {j}
  /\ UNCHANGED <<active, queue, status, born, phase, watchdog, reaping,
                 admitted, served>>

(* _reap_stale_job: three critical sections -- decide, fail, release. *)
ReapDecide_NoAge ==
  /\ watchdog = "scan"
  /\ active # None /\ status[active] = "running"
  /\ reaping' = active
  /\ watchdog' = "fail"
  /\ UNCHANGED <<active, queue, status, born, phase, stale, admitted, served>>

ReapDecide ==
  /\ watchdog = "scan"
  /\ active # None /\ status[active] = "running" /\ active \in stale
  /\ reaping' = active
  /\ watchdog' = "fail"
  /\ UNCHANGED <<active, queue, status, born, phase, stale, admitted, served>>

ReapFail ==
  /\ watchdog = "fail"
  /\ UpdateStatus(reaping, "failed")
  /\ watchdog' = "release"
  /\ UNCHANGED <<active, queue, born, phase, stale, reaping, admitted, served>>

ReapRelease_Forgotten ==
  /\ watchdog = "release"
  /\ watchdog' = "scan"
  /\ reaping' = None
  /\ UNCHANGED <<active, queue, status, born, phase, stale, admitted, served>>

ReapRelease ==
  /\ watchdog = "release"
  /\ FreeSlot(reaping, phase)
  /\ watchdog' = "scan"
  /\ reaping' = None
  /\ UNCHANGED <<status, born, stale, admitted>>

-----------------------------------------------------------------------------
(* What a thread does by itself once it has been let run. *)
Progress(j) ==
  \/ WatchdogStarts(j) \/ WatchdogStartFails(j)
  \/ CreateRecord(j) /\ phase[j] # "new"
  \/ ClaimOrEnqueue(j)
  \/ StartThread(j) \/ SubmitterStartFails(j) \/ HandOffFails(j)
  \/ MarkRunning(j) \/ ConstructExecutor(j) \/ Release(j)

Watchdog == ReapDecide \/ ReapFail \/ ReapRelease

Next ==
  \/ \E j \in Jobs :
       \/ EnsureWatchdog(j) \/ WatchdogStarts(j) \/ WatchdogStartFails(j)
       \/ CreateRecord(j) \/ ClaimOrEnqueue(j)
       \/ TryAcquire(j) \/ RejectBusy(j)
       \/ StartThread(j) \/ SubmitterStartFails(j) \/ HandOffFails(j)
       \/ MarkRunning(j) \/ ConstructExecutor(j) \/ FinishRun(j) \/ Release(j)
       \/ TimePasses(j)
  \/ ReapDecide \/ ReapFail \/ ReapRelease

Spec == Init /\ [][Next]_vars

(* The operating system runs every runnable thread, the clock advances and *)
(* the watchdog's loop never ends.  Nothing makes a client submit, and     *)
(* nothing makes a run return: a run may hang for ever.                    *)
Fairness ==
  /\ \A j \in Jobs : WF_vars(Progress(j)) /\ WF_vars(TimePasses(j))
  /\ WF_vars(Watchdog)

FairSpec == Spec /\ Fairness

-----------------------------------------------------------------------------
TypeOK ==
  /\ active \in Jobs \cup {None}
  /\ queue \in Seq(AnalysisJobs)
  /\ status \in [Jobs -> Statuses]
  /\ born \in [Jobs -> Nat]
  /\ phase \in [Jobs -> Phases]
  /\ stale \in SUBSET Jobs
  /\ watchdog \in {"off", "starting", "scan", "fail", "release", "lost"}
  /\ reaping \in Jobs \cup {None}
  /\ watchdog \in {"fail", "release"} => reaping # None
  /\ admitted \in Seq(Jobs)
  /\ served \in Seq(Jobs)

(* Strict FIFO with no overtaking: whoever was admitted has been served or *)
(* still waits, in exactly the order of admission, and the slot is not     *)
(* free while somebody waits (submit_analysis_job, release).               *)
FifoService ==
  /\ admitted = served \o queue
  /\ queue # <<>> => active # None

(* The phases in which a job must own the slot. *)
OwnerPhases == {"acquired", "starting", "handoff", "orphaned", "launched",
                "running", "driving", "died"}

(* The slot is lost only to the watchdog: a job that has got it and has    *)
(* not handed it back is its owner unless its run is over-age.  Hence at   *)
(* most one run that is not over-age drives the VM, and a reaped job's     *)
(* late release() takes nothing from its successor.                        *)
OnlyStaleJobsLoseTheSlot ==
  \A j \in Jobs : phase[j] \in OwnerPhases => active = j \/ j \in stale

(* What a poller of GET /api/jobs/{id} sees is true: a waiting job's       *)
(* record exists and says queued, and a job at work says running, unless   *)
(* it is over-age.  No batch of submissions evicts a live job's record.    *)
PollIsTruthful ==
  \A j \in Jobs :
    /\ phase[j] \in {"recorded", "waiting"} => status[j] = "queued"
    /\ phase[j] \in {"running", "driving"} /\ j \notin SyncJobs
         => status[j] = "running" \/ j \in stale

(* A final status changes again only for an over-age job (its late thread  *)
(* and the watchdog both write it), or by eviction of the record.          *)
FinalStatusIsFinal ==
  [][\A j \in Jobs : status[j] \in Terminal /\ status'[j] # status[j]
       => status'[j] = "absent" \/ j \in stale]_vars

(* The queue implements the abstract server. *)
Server == INSTANCE FifoServer WITH Clients <- Jobs, serving <- active
ImplementsFifoServer == Server!Spec

InQueue(j) == \E i \in DOMAIN queue : queue[i] = j

(* The ways in which the slot can be stuck for ever: its owner's thread    *)
(* never started, it is a synchronous request (which has no record for the *)
(* watchdog to find), or the watchdog thread itself never started.         *)
Wedged ==
  /\ active # None
  /\ \/ phase[active] = "orphaned"
     \/ active \in SyncJobs
     \/ watchdog = "lost"

(* A queued job leaves the queue although runs may hang and executors may  *)
(* fail to construct, unless the slot is wedged in one of those ways.      *)
QueueDrains ==
  \A j \in AnalysisJobs : InQueue(j) ~> ~InQueue(j) \/ Wedged

(* An over-age recorded run loses the slot, if the watchdog lives. *)
OverdueRunLosesSlot ==
  \A j \in Jobs :
    active = j /\ j \in stale /\ status[j] = "running"
      ~> active # j \/ watchdog = "lost"

=============================================================================
