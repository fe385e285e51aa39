--------------------------- MODULE JobQueueProofs ---------------------------
(***************************************************************************)
(* Safety of the job queue for any numbers of jobs and any retention cap.  *)
(***************************************************************************)
EXTENDS JobQueue, SequenceTheorems, FiniteSetTheorems, TLAPS

(* The phases of each kind of job. *)
KindsOfPhase ==
  \A j \in Jobs :
    /\ phase[j] \in {"recorded", "waiting", "handoff", "running", "died"}
         => j \in AnalysisJobs
    /\ phase[j] = "acquired" => j \in ScriptJobs
    /\ phase[j] \in {"starting", "orphaned", "launched"} => j \notin SyncJobs

(* _queue holds the waiting jobs, each once; the owner is not one of them. *)
QueueIsWaiting ==
  /\ \A i \in 1..Len(queue) : phase[queue[i]] = "waiting"
  /\ \A i, k \in 1..Len(queue) : queue[i] = queue[k] => i = k
  /\ active # None => phase[active] \in OwnerPhases \cup {"releasing"}

(* Where a job is when its record has a given status. *)
StatusOfPhase ==
  \A j \in Jobs :
    /\ j \in SyncJobs => status[j] = "absent"
    /\ phase[j] \in {"new", "ensuring", "rejected", "acquired"}
         => status[j] = "absent"
    /\ phase[j] \in {"recorded", "waiting", "starting", "handoff", "orphaned",
                     "launched"} => status[j] = "queued"
    /\ phase[j] \in {"running", "driving"} /\ j \notin SyncJobs
         => status[j] = "running" \/ j \in stale
    /\ status[j] = "running" \/ j \in stale
         => phase[j] \in {"running", "driving", "died", "releasing", "done"}

(* The watchdog is only ever after an over-age job. *)
ReapsOnlyStale == watchdog \in {"fail", "release"} => reaping \in stale

IInv ==
  /\ TypeOK
  /\ KindsOfPhase
  /\ QueueIsWaiting
  /\ StatusOfPhase
  /\ ReapsOnlyStale
  /\ OnlyStaleJobsLoseTheSlot
  /\ FifoService
-----------------------------------------------------------------------------
LEMMA InitIInv == Init => IInv
  BY JobsAssumption, EmptySeq, ConcatEmptySeq
  DEF Init, IInv, TypeOK, KindsOfPhase, QueueIsWaiting, StatusOfPhase,
      ReapsOnlyStale, OnlyStaleJobsLoseTheSlot, FifoService, Jobs, Statuses,
      Terminal, Phases, OwnerPhases

(* The steps that leave the slot, the queue and the histories alone. *)
LEMMA EnsureWatchdogIInv ==
  ASSUME IInv, NEW j \in Jobs, EnsureWatchdog(j)
  PROVE  IInv'
  BY JobsAssumption
  DEF IInv, TypeOK, KindsOfPhase, QueueIsWaiting, StatusOfPhase, ReapsOnlyStale,
      OnlyStaleJobsLoseTheSlot, FifoService, Jobs, Statuses, Terminal, Phases,
      OwnerPhases, Move, UpdateStatus, EnsureWatchdog

LEMMA WatchdogStartsIInv ==
  ASSUME IInv, NEW j \in Jobs, WatchdogStarts(j)
  PROVE  IInv'
  BY JobsAssumption
  DEF IInv, TypeOK, KindsOfPhase, QueueIsWaiting, StatusOfPhase, ReapsOnlyStale,
      OnlyStaleJobsLoseTheSlot, FifoService, Jobs, Statuses, Terminal, Phases,
      OwnerPhases, Move, UpdateStatus, WatchdogStarts

LEMMA WatchdogStartFailsIInv ==
  ASSUME IInv, NEW j \in Jobs, WatchdogStartFails(j)
  PROVE  IInv'
  BY JobsAssumption
  DEF IInv, TypeOK, KindsOfPhase, QueueIsWaiting, StatusOfPhase, ReapsOnlyStale,
      OnlyStaleJobsLoseTheSlot, FifoService, Jobs, Statuses, Terminal, Phases,
      OwnerPhases, Move, UpdateStatus, WatchdogStartFails

LEMMA RejectBusyIInv ==
  ASSUME IInv, NEW j \in Jobs, RejectBusy(j)
  PROVE  IInv'
<1> USE JobsAssumption DEF IInv, RejectBusy, Move, TypeOK, OwnerPhases
<1>1. TypeOK'
  BY DEF Phases
<1>2. KindsOfPhase'
  BY DEF KindsOfPhase
<1>3. QueueIsWaiting'
  BY DEF QueueIsWaiting, Jobs
<1>4. StatusOfPhase' /\ ReapsOnlyStale'
  BY DEF StatusOfPhase, ReapsOnlyStale
<1>5. OnlyStaleJobsLoseTheSlot' /\ FifoService'
  BY DEF OnlyStaleJobsLoseTheSlot, FifoService
<1> QED
  BY <1>1, <1>2, <1>3, <1>4, <1>5

LEMMA StartThreadIInv ==
  ASSUME IInv, NEW j \in Jobs, StartThread(j)
  PROVE  IInv'
<1> USE JobsAssumption DEF IInv, StartThread, Move, TypeOK, OwnerPhases
<1>1. TypeOK'
  BY DEF Phases
<1>2. KindsOfPhase'
  BY DEF KindsOfPhase
<1>3. QueueIsWaiting'
  BY DEF QueueIsWaiting, Jobs
<1>4. StatusOfPhase' /\ ReapsOnlyStale'
  BY DEF StatusOfPhase, ReapsOnlyStale
<1>5. OnlyStaleJobsLoseTheSlot' /\ FifoService'
  BY DEF OnlyStaleJobsLoseTheSlot, FifoService
<1> QED
  BY <1>1, <1>2, <1>3, <1>4, <1>5

LEMMA SubmitterStartFailsIInv ==
  ASSUME IInv, NEW j \in Jobs, SubmitterStartFails(j)
  PROVE  IInv'
<1> USE JobsAssumption DEF IInv, SubmitterStartFails, Move, TypeOK, OwnerPhases
<1>1. TypeOK'
  BY DEF Phases
<1>2. KindsOfPhase'
  BY DEF KindsOfPhase
<1>3. QueueIsWaiting'
  BY DEF QueueIsWaiting, Jobs
<1>4. StatusOfPhase' /\ ReapsOnlyStale'
  BY DEF StatusOfPhase, ReapsOnlyStale
<1>5. OnlyStaleJobsLoseTheSlot' /\ FifoService'
  BY DEF OnlyStaleJobsLoseTheSlot, FifoService
<1> QED
  BY <1>1, <1>2, <1>3, <1>4, <1>5

LEMMA HandOffFailsIInv ==
  ASSUME IInv, NEW j \in Jobs, HandOffFails(j)
  PROVE  IInv'
  BY JobsAssumption
  DEF IInv, TypeOK, KindsOfPhase, QueueIsWaiting, StatusOfPhase, ReapsOnlyStale,
      OnlyStaleJobsLoseTheSlot, FifoService, Jobs, Statuses, Terminal, Phases,
      OwnerPhases, Move, UpdateStatus, HandOffFails

LEMMA MarkRunningIInv ==
  ASSUME IInv, NEW j \in Jobs, MarkRunning(j)
  PROVE  IInv'
  BY JobsAssumption
  DEF IInv, TypeOK, KindsOfPhase, QueueIsWaiting, StatusOfPhase, ReapsOnlyStale,
      OnlyStaleJobsLoseTheSlot, FifoService, Jobs, Statuses, Terminal, Phases,
      OwnerPhases, Move, UpdateStatus, MarkRunning

LEMMA ConstructExecutorIInv ==
  ASSUME IInv, NEW j \in Jobs, ConstructExecutor(j)
  PROVE  IInv'
<1> USE JobsAssumption DEF IInv, ConstructExecutor, Move, TypeOK, OwnerPhases
<1>1. TypeOK'
  BY DEF Phases
<1>2. KindsOfPhase'
  BY DEF KindsOfPhase
<1>3. QueueIsWaiting'
  BY DEF QueueIsWaiting, Jobs
<1>4. StatusOfPhase' /\ ReapsOnlyStale'
  BY ZenonT(30) DEF StatusOfPhase, ReapsOnlyStale
<1>5. OnlyStaleJobsLoseTheSlot' /\ FifoService'
  BY DEF OnlyStaleJobsLoseTheSlot, FifoService
<1> QED
  BY <1>1, <1>2, <1>3, <1>4, <1>5

LEMMA FinishRunIInv ==
  ASSUME IInv, NEW j \in Jobs, FinishRun(j)
  PROVE  IInv'
  BY JobsAssumption
  DEF IInv, TypeOK, KindsOfPhase, QueueIsWaiting, StatusOfPhase, ReapsOnlyStale,
      OnlyStaleJobsLoseTheSlot, FifoService, Jobs, Statuses, Terminal, Phases,
      OwnerPhases, Move, UpdateStatus, FinishRun

LEMMA TimePassesIInv ==
  ASSUME IInv, NEW j \in Jobs, TimePasses(j)
  PROVE  IInv'
  BY JobsAssumption
  DEF IInv, TypeOK, KindsOfPhase, QueueIsWaiting, StatusOfPhase, ReapsOnlyStale,
      OnlyStaleJobsLoseTheSlot, FifoService, Jobs, Statuses, Terminal, Phases,
      OwnerPhases, Move, UpdateStatus, TimePasses

(* One more client at the end of the queue, of the line and of the served. *)
LEMMA Enqueued ==
  ASSUME NEW j \in AnalysisJobs, queue \in Seq(AnalysisJobs)
  PROVE  /\ Append(queue, j) \in Seq(AnalysisJobs) /\ Append(queue, j) # <<>>
         /\ Len(Append(queue, j)) = Len(queue) + 1 /\ Len(queue) \in Nat
         /\ \A i \in 1..Len(queue) : Append(queue, j)[i] = queue[i]
         /\ Append(queue, j)[Len(queue) + 1] = j
  OBVIOUS

LEMMA EndOfLine ==
  ASSUME NEW j \in Jobs, served \in Seq(Jobs), queue \in Seq(Jobs)
  PROVE  Append(served \o queue, j) = served \o Append(queue, j)
  OBVIOUS

LEMMA Joined ==
  ASSUME NEW j \in Jobs, served \in Seq(Jobs), admitted \in Seq(Jobs)
  PROVE  Append(admitted, j) \in Seq(Jobs) /\ Append(served, j) \in Seq(Jobs)
  OBVIOUS

(* The head of the queue moves from the front of the line to the served. *)
LEMMA Dequeued ==
  ASSUME queue \in Seq(AnalysisJobs), queue # <<>>
  PROVE  /\ Head(queue) \in AnalysisJobs /\ Head(queue) = queue[1]
         /\ Tail(queue) \in Seq(AnalysisJobs)
         /\ Len(queue) \in Nat \ {0} /\ Len(Tail(queue)) = Len(queue) - 1
         /\ \A i \in 1..Len(Tail(queue)) : Tail(queue)[i] = queue[i + 1]
  OBVIOUS

LEMMA FrontOfLine ==
  ASSUME served \in Seq(Jobs), queue \in Seq(Jobs), queue # <<>>
  PROVE  Append(served, Head(queue)) \o Tail(queue) = served \o queue
  OBVIOUS

LEMMA ClaimOrEnqueueIInv ==
  ASSUME IInv, NEW j \in Jobs, ClaimOrEnqueue(j)
  PROVE  IInv'
<1>s. queue \in Seq(Jobs) /\ served \in Seq(Jobs) /\ admitted \in Seq(Jobs)
  BY SeqMonotonic DEF IInv, TypeOK, Jobs
<1>a. Append(admitted, j) \in Seq(Jobs) /\ Append(served, j) \in Seq(Jobs)
  BY <1>s, Joined
<1>b. Append(served \o queue, j) = served \o Append(queue, j)
  BY <1>s, EndOfLine
<1> USE JobsAssumption DEF IInv, ClaimOrEnqueue, Move, TypeOK, OwnerPhases
<1>1. j \in AnalysisJobs /\ j # None
  BY DEF KindsOfPhase, Jobs
<1>2. CASE active = None
  <2>1. queue = <<>> /\ queue' = <<>> /\ active' = j
    BY <1>2 DEF FifoService
  <2>2. TypeOK'
    BY <1>1, <1>2, <1>a, <2>1 DEF Phases
  <2>3. KindsOfPhase' /\ StatusOfPhase' /\ ReapsOnlyStale'
    <3>1. KindsOfPhase'
      BY <1>1, <1>2 DEF KindsOfPhase, Jobs
    <3>2. StatusOfPhase'
      BY <1>1, <1>2 DEF StatusOfPhase, Jobs
    <3>3. ReapsOnlyStale'
      BY <1>1, <1>2 DEF ReapsOnlyStale, Jobs
    <3> QED BY <3>1, <3>2, <3>3
  <2>4. QueueIsWaiting'
    BY <1>1, <2>1, <1>2 DEF QueueIsWaiting
  <2>5. OnlyStaleJobsLoseTheSlot'
    BY <1>1, <1>2 DEF OnlyStaleJobsLoseTheSlot
  <2>6. FifoService'
    BY <1>1, <1>2, <2>1, ConcatEmptySeq, AppendProperties DEF FifoService
  <2> QED
    BY <2>2, <2>3, <2>4, <2>5, <2>6
<1>3. CASE active # None
  <2>1. /\ queue' = Append(queue, j) /\ active' = active /\ j # active
        /\ phase' = [phase EXCEPT ![j] = "waiting"]
    BY <1>3 DEF QueueIsWaiting
  <2>2. /\ queue' \in Seq(AnalysisJobs) /\ queue' # <<>>
        /\ Len(queue') = Len(queue) + 1 /\ Len(queue) \in Nat
        /\ \A i \in 1..Len(queue) : queue'[i] = queue[i]
        /\ queue'[Len(queue) + 1] = j
    BY <1>1, <2>1, Enqueued
  <2>3. TypeOK'
    BY <1>1, <1>3, <1>a, <2>2 DEF Phases
  <2>4. KindsOfPhase' /\ StatusOfPhase' /\ ReapsOnlyStale'
    BY <1>1, <1>3 DEF KindsOfPhase, StatusOfPhase, ReapsOnlyStale, Jobs
  <2>5. QueueIsWaiting'
    <3>1. \A i \in 1..Len(queue) : queue[i] # j /\ queue[i] \in Jobs
      BY <1>s DEF QueueIsWaiting
    <3>2. \A i \in 1..Len(queue') : i \in 1..Len(queue) \/ i = Len(queue) + 1
      BY <2>2
    <3> QED
      BY <2>1, <2>2, <3>1, <3>2 DEF QueueIsWaiting
  <2>6. OnlyStaleJobsLoseTheSlot'
    BY <1>1, <1>3, <2>1 DEF OnlyStaleJobsLoseTheSlot
  <2>7. FifoService'
    BY <1>3, <1>b, <2>1, <2>2 DEF FifoService
  <2> QED
    BY <2>3, <2>4, <2>5, <2>6, <2>7
<1> QED
  BY <1>2, <1>3

LEMMA TryAcquireIInv ==
  ASSUME IInv, NEW j \in Jobs, TryAcquire(j)
  PROVE  IInv'
<1> USE JobsAssumption DEF IInv, TryAcquire, Move, TypeOK, OwnerPhases
<1>1. j # None /\ queue = <<>> /\ active' = j
  BY DEF FifoService, Jobs
<1>2. TypeOK'
  BY AppendProperties DEF Phases
<1>3. KindsOfPhase' /\ StatusOfPhase' /\ ReapsOnlyStale'
  BY DEF KindsOfPhase, StatusOfPhase, ReapsOnlyStale, Jobs
<1>4. QueueIsWaiting' /\ OnlyStaleJobsLoseTheSlot'
  BY <1>1 DEF QueueIsWaiting, OnlyStaleJobsLoseTheSlot
<1>5. FifoService'
  BY <1>1, ConcatEmptySeq, AppendProperties DEF FifoService
<1> QED
  BY <1>2, <1>3, <1>4, <1>5

(* What eviction can do to a record. *)
LEMMA EvictsOnlyFinished ==
  ASSUME NEW st \in [Jobs -> Statuses], NEW age
  PROVE  /\ EvictFinished(st, age) \in [Jobs -> Statuses]
         /\ \A j \in Jobs :
              \/ EvictFinished(st, age)[j] = st[j]
              \/ st[j] \in Terminal /\ EvictFinished(st, age)[j] = "absent"
  BY DEF EvictFinished, Statuses

LEMMA CreateRecordIInv ==
  ASSUME IInv, NEW j \in Jobs, CreateRecord(j)
  PROVE  IInv'
<1> USE DEF IInv
<1>1. /\ status' \in [Jobs -> Statuses]
      /\ \A k \in Jobs \ {j} :
           \/ status'[k] = status[k]
           \/ status[k] \in Terminal /\ status'[k] = "absent"
      /\ status'[j] = "queued"
  <2> DEFINE st == [status EXCEPT ![j] = "queued"]
  <2>1. /\ st \in [Jobs -> Statuses] /\ st[j] = "queued"
        /\ \A k \in Jobs \ {j} : st[k] = status[k]
    BY DEF TypeOK, Statuses
  <2>2. status' = EvictFinished(st, born')
    BY DEF CreateRecord
  <2> HIDE DEF st
  <2>3. /\ status' \in [Jobs -> Statuses]
        /\ \A k \in Jobs : \/ status'[k] = st[k]
                           \/ st[k] \in Terminal /\ status'[k] = "absent"
    BY <2>1, <2>2, EvictsOnlyFinished
  <2> QED
    BY <2>1, <2>3 DEF Terminal
<1>2. born' \in [Jobs -> Nat]
  <2>1. IsFiniteSet({k \in Jobs : born[k] # 0})
    BY JobsAssumption, FS_Subset
  <2>2. Cardinality({k \in Jobs : born[k] # 0}) \in Nat
    BY <2>1, FS_CardinalityType
  <2> QED
    BY <2>2 DEF CreateRecord, TypeOK
<1>3. /\ phase' \in [Jobs -> Phases] /\ \A k \in Jobs \ {j} : phase'[k] = phase[k]
      /\ \/ phase[j] = "new" /\ phase'[j] = "recorded" /\ j \in AnalysisJobs
         \/ phase[j] = "acquired" /\ phase'[j] = "starting" /\ j \in ScriptJobs
  BY DEF CreateRecord, Move, TypeOK, Phases
<1>4. UNCHANGED <<active, queue, stale, watchdog, reaping, admitted, served>>
  BY DEF CreateRecord
<1>5. TypeOK'
  BY <1>1, <1>2, <1>3, <1>4 DEF TypeOK
<1>6. KindsOfPhase'
  BY <1>3, JobsAssumption DEF KindsOfPhase
<1>7. StatusOfPhase'
  BY <1>1, <1>3, <1>4, JobsAssumption DEF StatusOfPhase, Terminal
<1>8. QueueIsWaiting'
  <2>1. \A i \in 1..Len(queue) : queue[i] \in Jobs
    BY DEF TypeOK, Jobs
  <2> QED
    BY <1>3, <1>4, <2>1 DEF QueueIsWaiting, OwnerPhases, TypeOK
<1>9. OnlyStaleJobsLoseTheSlot' /\ FifoService' /\ ReapsOnlyStale'
  BY <1>3, <1>4 DEF OnlyStaleJobsLoseTheSlot, FifoService, ReapsOnlyStale,
                    OwnerPhases
<1> QED
  BY <1>5, <1>6, <1>7, <1>8, <1>9

(* FreeSlot on behalf of a job that gives the slot up (its phase becomes    *)
(* "done") or loses it (it is over-age).                                   *)
LEMMA FreeSlotKeeps ==
  ASSUME IInv, NEW j \in Jobs, NEW ph \in [Jobs -> Phases], FreeSlot(j, ph),
         \A k \in Jobs \ {j} : ph[k] = phase[k],
         \/ ph[j] = phase[j] /\ j \in stale
         \/ ph[j] = "done" /\ phase[j] = "releasing",
         UNCHANGED <<status, born, stale, admitted>>
  PROVE  /\ active' \in Jobs \cup {None} /\ queue' \in Seq(AnalysisJobs)
         /\ phase' \in [Jobs -> Phases] /\ served' \in Seq(Jobs)
         /\ KindsOfPhase' /\ QueueIsWaiting' /\ StatusOfPhase'
         /\ OnlyStaleJobsLoseTheSlot' /\ FifoService'
<1> USE DEF IInv
<1>1. /\ j # None /\ None \notin Jobs
      /\ queue \in Seq(AnalysisJobs) /\ queue \in Seq(Jobs)
      /\ served \in Seq(Jobs) /\ AnalysisJobs \subseteq Jobs
      /\ \A i \in 1..Len(queue) : queue[i] \in Jobs
  BY JobsAssumption, SeqMonotonic DEF TypeOK, Jobs
<1>2. ph[j] \notin {"recorded", "waiting", "handoff"} /\ phase[j] # "waiting"
  BY DEF StatusOfPhase
<1>3. CASE active # j \/ queue = <<>>
  <2>1. /\ active' = IF active = j THEN None ELSE active
        /\ phase' = ph /\ queue' = queue /\ served' = served
    BY <1>3 DEF FreeSlot
  <2>2. active' \in Jobs \cup {None}
    BY <2>1 DEF TypeOK
  <2>3. KindsOfPhase'
    BY <1>2, <2>1 DEF KindsOfPhase
  <2>4. QueueIsWaiting'
    BY <1>1, <1>2, <2>1 DEF QueueIsWaiting, TypeOK
  <2>5. StatusOfPhase'
    BY <2>1, <1>2 DEF StatusOfPhase
  <2>6. OnlyStaleJobsLoseTheSlot'
    BY <1>1, <2>1 DEF OnlyStaleJobsLoseTheSlot, OwnerPhases
  <2>7. FifoService'
    BY <1>1, <1>3, <2>1 DEF FifoService
  <2> QED
    BY <1>1, <2>1, <2>2, <2>3, <2>4, <2>5, <2>6, <2>7
<1>4. CASE active = j /\ queue # <<>>
  <2> DEFINE h == Head(queue)
  <2>1. /\ active' = h /\ queue' = Tail(queue) /\ served' = Append(served, h)
        /\ phase' = [ph EXCEPT ![h] = "handoff"]
    BY <1>4 DEF FreeSlot
  <2>2. /\ h \in AnalysisJobs /\ h = queue[1] /\ Tail(queue) \in Seq(AnalysisJobs)
        /\ Len(queue) \in Nat \ {0} /\ Len(Tail(queue)) = Len(queue) - 1
        /\ \A i \in 1..Len(Tail(queue)) : Tail(queue)[i] = queue[i + 1]
    BY <1>1, <1>4, Dequeued
  <2>3. Append(served, h) \o Tail(queue) = served \o queue
    BY <1>1, <1>4, FrontOfLine
  <2> HIDE DEF h
  <2>4. h \in Jobs /\ h # None /\ phase[h] = "waiting" /\ h # j
    BY <1>1, <1>2, <2>2 DEF QueueIsWaiting
  <2>5. /\ phase' \in [Jobs -> Phases] /\ phase'[h] = "handoff" /\ phase'[j] = ph[j]
        /\ \A k \in Jobs \ {j, h} : phase'[k] = phase[k]
    BY <2>1, <2>4 DEF Phases
  <2>6. served' \in Seq(Jobs)
    <3>1. Append(served, h) \in Seq(Jobs)
      BY <1>1, <2>4, AppendProperties
    <3> QED
      BY <2>1, <3>1
  <2>7. KindsOfPhase'
    BY <1>2, <2>2, <2>5 DEF KindsOfPhase
  <2>8. QueueIsWaiting'
    <3>1. \A i \in 1..Len(queue') : i + 1 \in 1..Len(queue) /\ queue'[i] = queue[i + 1]
      BY <2>1, <2>2
    <3>2. \A i \in 1..Len(queue') : /\ queue'[i] \in Jobs \ {j, h}
                                  /\ phase[queue'[i]] = "waiting"
      <4> TAKE i \in 1..Len(queue')
      <4>1. queue'[i] = queue[i + 1] /\ i + 1 \in 1..Len(queue) /\ i + 1 # 1
            /\ 1 \in 1..Len(queue)
        BY <2>1, <2>2, <3>1
      <4>2. queue[i + 1] # queue[1]
        BY <4>1 DEF QueueIsWaiting
      <4> QED
        BY <1>1, <1>2, <2>2, <4>1, <4>2 DEF QueueIsWaiting
    <3>3. \A i, k \in 1..Len(queue') : queue'[i] = queue'[k] => i = k
      BY <2>1, <2>2, <3>1 DEF QueueIsWaiting
    <3> QED
      BY <2>1, <2>5, <3>2, <3>3 DEF QueueIsWaiting, OwnerPhases
  <2>9. StatusOfPhase'
    BY <1>2, <2>4, <2>5 DEF StatusOfPhase, KindsOfPhase
  <2>10. OnlyStaleJobsLoseTheSlot'
    BY <1>1, <1>4, <2>1, <2>5 DEF OnlyStaleJobsLoseTheSlot, OwnerPhases
  <2>11. FifoService'
    BY <2>1, <2>3, <2>4 DEF FifoService
  <2> QED
    BY <2>1, <2>2, <2>4, <2>5, <2>6, <2>7, <2>8, <2>9, <2>10, <2>11
<1> QED
  BY <1>3, <1>4

LEMMA ReleaseIInv ==
  ASSUME IInv, NEW j \in Jobs, Release(j)
  PROVE  IInv'
<1> DEFINE ph == [phase EXCEPT ![j] = "done"]
<1>1. /\ ph \in [Jobs -> Phases] /\ ph[j] = "done" /\ phase[j] = "releasing"
      /\ \A k \in Jobs \ {j} : ph[k] = phase[k]
      /\ FreeSlot(j, ph)
      /\ UNCHANGED <<status, born, stale, watchdog, reaping, admitted>>
  BY DEF Release, IInv, TypeOK, Phases
<1> HIDE DEF ph
<1>2. /\ active' \in Jobs \cup {None} /\ queue' \in Seq(AnalysisJobs)
      /\ phase' \in [Jobs -> Phases] /\ served' \in Seq(Jobs)
      /\ KindsOfPhase' /\ QueueIsWaiting' /\ StatusOfPhase'
      /\ OnlyStaleJobsLoseTheSlot' /\ FifoService'
  BY <1>1, FreeSlotKeeps
<1> QED
  BY <1>1, <1>2 DEF IInv, TypeOK, ReapsOnlyStale

LEMMA ReapDecideIInv == ASSUME IInv, ReapDecide PROVE IInv'
<1> USE DEF IInv, ReapDecide
<1>1. TypeOK' /\ KindsOfPhase' /\ QueueIsWaiting'
  BY DEF TypeOK, KindsOfPhase, QueueIsWaiting
<1>2. StatusOfPhase' /\ ReapsOnlyStale'
  BY DEF StatusOfPhase, ReapsOnlyStale
<1>3. OnlyStaleJobsLoseTheSlot' /\ FifoService'
  BY DEF OnlyStaleJobsLoseTheSlot, FifoService
<1> QED
  BY <1>1, <1>2, <1>3

LEMMA ReapFailIInv == ASSUME IInv, ReapFail PROVE IInv'
<1> USE DEF IInv, ReapFail
<1>1. reaping \in Jobs /\ reaping \in stale
  BY DEF TypeOK, ReapsOnlyStale
<1>2. /\ status' \in [Jobs -> Statuses]
      /\ \A k \in Jobs : status'[k] = status[k] \/ (k = reaping /\ status'[k] = "failed")
      /\ status[reaping] = "absent" => status' = status
  BY <1>1 DEF TypeOK, UpdateStatus, Statuses, Terminal
<1>3. TypeOK' /\ KindsOfPhase' /\ QueueIsWaiting'
  BY <1>2 DEF TypeOK, KindsOfPhase, QueueIsWaiting
<1>4. StatusOfPhase'
  BY <1>1, <1>2 DEF StatusOfPhase
<1>5. ReapsOnlyStale' /\ OnlyStaleJobsLoseTheSlot' /\ FifoService'
  BY <1>1 DEF ReapsOnlyStale, OnlyStaleJobsLoseTheSlot, FifoService
<1> QED
  BY <1>3, <1>4, <1>5

LEMMA ReapReleaseIInv == ASSUME IInv, ReapRelease PROVE IInv'
<1>1. /\ reaping \in Jobs /\ reaping \in stale /\ phase \in [Jobs -> Phases]
      /\ FreeSlot(reaping, phase)
      /\ UNCHANGED <<status, born, stale, admitted>>
  BY DEF ReapRelease, IInv, TypeOK, ReapsOnlyStale
<1>2. /\ active' \in Jobs \cup {None} /\ queue' \in Seq(AnalysisJobs)
      /\ phase' \in [Jobs -> Phases] /\ served' \in Seq(Jobs)
      /\ KindsOfPhase' /\ QueueIsWaiting' /\ StatusOfPhase'
      /\ OnlyStaleJobsLoseTheSlot' /\ FifoService'
  BY <1>1, FreeSlotKeeps
<1> QED
  BY <1>1, <1>2 DEF IInv, TypeOK, ReapsOnlyStale, ReapRelease

(* Every step preserves the inductive invariant. *)
LEMMA NextIInv ==
  ASSUME IInv, [Next]_vars
  PROVE  IInv'
<1>1. ASSUME NEW j \in Jobs, EnsureWatchdog(j) PROVE IInv'
  BY <1>1, EnsureWatchdogIInv
<1>2. ASSUME NEW j \in Jobs, WatchdogStarts(j) PROVE IInv'
  BY <1>2, WatchdogStartsIInv
<1>3. ASSUME NEW j \in Jobs, WatchdogStartFails(j) PROVE IInv'
  BY <1>3, WatchdogStartFailsIInv
<1>4. ASSUME NEW j \in Jobs, CreateRecord(j) PROVE IInv'
  BY <1>4, CreateRecordIInv
<1>5. ASSUME NEW j \in Jobs, ClaimOrEnqueue(j) PROVE IInv'
  BY <1>5, ClaimOrEnqueueIInv
<1>6. ASSUME NEW j \in Jobs, TryAcquire(j) PROVE IInv'
  BY <1>6, TryAcquireIInv
<1>7. ASSUME NEW j \in Jobs, RejectBusy(j) PROVE IInv'
  BY <1>7, RejectBusyIInv
<1>8. ASSUME NEW j \in Jobs, StartThread(j) PROVE IInv'
  BY <1>8, StartThreadIInv
<1>9. ASSUME NEW j \in Jobs, SubmitterStartFails(j) PROVE IInv'
  BY <1>9, SubmitterStartFailsIInv
<1>10. ASSUME NEW j \in Jobs, HandOffFails(j) PROVE IInv'
  BY <1>10, HandOffFailsIInv
<1>11. ASSUME NEW j \in Jobs, MarkRunning(j) PROVE IInv'
  BY <1>11, MarkRunningIInv
<1>12. ASSUME NEW j \in Jobs, ConstructExecutor(j) PROVE IInv'
  BY <1>12, ConstructExecutorIInv
<1>13. ASSUME NEW j \in Jobs, FinishRun(j) PROVE IInv'
  BY <1>13, FinishRunIInv
<1>14. ASSUME NEW j \in Jobs, Release(j) PROVE IInv'
  BY <1>14, ReleaseIInv
<1>15. ASSUME NEW j \in Jobs, TimePasses(j) PROVE IInv'
  BY <1>15, TimePassesIInv
<1>16. CASE ReapDecide
  BY <1>16, ReapDecideIInv
<1>17. CASE ReapFail
  BY <1>17, ReapFailIInv
<1>18. CASE ReapRelease
  BY <1>18, ReapReleaseIInv
<1>19. CASE UNCHANGED vars
  BY <1>19 DEF vars, IInv, TypeOK, KindsOfPhase, QueueIsWaiting, StatusOfPhase,
     ReapsOnlyStale, OnlyStaleJobsLoseTheSlot, FifoService
<1> QED
  BY <1>1, <1>2, <1>3, <1>4, <1>5, <1>6, <1>7, <1>8, <1>9, <1>10, <1>11,
     <1>12, <1>13, <1>14, <1>15, <1>16, <1>17, <1>18, <1>19 DEF Next

(* The inductive invariant holds throughout every behaviour. *)
THEOREM Invariance == Spec => []IInv
<1>1. Init => IInv
  BY InitIInv
<1>2. IInv /\ [Next]_vars => IInv'
  BY NextIInv
<1> QED
  BY <1>1, <1>2, PTL DEF Spec

-----------------------------------------------------------------------------
(* Every variable keeps its type, for any sets of jobs and any cap. *)
THEOREM TypeCorrect == Spec => []TypeOK
  BY Invariance, PTL DEF IInv

(* submit_analysis_job and release() serve admitted jobs in strict FIFO    *)
(* order and never leave the slot free while a job waits.                  *)
THEOREM Fifo == Spec => []FifoService
  BY Invariance, PTL DEF IInv

(* Only the watchdog takes the slot from a job, and only an over-age one:  *)
(* the ownership check in release() is enough.                             *)
THEOREM SlotOwnership == Spec => []OnlyStaleJobsLoseTheSlot
  BY Invariance, PTL DEF IInv

(* The record a client polls is there and tells the truth. *)
THEOREM TruthfulRecords == Spec => []PollIsTruthful
<1>1. IInv => PollIsTruthful
  BY DEF IInv, StatusOfPhase, PollIsTruthful
<1> QED
  BY <1>1, Invariance, PTL

-----------------------------------------------------------------------------
(* A final status changes again only where StatusOfPhase leaves room for   *)
(* it: in the late thread of an over-age job, or in the watchdog.          *)
LEMMA FinalStatusStep ==
  ASSUME IInv, [Next]_vars, NEW k \in Jobs,
         status[k] \in Terminal, status'[k] # status[k]
  PROVE  status'[k] = "absent" \/ k \in stale
<1> USE DEF IInv, Terminal
<1>1. ASSUME NEW j \in Jobs, CreateRecord(j) PROVE status'[k] = "absent"
  <2> DEFINE st == [status EXCEPT ![j] = "queued"]
  <2>1. j # k /\ status' = EvictFinished(st, born')
    BY <1>1 DEF CreateRecord, StatusOfPhase
  <2>2. st \in [Jobs -> Statuses] /\ st[k] = status[k]
    BY <2>1 DEF TypeOK, Statuses
  <2> HIDE DEF st
  <2> QED
    BY <2>1, <2>2, EvictsOnlyFinished
<1>2. ASSUME NEW j \in Jobs,
             HandOffFails(j) \/ MarkRunning(j) \/ FinishRun(j)
      PROVE  k \in stale
  <2>1. j = k
    BY <1>2 DEF HandOffFails, MarkRunning, FinishRun, UpdateStatus, TypeOK
  <2>2. phase[k] \in {"handoff", "launched", "driving"}
    BY <1>2, <2>1 DEF HandOffFails, MarkRunning, FinishRun
  <2> QED
    BY <2>2 DEF StatusOfPhase
<1>3. ASSUME ReapFail PROVE k \in stale
  BY <1>3 DEF ReapFail, UpdateStatus, TypeOK, ReapsOnlyStale
<1> QED
  BY <1>1, <1>2, <1>3
  DEF Next, vars, EnsureWatchdog, WatchdogStarts, WatchdogStartFails,
      ClaimOrEnqueue, TryAcquire, RejectBusy, StartThread, SubmitterStartFails,
      ConstructExecutor, Release, TimePasses, ReapDecide, ReapRelease

(* Once a record says completed, failed or cancelled, no later step changes *)
(* that, over-age jobs and evicted records apart: the late writes of        *)
(* run_analysis and of the watchdog find the job finished.                  *)
THEOREM FinalStatus == Spec => FinalStatusIsFinal
<1>1. ASSUME IInv, [Next]_vars
      PROVE  [\A j \in Jobs : status[j] \in Terminal /\ status'[j] # status[j]
                => status'[j] = "absent" \/ j \in stale]_vars
  BY <1>1, FinalStatusStep
<1> QED
  BY <1>1, Invariance, PTL DEF Spec, FinalStatusIsFinal

-----------------------------------------------------------------------------
(* FreeSlot is the server's PassOn or BecomeIdle, or a stuttering step.    *)
LEMMA FreeSlotRefines ==
  ASSUME IInv, NEW j \in Jobs, NEW ph, FreeSlot(j, ph), UNCHANGED admitted
  PROVE  [Server!Next]_(Server!vars)
<1>1. /\ j # None /\ served \in Seq(Jobs) /\ queue \in Seq(AnalysisJobs)
      /\ queue \in Seq(Jobs) /\ admitted = served \o queue
      /\ Len(served) \in Nat /\ Len(queue) \in Nat
  BY JobsAssumption, SeqMonotonic, LenProperties DEF IInv, TypeOK, Jobs, FifoService
<1>2. CASE active # j
  BY <1>2 DEF FreeSlot, Server!vars
<1>3. CASE active = j /\ queue = <<>>
  <2>1. Len(served) = Len(admitted)
    BY <1>1, <1>3, ConcatEmptySeq
  <2>2. Server!BecomeIdle
    BY <1>1, <1>3, <2>1 DEF FreeSlot, Server!BecomeIdle
  <2> QED
    BY <2>2 DEF Server!Next
<1>4. CASE active = j /\ queue # <<>>
  <2>1. Len(queue) \in Nat \ {0} /\ Head(queue) = queue[1]
    BY <1>1, <1>4, Dequeued
  <2>2. Len(admitted) = Len(served) + Len(queue)
    BY <1>1, ConcatProperties
  <2>3. admitted[Len(served) + 1] = queue[Len(served) + 1 - Len(served)]
    BY <1>1, <2>1, ConcatProperties
  <2>4. admitted[Len(served) + 1] = Head(queue)
    BY <1>1, <2>1, <2>3
  <2>5. Server!PassOn
    BY <1>1, <1>4, <2>1, <2>2, <2>4 DEF FreeSlot, Server!PassOn
  <2> QED
    BY <2>5 DEF Server!Next
<1> QED
  BY <1>2, <1>3, <1>4

LEMMA StepRefines ==
  ASSUME IInv, [Next]_vars
  PROVE  [Server!Next]_(Server!vars)
<1>1. ASSUME NEW j \in Jobs, ClaimOrEnqueue(j) PROVE Server!Next
  BY <1>1 DEF ClaimOrEnqueue, Server!Next, Server!ArriveIdle, Server!ArriveBusy
<1>2. ASSUME NEW j \in Jobs, TryAcquire(j) PROVE Server!Next
  BY <1>2 DEF TryAcquire, Server!Next, Server!ArriveIdle
<1>3. ASSUME NEW j \in Jobs, Release(j) PROVE [Server!Next]_(Server!vars)
  BY <1>3, FreeSlotRefines DEF Release
<1>4. CASE ReapRelease
  BY <1>4, FreeSlotRefines DEF ReapRelease, IInv, TypeOK
<1> QED
  BY <1>1, <1>2, <1>3, <1>4
  DEF Next, vars, Server!vars, EnsureWatchdog, WatchdogStarts, WatchdogStartFails,
      CreateRecord, RejectBusy, StartThread, SubmitterStartFails, HandOffFails,
      MarkRunning, ConstructExecutor, FinishRun, TimePasses, ReapDecide, ReapFail

(* jobs.py, with all its threads, failures and the watchdog, implements    *)
(* the abstract FIFO server.                                               *)
THEOREM Refinement == Spec => ImplementsFifoServer
<1>1. Init => Server!Init
  BY DEF Init, Server!Init
<1>2. IInv /\ [Next]_vars => [Server!Next]_(Server!vars)
  BY StepRefines
<1> QED
  BY <1>1, <1>2, Invariance, PTL DEF Spec, ImplementsFifoServer, Server!Spec

=============================================================================
