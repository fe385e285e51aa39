-------------------------- MODULE RunAnalysisProofs --------------------------
(***************************************************************************)
(* The safety of run_analysis, for any number of runs, attempts and faults *)
(* and any options.                                                        *)
(*                                                                         *)
(* The argument is about the order of the steps.  Options leave steps out, *)
(* and failures skip them, but some steps are in every run: whoever has got*)
(* beyond one of those has made it, or is on the way out of the run.       *)
(***************************************************************************)
EXTENDS RunAnalysis, WellFoundedInduction, TLAPS

-----------------------------------------------------------------------------
(* The order of the steps.                                                 *)

LEMMA Least ==
  ASSUME NEW T \in SUBSET Nat, T # {}
  PROVE  \E m \in T : \A k \in T : m <= k
<1> DEFINE R == {ss \in Nat \X Nat : ss[1] < ss[2]}
<1>1. IsWellFoundedOn(R, Nat)
  BY NatLessThanWellFounded DEF OpToRel
<1> HIDE DEF R
<1>2. PICK m \in T : \A k \in T : ~(<<k, m>> \in R)
  BY <1>1, WFMin
<1>3. ASSUME NEW k \in T PROVE m <= k
  <2>1. m \in Nat /\ k \in Nat
    OBVIOUS
  <2>2. k < m => <<k, m>> \in R
    BY <2>1 DEF R
  <2> QED BY <1>2, <2>1, <2>2
<1> QED BY <1>2, <1>3

LEMMA Length == DOMAIN Steps = 1 .. 25 /\ Len(Steps) = 25
  BY DEF Steps

LEMMA Distinct == \A i, j \in 1 .. 25 : Steps[i] = Steps[j] => i = j
  BY DEF Steps

LEMMA Places ==
  /\ \A i \in 1 .. 25 : Steps[i] \in StepSet /\ Index[Steps[i]] = i
  /\ \A s \in StepSet : Index[s] \in 1 .. 25 /\ Steps[Index[s]] = s
<1>1. \A i \in 1 .. 25 : Steps[i] \in StepSet
  BY Length DEF StepSet
<1>2. \A s \in StepSet : \E i \in 1 .. 25 : Steps[i] = s
  BY Length DEF StepSet
<1>3. \A s \in StepSet : Index[s] \in 1 .. 25 /\ Steps[Index[s]] = s
  BY <1>2, Length DEF Index
<1> QED BY <1>1, <1>3, Distinct

(* The place of each step.                                                 *)
LEMMA Numbers ==
  /\ "ensure_snapshot" \in StepSet /\ Index["ensure_snapshot"] = 1
  /\ "restore_snapshot" \in StepSet /\ Index["restore_snapshot"] = 2
  /\ "clean_local_state" \in StepSet /\ Index["clean_local_state"] = 3
  /\ "start_vm" \in StepSet /\ Index["start_vm"] = 4
  /\ "copy_agent" \in StepSet /\ Index["copy_agent"] = 5
  /\ "defender_ready" \in StepSet /\ Index["defender_ready"] = 6
  /\ "telemetry_init" \in StepSet /\ Index["telemetry_init"] = 7
  /\ "stage_archive" \in StepSet /\ Index["stage_archive"] = 8
  /\ "copy_sample" \in StepSet /\ Index["copy_sample"] = 9
  /\ "network_capture_start" \in StepSet /\ Index["network_capture_start"] = 10
  /\ "screenshot_capture_start" \in StepSet /\ Index["screenshot_capture_start"] = 11
  /\ "apitrace_start" \in StepSet /\ Index["apitrace_start"] = 12
  /\ "guardian_start" \in StepSet /\ Index["guardian_start"] = 13
  /\ "sysmon_ready" \in StepSet /\ Index["sysmon_ready"] = 14
  /\ "execute_sample" \in StepSet /\ Index["execute_sample"] = 15
  /\ "apitrace_stop" \in StepSet /\ Index["apitrace_stop"] = 16
  /\ "guardian_stop" \in StepSet /\ Index["guardian_stop"] = 17
  /\ "copy_process_dumps" \in StepSet /\ Index["copy_process_dumps"] = 18
  /\ "telemetry_collect" \in StepSet /\ Index["telemetry_collect"] = 19
  /\ "copy_dropped_files" \in StepSet /\ Index["copy_dropped_files"] = 20
  /\ "screenshot_capture_stop" \in StepSet /\ Index["screenshot_capture_stop"] = 21
  /\ "network_capture_stop" \in StepSet /\ Index["network_capture_stop"] = 22
  /\ "stop_vm" \in StepSet /\ Index["stop_vm"] = 23
  /\ "static_result" \in StepSet /\ Index["static_result"] = 24
  /\ "build_report" \in StepSet /\ Index["build_report"] = 25
<1>1. /\ Steps[1] = "ensure_snapshot" /\ Steps[2] = "restore_snapshot"
      /\ Steps[3] = "clean_local_state" /\ Steps[4] = "start_vm"
      /\ Steps[5] = "copy_agent" /\ Steps[6] = "defender_ready"
      /\ Steps[7] = "telemetry_init" /\ Steps[8] = "stage_archive"
      /\ Steps[9] = "copy_sample" /\ Steps[10] = "network_capture_start"
      /\ Steps[11] = "screenshot_capture_start" /\ Steps[12] = "apitrace_start"
      /\ Steps[13] = "guardian_start" /\ Steps[14] = "sysmon_ready"
      /\ Steps[15] = "execute_sample" /\ Steps[16] = "apitrace_stop"
      /\ Steps[17] = "guardian_stop" /\ Steps[18] = "copy_process_dumps"
      /\ Steps[19] = "telemetry_collect" /\ Steps[20] = "copy_dropped_files"
      /\ Steps[21] = "screenshot_capture_stop" /\ Steps[22] = "network_capture_stop"
      /\ Steps[23] = "stop_vm" /\ Steps[24] = "static_result"
      /\ Steps[25] = "build_report"
  BY DEF Steps
<1> QED BY <1>1, Places

(* The first step from i on is not beyond one that is always taken.        *)
Onward(i, s) ==
  /\ s \in StepSet
  /\ Index[s] \in i .. 25
  /\ i <= 2 => Index[s] <= 2
  /\ i <= 15 => Index[s] <= 15
  /\ i <= 23 => Index[s] <= 23

LEMMA Always ==
  \A s \in {"restore_snapshot", "execute_sample", "stop_vm", "build_report"} : Taken(s)
<1>1. \A k \in Agents : StopStep[k] \in {"apitrace_stop", "guardian_stop"}
  BY DEF Agents, StopStep
<1> QED BY <1>1 DEF Taken, Options

LEMMA First ==
  ASSUME NEW i \in 1 .. 25, NEW m \in i .. 25, Taken(Steps[m])
  PROVE  FirstFrom(i) \in StepSet /\ Index[FirstFrom(i)] \in i .. m
<1> DEFINE T == {j \in i .. 25 : Taken(Steps[j])}
           Found(j) == Taken(Steps[j]) /\ \A k \in i .. j - 1 : ~Taken(Steps[k])
<1>1. PICK n \in T : \A k \in T : n <= k
  <2>1. T \in SUBSET Nat /\ m \in T
    OBVIOUS
  <2> HIDE DEF T
  <2> QED BY <2>1, Least
<1>2. n \in i .. 25 /\ Found(n)
  BY <1>1
<1> HIDE DEF Found
<1>3. PICK j \in i .. 25 : FirstFrom(i) = Steps[j] /\ Found(j)
  BY <1>2, Length, Zenon DEF FirstFrom, Found
<1>4. j <= m
  BY <1>3 DEF Found
<1> QED BY <1>3, <1>4, Places

LEMMA Goes == \A i \in 1 .. 25 : Onward(i, FirstFrom(i))
<1> SUFFICES ASSUME NEW i \in 1 .. 25 PROVE Onward(i, FirstFrom(i))
  OBVIOUS
<1> DEFINE t == FirstFrom(i)
<1>1. /\ Steps[2] = "restore_snapshot" /\ Steps[15] = "execute_sample"
      /\ Steps[23] = "stop_vm" /\ Steps[25] = "build_report"
  BY DEF Steps
<1>2. /\ Taken(Steps[2]) /\ Taken(Steps[15]) /\ Taken(Steps[23]) /\ Taken(Steps[25])
  BY <1>1, Always
<1>3. t \in StepSet /\ Index[t] \in i .. 25
  BY <1>2, First
<1>4. i <= 2 => Index[t] \in i .. 2
  BY <1>2, First
<1>5. i <= 15 => Index[t] \in i .. 15
  BY <1>2, First
<1>6. i <= 23 => Index[t] \in i .. 23
  BY <1>2, First
<1> HIDE DEF t
<1>7. Onward(i, t)
  BY <1>3, <1>4, <1>5, <1>6, Places DEF Onward
<1> QED BY <1>7 DEF t

LEMMA Forward ==
  ASSUME NEW s \in StepSet, s # "build_report", Goto(FirstFrom(Index[s] + 1))
  PROVE  Onward(Index[s] + 1, at') /\ tries' = 0
<1>1. Index[s] \in 1 .. 25 /\ Index[s] # 25
  BY Places, Numbers
<1> QED BY <1>1, Goes DEF Goto

LEMMA Out ==
  ASSUME Raise
  PROVE  /\ raised' = TRUE /\ done' = done /\ tries' = 0
         /\ at' \in StepSet /\ Index[at'] \in 21 .. 23
<1>1. Onward(21, FirstFrom(21))
  BY Goes
<1> QED BY <1>1, Numbers DEF Raise, Goto, Onward

(* Where the steps are that are treated alike.                             *)
LEMMA AgentPlaces ==
  \A k \in Agents :
    /\ StartStep[k] \in StepSet /\ Index[StartStep[k]] \in 12 .. 13
    /\ StartStep[k] \in Surfaced \cap Tolerated
    /\ StopStep[k] \in StepSet /\ Index[StopStep[k]] \in 16 .. 17
    /\ StopStep[k] \in Tolerated \ (Surfaced \cup Sections)
  BY Numbers DEF Agents, StartStep, StopStep, Surfaced, Tolerated, Sections

LEMMA PlainPlaces ==
  \A s \in Plain :
    /\ s \in StepSet /\ Index[s] \in 1 .. 22
    /\ s \in Tolerated =>
         \/ s \in Surfaced /\ Index[s] <= 14
         \/ s \in Sections
  BY Numbers DEF Plain, Tolerated, Surfaced, Sections

LEMMA Apart == "idle" \notin StepSet /\ "detonating" \notin StepSet
<1>1. \A i \in 1 .. 25 : Steps[i] # "idle" /\ Steps[i] # "detonating"
  BY DEF Steps
<1> QED BY <1>1, Places

-----------------------------------------------------------------------------
(* The types.                                                              *)

USE DEF noteVars, guestVars, outVars

LEMMA ProcType ==
  ASSUME TypeOK, NEW kind \in Agents \cup {"sample"}, NEW n \in 1 .. MaxTries, run # 0
  PROVE  Proc(kind, n) \in Process
  BY RunAnalysisAssumption DEF TypeOK, Proc, Process, Runs

LEMMA SpawnedType ==
  ASSUME TypeOK, NEW k \in Agents, run # 0, Spawned(k) \/ UNCHANGED <<procs, file>>
  PROVE  procs' \subseteq Process /\ file' \in [Agents -> SUBSET Runs]
<1>1. Proc(k, tries + 1) \in Process
  <2>1. tries + 1 \in 1 .. MaxTries
    BY RunAnalysisAssumption DEF TypeOK
  <2> QED BY <2>1, ProcType
<1> QED BY <1>1 DEF TypeOK, Spawned

LEMMA NoteType ==
  ASSUME TypeOK, NEW s \in Tolerated, NoteFailure(s)
  PROVE  info' \cup held' \cup failed' \subseteq Tolerated
  BY DEF TypeOK, NoteFailure

(* A run is numbered from its start on.                                    *)
Numbered == at # "idle" => run # 0

LEMMA FaultType ==
  ASSUME TypeOK, Fault
  PROVE  faults' \in 0 .. MaxFaults
  BY RunAnalysisAssumption DEF TypeOK, Fault

LEMMA TypeStart == Init => TypeOK /\ Numbered
<1> SUFFICES ASSUME Init PROVE TypeOK /\ Numbered
  OBVIOUS
<1>1. on \in BOOLEAN
  BY Zenon DEF Init, Local
<1>2. pid \in [Agents -> 0 .. MaxTries] /\ file \in [Agents -> SUBSET Runs]
  BY RunAnalysisAssumption DEF Init, NoPids
<1>3. run \in 0 .. MaxRuns /\ tries \in 0 .. MaxTries - 1 /\ faults \in 0 .. MaxFaults
  BY RunAnalysisAssumption DEF Init
<1> QED BY <1>1, <1>2, <1>3 DEF Init, TypeOK, Numbered

LEMMA TypeStep == TypeOK /\ Numbered /\ [Next]_vars => TypeOK' /\ Numbered'
<1> SUFFICES ASSUME TypeOK, Numbered, [Next]_vars PROVE TypeOK' /\ Numbered'
  OBVIOUS
<1> USE DEF TypeOK, Numbered
<1>0. MaxRuns \in Nat /\ MaxTries \in Nat \ {0} /\ MaxFaults \in Nat /\ 0 \in 0 .. MaxTries - 1
  BY RunAnalysisAssumption
<1>1. ASSUME NewRun
      PROVE  /\ run' \in 1 .. MaxRuns /\ cfg' \in Configs /\ faults' \in 0 .. MaxFaults
             /\ raised' \in BOOLEAN /\ error' \in BOOLEAN
             /\ done' = {} /\ pid' \in [Agents -> 0 .. MaxTries]
             /\ info' = {} /\ held' = {} /\ failed' = {} /\ evidence' = {}
             /\ forced' = {} /\ readOpen' = {}
             /\ mode' = mode /\ on' = on /\ procs' = procs /\ file' = file
  <2>1. pid' \in [Agents -> 0 .. MaxTries]
    BY <1>0, <1>1 DEF NewRun, NoPids
  <2>2. raised' \in BOOLEAN /\ error' \in BOOLEAN
    BY <1>1, Zenon DEF NewRun
  <2> QED BY <1>0, <1>1, <2>1, <2>2 DEF NewRun
<1>2. CASE StartRun
  <2>1. report' = NoReport /\ at' \in StepSet /\ tries' = 0
    BY <1>2, Numbers DEF StartRun, Goto
  <2>2. analysing' \subseteq Runs
    BY <1>1, <1>2 DEF StartRun, Runs
  <2> QED BY <1>0, <1>1, <1>2, <2>1, <2>2 DEF StartRun
<1>3. CASE ReportUnrunnable
  BY <1>1, <1>3 DEF ReportUnrunnable
<1>4. ASSUME NEW r \in analysing, StaticEnds(r) PROVE TypeOK' /\ Numbered'
  BY <1>4 DEF StaticEnds
<1>5. ASSUME NEW p \in procs, ProcEnds(p) PROVE TypeOK' /\ Numbered'
  BY <1>5 DEF ProcEnds
<1>6. ASSUME NEW p \in procs, NEW k \in Agents, SampleLogs(p, k) PROVE TypeOK' /\ Numbered'
  <2>1. p.run \in Runs
    BY DEF Process
  <2>2. file' \in [Agents -> SUBSET Runs]
    BY <1>6, <2>1 DEF SampleLogs
  <2> QED BY <1>6, <2>2 DEF SampleLogs
<1>7. CASE RunStep
  <2>1. InRun /\ run # 0 /\ mode' = mode /\ run' = run /\ cfg' = cfg
    BY <1>7 DEF RunStep, PlainStep, PlainFails, StepRaises, RestoreSnapshot, CleanLocalState,
                CleanLocalStateFails, StartVM, StartVMWithoutIP, StopVM, StopVMFails,
                AgentStarts, AgentStartFails, AgentStartIsRetried, AgentStops, AgentStopFails,
                LaunchSample, DetonationIsRetried, Detonated, CollectTelemetry, StaticResult,
                BuildReport, BuildReportFails, InRun, BreaksAndRetries
  <2>2. ASSUME NEW s \in StepSet, s # "build_report", Goto(FirstFrom(Index[s] + 1))
        PROVE  at' \in StepSet /\ tries' \in 0 .. MaxTries - 1
    BY <1>0, <2>2, Forward DEF Onward
  <2>3. ASSUME NEW s \in StepSet, s # "build_report", Proceed(s)
        PROVE  /\ at' \in StepSet /\ tries' \in 0 .. MaxTries - 1
               /\ done' \subseteq StepSet /\ raised' \in BOOLEAN
    BY <2>2, <2>3 DEF Proceed
  <2>4. ASSUME NEW s \in StepSet, s # "build_report", GoOn(s)
        PROVE  /\ at' \in StepSet /\ tries' \in 0 .. MaxTries - 1
               /\ done' \subseteq StepSet /\ raised' \in BOOLEAN
    BY <2>2, <2>4 DEF GoOn
  <2>5. ASSUME Raise
        PROVE  /\ at' \in StepSet /\ tries' \in 0 .. MaxTries - 1
               /\ done' \subseteq StepSet /\ raised' \in BOOLEAN
    BY <1>0, <2>5, Out
  <2>6. CASE PlainStep
    <3>1. at \in StepSet /\ at # "build_report" /\ Proceed(at)
      BY <2>6, PlainPlaces, Numbers DEF PlainStep
    <3> QED BY <2>1, <2>3, <2>6, <3>1 DEF PlainStep
  <2>7. CASE PlainFails
    <3>1. at \in StepSet /\ at # "build_report" /\ GoOn(at) /\ at \in Tolerated
      BY <2>7, PlainPlaces, Numbers DEF PlainFails
    <3> QED BY <2>1, <2>4, <2>7, <3>1, FaultType, NoteType DEF PlainFails
  <2>8. CASE StepRaises
    BY <2>1, <2>5, <2>8, FaultType DEF StepRaises
  <2>9. CASE RestoreSnapshot
    <3>1. Proceed("restore_snapshot")
      BY <2>9 DEF RestoreSnapshot
    <3>2. on' \in BOOLEAN
      BY <2>9, Zenon DEF RestoreSnapshot
    <3>3. procs' \subseteq Process /\ file' \in [Agents -> SUBSET Runs]
      BY <2>9 DEF RestoreSnapshot
    <3> QED BY <2>1, <2>3, <2>9, <3>1, <3>2, <3>3, Numbers DEF RestoreSnapshot
  <2>10. CASE CleanLocalState
    <3>1. Proceed("clean_local_state")
      BY <2>10 DEF CleanLocalState
    <3>2. file' \in [Agents -> SUBSET Runs]
      BY <2>10 DEF CleanLocalState
    <3> QED BY <2>1, <2>3, <2>10, <3>1, <3>2, Numbers DEF CleanLocalState
  <2>11. CASE CleanLocalStateFails
    <3>1. GoOn("clean_local_state") /\ NoteFailure("clean_local_state")
      BY <2>11 DEF CleanLocalStateFails
    <3>2. info' \cup held' \cup failed' \subseteq Tolerated
      BY <3>1, NoteType DEF Tolerated
    <3> QED BY <2>1, <2>4, <2>11, <3>1, <3>2, FaultType, Numbers DEF CleanLocalStateFails
  <2>12. CASE StartVM
    <3>1. Proceed("start_vm")
      BY <2>12 DEF StartVM
    <3> QED BY <2>1, <2>3, <2>12, <3>1, Numbers DEF StartVM
  <2>13. CASE StartVMWithoutIP
    BY <2>1, <2>5, <2>13, FaultType DEF StartVMWithoutIP
  <2>14. CASE StopVM
    <3>1. on' \in BOOLEAN
      BY <2>14, Zenon DEF StopVM
    <3>2. procs' \subseteq Process
      BY <2>14 DEF StopVM
    <3>3. \/ at' = "idle" /\ tries' = 0 /\ UNCHANGED <<done, raised>>
          \/ Proceed("stop_vm")
      BY <2>14 DEF StopVM, Goto
    <3>4. /\ at' \in StepSet \cup {"idle"} /\ tries' \in 0 .. MaxTries - 1
          /\ done' \subseteq StepSet /\ raised' \in BOOLEAN
      BY <1>0, <2>3, <3>3, Numbers
    <3> QED BY <2>1, <2>14, <3>1, <3>2, <3>4 DEF StopVM
  <2>15. CASE StopVMFails
    <3>1. \/ at' = "idle" /\ tries' = 0 /\ UNCHANGED <<done, raised>>
          \/ GoOn("stop_vm")
      BY <2>15 DEF StopVMFails, Goto
    <3>2. /\ at' \in StepSet \cup {"idle"} /\ tries' \in 0 .. MaxTries - 1
          /\ done' \subseteq StepSet /\ raised' \in BOOLEAN
      BY <1>0, <2>4, <3>1, Numbers
    <3>3. failed' \subseteq Tolerated
      BY <2>15 DEF StopVMFails, Tolerated
    <3> QED BY <2>1, <2>15, <3>2, <3>3, FaultType DEF StopVMFails
  <2>16. ASSUME NEW k \in Agents, AgentStarts(k) PROVE TypeOK' /\ Numbered'
    <3>1. at \in StepSet /\ at # "build_report" /\ Proceed(at)
      BY <2>16, AgentPlaces, Numbers DEF AgentStarts
    <3>2. procs' \subseteq Process /\ file' \in [Agents -> SUBSET Runs]
      BY <2>1, <2>16, SpawnedType DEF AgentStarts
    <3>3. pid' \in [Agents -> 0 .. MaxTries]
      BY <1>0, <2>16 DEF AgentStarts
    <3> QED BY <2>1, <2>3, <2>16, <3>1, <3>2, <3>3 DEF AgentStarts
  <2>17. ASSUME NEW k \in Agents, AgentStartFails(k) PROVE TypeOK' /\ Numbered'
    <3>1. at \in StepSet /\ at # "build_report" /\ GoOn(at) /\ at \in Tolerated
      BY <2>17, AgentPlaces, Numbers DEF AgentStartFails
    <3>2. procs' \subseteq Process /\ file' \in [Agents -> SUBSET Runs]
      BY <2>1, <2>17, SpawnedType DEF AgentStartFails
    <3> QED BY <2>1, <2>4, <2>17, <3>1, <3>2, FaultType, NoteType DEF AgentStartFails
  <2>18. ASSUME NEW k \in Agents, AgentStartIsRetried(k) PROVE TypeOK' /\ Numbered'
    <3>1. procs' \subseteq Process /\ file' \in [Agents -> SUBSET Runs]
      BY <2>1, <2>18, SpawnedType DEF AgentStartIsRetried
    <3>2. tries' \in 0 .. MaxTries - 1
      BY <1>0, <2>18 DEF AgentStartIsRetried, BreaksAndRetries
    <3> QED BY <2>1, <2>18, <3>1, <3>2, FaultType DEF AgentStartIsRetried, BreaksAndRetries
  <2>19. ASSUME NEW k \in Agents, AgentStops(k) PROVE TypeOK' /\ Numbered'
    <3>1. at \in StepSet /\ at # "build_report" /\ Proceed(at)
      BY <2>19, AgentPlaces, Numbers DEF AgentStops
    <3>2. procs' \subseteq Process /\ forced' \subseteq Agents
      BY <2>19 DEF AgentStops
    <3> QED BY <2>1, <2>3, <2>19, <3>1, <3>2 DEF AgentStops
  <2>20. ASSUME NEW k \in Agents, AgentStopFails(k) PROVE TypeOK' /\ Numbered'
    <3>1. at \in StepSet /\ at # "build_report" /\ GoOn(at) /\ at \in Tolerated
      BY <2>20, AgentPlaces, Numbers DEF AgentStopFails
    <3>2. procs' \subseteq Process
      BY <2>20 DEF AgentStopFails
    <3> QED BY <2>1, <2>4, <2>20, <3>1, <3>2, FaultType, NoteType DEF AgentStopFails
  <2>21. CASE LaunchSample
    <3>1. Proc("sample", tries + 1) \in Process
      <4>1. tries + 1 \in 1 .. MaxTries
        BY <1>0
      <4> QED BY <2>1, <4>1, ProcType
    <3> QED BY <2>1, <2>21, <3>1 DEF LaunchSample
  <2>22. CASE DetonationIsRetried
    <3>1. tries' \in 0 .. MaxTries - 1
      BY <1>0, <2>22 DEF DetonationIsRetried, BreaksAndRetries
    <3> QED BY <2>1, <2>22, <3>1, FaultType, Numbers DEF DetonationIsRetried, BreaksAndRetries
  <2>23. CASE Detonated
    <3>1. /\ Goto(FirstFrom(Index["execute_sample"] + 1))
          /\ done' = done \cup {"execute_sample"} /\ raised' = raised
      BY <2>23 DEF Detonated
    <3>2. /\ at' \in StepSet /\ tries' \in 0 .. MaxTries - 1
          /\ done' \subseteq StepSet /\ raised' \in BOOLEAN
      BY <2>2, <3>1, Numbers
    <3>3. info' \subseteq Tolerated
      BY <2>23 DEF Detonated
    <3> QED BY <2>1, <2>23, <3>2, <3>3 DEF Detonated
  <2>24. CASE CollectTelemetry
    <3>1. Proceed("telemetry_collect")
      BY <2>24 DEF CollectTelemetry
    <3>2. evidence' \subseteq Runs /\ readOpen' \subseteq Agents
      BY <2>24 DEF CollectTelemetry
    <3> QED BY <2>1, <2>3, <2>24, <3>1, <3>2, Numbers DEF CollectTelemetry
  <2>25. CASE StaticResult
    <3>1. Proceed("static_result")
      BY <2>25 DEF StaticResult
    <3> QED BY <2>1, <2>3, <2>25, <3>1, Numbers DEF StaticResult
  <2>26. CASE BuildReport
    <3>1. /\ report'.status \in {"completed", "failed"}
          /\ info \cup (held \cap Sections) \cup {s \in {"stop_vm"} : error} \subseteq Tolerated
      BY <2>26 DEF BuildReport, Tolerated
    <3>2. report' \in [status : {"completed", "failed"}, failures : SUBSET Tolerated,
                       forced : SUBSET Agents, evidence : SUBSET Runs]
      BY <2>26, <3>1 DEF BuildReport
    <3> QED BY <1>0, <2>1, <2>26, <3>2 DEF BuildReport, Goto
  <2>27. CASE BuildReportFails
    BY <1>0, <2>1, <2>27, FaultType DEF BuildReportFails, Goto
  <2> QED BY <1>7, <2>6, <2>7, <2>8, <2>9, <2>10, <2>11, <2>12, <2>13, <2>14, <2>15, <2>16,
             <2>17, <2>18, <2>19, <2>20, <2>21, <2>22, <2>23, <2>24, <2>25, <2>26, <2>27
             DEF RunStep
<1>8. CASE UNCHANGED vars
  BY <1>8 DEF vars
<1> QED BY <1>2, <1>3, <1>4, <1>5, <1>6, <1>7, <1>8 DEF Next

(* Every reachable state is well typed.                                    *)
THEOREM TypeCorrect == Spec => []TypeOK
BY TypeStart, TypeStep, PTL DEF Spec

-----------------------------------------------------------------------------
(* The walk through the steps.                                             *)

(* An exception only leads through the finally block.                      *)
Unwinding == raised => at = "idle" \/ (at \in StepSet /\ Index[at] \in 21 .. 23)

(* A VM's guest has nothing in it but what belongs to the current run.     *)
Own ==
  /\ \A p \in procs : p.run = run
  /\ \A k \in Agents : file[k] \subseteq {run}

OwnInv ==
  ~Local =>
    /\ at \notin {"idle", "ensure_snapshot", "restore_snapshot"} /\ ~raised => Own
    /\ evidence \subseteq {run}
    /\ EvidenceIsOwn

(* Beyond stop_vm the VM is off.                                           *)
OffInv ==
  ~Local =>
    /\ at \in {"static_result", "build_report"} =>
         "stop_vm" \in failed \/ (~on /\ procs = {})
    /\ VMIsOffAfterTheRun

(* The dictionary that execute_sample makes takes over what had been put   *)
(* aside; what is noted later is noted in it.                              *)
UpToExecute == at = "detonating" \/ (at \in StepSet /\ Index[at] <= 15)
Recorded == {"clean_local_state"} \cup info \cup (held \cap Sections)

NotedInv ==
  /\ held \subseteq Surfaced \cup Sections
  /\ at # "idle" => report = NoReport
  /\ at # "idle" /\ ~raised =>
       IF UpToExecute
       THEN failed \subseteq {"clean_local_state"} \cup held
       ELSE \A s \in failed : s \in Recorded \/ (s = "stop_vm" /\ error)
  /\ FailuresAreReported

(* What is known of an agent after its stop: the stop was not left out,    *)
(* and if it seemed to go well the agent is gone or its stop was not       *)
(* graceful; who still runs when telemetry is collected is of those.       *)
Tried(k) ==
  StartStep[k] \in done /\ ~raised /\ at \in StepSet /\ Index[at] > Index[StopStep[k]] =>
    StopStep[k] \in done \cup failed

Stopped(k) ==
  StopStep[k] \in done =>
    /\ at = "idle" \/ (at \in StepSet /\ Index[at] >= 16)
    /\ Proc(k, pid[k]) \in procs => k \in forced

Told(k) ==
  /\ k \in readOpen => StopStep[k] \in failed \/ k \in forced
  /\ report # NoReport /\ k \in forced => k \in report.forced

IInv == TypeOK /\ Numbered /\ Unwinding /\ OwnInv /\ OffInv /\ NotedInv
          /\ \A k \in Agents : Tried(k) /\ Stopped(k) /\ Told(k)

(* What a step of the run does to where it is.                             *)
Moves ==
  \/ UNCHANGED <<at, raised, done>>
  \/ at = "execute_sample" /\ at' = "detonating" /\ UNCHANGED <<raised, done>>
  \/ at = "detonating" /\ at' = "execute_sample" /\ UNCHANGED <<raised, done>>
  \/ /\ Detonated /\ at = "detonating" /\ Onward(16, at') /\ at' = FirstFrom(16)
     /\ raised' = raised /\ done' = done \cup {"execute_sample"}
  \/ /\ at \in StepSet \ {"execute_sample"} /\ (at = "stop_vm" => ~raised)
     /\ Onward(Index[at] + 1, at') /\ at' = FirstFrom(Index[at] + 1)
     /\ raised' = raised /\ done' \in {done, done \cup {at}}
     /\ at \in done' \cup failed'
  \/ raised' = TRUE /\ at' \in StepSet /\ Index[at'] \in 21 .. 23 /\ done' = done
  \/ at' = "idle" /\ at \in {"stop_vm", "build_report"} /\ done' = done

LEMMA Walk ==
  ASSUME TypeOK, RunStep
  PROVE  Moves /\ at # "idle" /\ run' = run /\ mode' = mode
<1>1. at # "idle" /\ run' = run /\ mode' = mode
  BY DEF RunStep, PlainStep, PlainFails, StepRaises, RestoreSnapshot, CleanLocalState,
         CleanLocalStateFails, StartVM, StartVMWithoutIP, StopVM, StopVMFails,
         AgentStarts, AgentStartFails, AgentStartIsRetried, AgentStops, AgentStopFails,
         LaunchSample, DetonationIsRetried, Detonated, CollectTelemetry, StaticResult,
         BuildReport, BuildReportFails, InRun, BreaksAndRetries
<1> SUFFICES Moves
  BY <1>1
<1>2. ASSUME at \in StepSet, at \notin {"build_report", "execute_sample"}, Proceed(at),
             at = "stop_vm" => ~raised
      PROVE  Moves
  BY <1>2, Forward DEF Proceed, Goto, Moves
<1>3. ASSUME at \in StepSet, at \notin {"build_report", "execute_sample"}, GoOn(at),
             at = "stop_vm" => ~raised, at \in failed'
      PROVE  Moves
  BY <1>3, Forward DEF GoOn, Goto, Moves
<1>4. ASSUME Raise PROVE Moves
  BY <1>4, Out DEF Moves
<1>5. CASE PlainStep
  <2>1. at \in StepSet /\ at \notin {"build_report", "stop_vm", "execute_sample"} /\ Proceed(at)
    BY <1>5, PlainPlaces, Numbers DEF PlainStep, Plain
  <2> QED BY <1>2, <2>1
<1>6. CASE PlainFails
  <2>1. /\ at \in StepSet /\ at \notin {"build_report", "stop_vm", "execute_sample"}
        /\ GoOn(at) /\ at \in failed'
    BY <1>6, PlainPlaces, Numbers DEF PlainFails, Plain, NoteFailure
  <2> QED BY <1>3, <2>1
<1>7. CASE StepRaises \/ StartVMWithoutIP
  BY <1>4, <1>7 DEF StepRaises, StartVMWithoutIP
<1>8. CASE RestoreSnapshot \/ CleanLocalState \/ StartVM \/ CollectTelemetry \/ StaticResult
  <2>1. at \in StepSet /\ at \notin {"build_report", "stop_vm", "execute_sample"} /\ Proceed(at)
    BY <1>8, Numbers DEF RestoreSnapshot, CleanLocalState, StartVM, CollectTelemetry, StaticResult
  <2> QED BY <1>2, <2>1
<1>9. CASE CleanLocalStateFails
  <2>1. /\ at \in StepSet /\ at \notin {"build_report", "stop_vm", "execute_sample"}
        /\ GoOn(at) /\ at \in failed'
    BY <1>9, Numbers DEF CleanLocalStateFails, NoteFailure
  <2> QED BY <1>3, <2>1
<1>10. CASE StopVM \/ StopVMFails
  <2>1. \/ at' = "idle" /\ done' = done
        \/ (Proceed(at) \/ (GoOn(at) /\ at \in failed')) /\ ~raised
    BY <1>10 DEF StopVM, StopVMFails, Goto
  <2>2. at = "stop_vm" /\ at \in StepSet
    BY <1>10, Numbers DEF StopVM, StopVMFails
  <2> QED BY <1>2, <1>3, <2>1, <2>2 DEF Moves
<1>11. ASSUME NEW k \in Agents,
              \/ AgentStarts(k) \/ AgentStartFails(k) \/ AgentStops(k) \/ AgentStopFails(k)
       PROVE  Moves
  <2>1. /\ at \in StepSet /\ at \notin {"build_report", "stop_vm", "execute_sample"}
        /\ Proceed(at) \/ (GoOn(at) /\ at \in failed')
    BY <1>11, AgentPlaces, Numbers
       DEF AgentStarts, AgentStartFails, AgentStops, AgentStopFails, NoteFailure
  <2> QED BY <1>2, <1>3, <2>1
<1>12. ASSUME NEW k \in Agents, AgentStartIsRetried(k) PROVE Moves
  BY <1>12 DEF AgentStartIsRetried, BreaksAndRetries, Moves
<1>13. CASE LaunchSample \/ DetonationIsRetried
  BY <1>13 DEF LaunchSample, DetonationIsRetried, BreaksAndRetries, Moves
<1>14. CASE Detonated
  <2>1. at = "detonating" /\ Onward(16, at') /\ at' = FirstFrom(16)
    BY <1>14, Goes, Numbers DEF Detonated, Goto
  <2>2. raised' = raised /\ done' = done \cup {"execute_sample"}
    BY <1>14 DEF Detonated
  <2> QED BY <1>14, <2>1, <2>2 DEF Moves
<1>15. CASE BuildReport
  <2>1. at' = "idle" /\ at = "build_report" /\ done' = done
    BY <1>15 DEF BuildReport, Goto
  <2> QED BY <2>1 DEF Moves
<1>16. CASE BuildReportFails
  <2>1. at' = "idle" /\ at = "build_report" /\ done' = done
    BY <1>16 DEF BuildReportFails, Goto
  <2> QED BY <2>1 DEF Moves
<1> QED BY <1>1, <1>5, <1>6, <1>7, <1>8, <1>9, <1>10, <1>11, <1>12, <1>13, <1>14, <1>15,
           <1>16 DEF RunStep

LEMMA UnwindingStep == TypeOK /\ Unwinding /\ [Next]_vars => Unwinding'
<1> SUFFICES ASSUME TypeOK, Unwinding, [Next]_vars PROVE Unwinding'
  OBVIOUS
<1>1. CASE RunStep
  <2>1. Moves /\ at # "idle"
    BY <1>1, Walk
  <2>2. Index["stop_vm"] = 23 /\ "stop_vm" \in StepSet /\ Index["execute_sample"] = 15
    BY Numbers
  <2>3. \A s \in StepSet : Index[s] \in 1 .. 25 /\ (Index[s] = 23 => s = "stop_vm")
    BY Places, <2>2
  <2>4. CASE ~raised
    BY <2>1, <2>4 DEF Unwinding, Moves
  <2>5. CASE raised
    <3>1. at \in StepSet /\ Index[at] \in 21 .. 23
      BY <2>1, <2>5 DEF Unwinding
    <3>2. at \notin {"execute_sample", "detonating"}
      BY <2>2, <3>1, Apart
    <3>3. at # "stop_vm" => Index[at] \in 21 .. 22
      BY <2>3, <3>1
    <3> QED BY <2>1, <2>3, <2>5, <3>1, <3>2, <3>3 DEF Unwinding, Moves, Onward
  <2> QED BY <2>4, <2>5
<1>2. CASE StartRun
  BY <1>2 DEF StartRun, NewRun, Unwinding
<1>3. CASE ReportUnrunnable
  BY <1>3 DEF ReportUnrunnable, NewRun, Unwinding
<1>4. CASE UNCHANGED <<at, raised>>
  BY <1>4 DEF Unwinding
<1>5. ASSUME NEW r \in analysing, StaticEnds(r) PROVE Unwinding'
  BY <1>4, <1>5 DEF StaticEnds
<1>6. ASSUME NEW p \in procs, ProcEnds(p) \/ \E k \in Agents : SampleLogs(p, k)
      PROVE  Unwinding'
  BY <1>4, <1>6 DEF ProcEnds, SampleLogs
<1>7. CASE UNCHANGED vars
  BY <1>4, <1>7 DEF vars
<1> QED BY <1>1, <1>2, <1>3, <1>5, <1>6, <1>7 DEF Next

-----------------------------------------------------------------------------
(* The evidence.                                                           *)

LEMMA SpawnedOwn ==
  ASSUME TypeOK, Own, NEW k \in Agents, Spawned(k), run' = run
  PROVE  Own'
  BY DEF TypeOK, Own, Spawned, Proc

LEMMA OwnKept ==
  ASSUME TypeOK, Own, RunStep
  PROVE  Own'
<1>1. run' = run
  BY Walk
<1>2. ASSUME procs' \subseteq procs, \A k \in Agents : file'[k] \subseteq file[k] PROVE Own'
  BY <1>1, <1>2 DEF Own
<1>3. CASE \/ PlainStep \/ PlainFails \/ StepRaises \/ CleanLocalStateFails
           \/ StartVM \/ StartVMWithoutIP \/ StopVM \/ StopVMFails
           \/ DetonationIsRetried \/ Detonated \/ CollectTelemetry \/ StaticResult
           \/ BuildReport \/ BuildReportFails
  BY <1>2, <1>3 DEF PlainStep, PlainFails, StepRaises, CleanLocalStateFails, StartVM,
     StartVMWithoutIP, StopVM, StopVMFails, DetonationIsRetried, Detonated,
     CollectTelemetry, StaticResult, BuildReport, BuildReportFails
<1>4. CASE RestoreSnapshot \/ CleanLocalState
  BY <1>2, <1>4 DEF RestoreSnapshot, CleanLocalState
<1>5. ASSUME NEW k \in Agents, AgentStarts(k) PROVE Own'
  BY <1>1, <1>5, SpawnedOwn DEF AgentStarts
<1>6. ASSUME NEW k \in Agents, AgentStartFails(k) \/ AgentStartIsRetried(k) PROVE Own'
  <2>1. Spawned(k) \/ UNCHANGED <<procs, file>>
    BY <1>6 DEF AgentStartFails, AgentStartIsRetried
  <2> QED BY <1>1, <1>2, <2>1, SpawnedOwn
<1>7. ASSUME NEW k \in Agents, AgentStops(k) \/ AgentStopFails(k) PROVE Own'
  BY <1>2, <1>7 DEF AgentStops, AgentStopFails
<1>8. CASE LaunchSample
  BY <1>1, <1>8 DEF LaunchSample, Own, Proc
<1> QED BY <1>3, <1>4, <1>5, <1>6, <1>7, <1>8 DEF RunStep

LEMMA OwnStep ==
  TypeOK /\ Unwinding /\ OwnInv /\ NotedInv /\ [Next]_vars => OwnInv'
<1> SUFFICES ASSUME TypeOK, Unwinding, OwnInv, NotedInv, [Next]_vars, ~Local'
             PROVE  OwnInv'
  BY DEF OwnInv
<1>0. ~Local
  BY DEF Next, StartRun, ReportUnrunnable, NewRun, RunStep, StaticEnds, ProcEnds, SampleLogs,
         vars, Local, PlainStep, PlainFails, StepRaises, RestoreSnapshot, CleanLocalState,
         CleanLocalStateFails, StartVM, StartVMWithoutIP, StopVM, StopVMFails,
         AgentStarts, AgentStartFails, AgentStartIsRetried, AgentStops, AgentStopFails,
         LaunchSample, DetonationIsRetried, Detonated, CollectTelemetry, StaticResult,
         BuildReport, BuildReportFails, InRun, BreaksAndRetries
<1>1. CASE RunStep
  <2>1. Moves /\ at # "idle" /\ run' = run
    BY <1>1, Walk
  <2>2. at' \notin {"idle", "ensure_snapshot", "restore_snapshot"} /\ ~raised' => Own'
    <3> SUFFICES ASSUME at' \notin {"idle", "ensure_snapshot", "restore_snapshot"}, ~raised'
                 PROVE  Own'
      OBVIOUS
    <3>1. CASE at = "restore_snapshot"
      <4>1. RestoreSnapshot
        BY <1>1, <3>1, AgentPlaces, Numbers
           DEF RunStep, PlainStep, PlainFails, StepRaises, Raise, CleanLocalState, Plain,
               CleanLocalStateFails, StartVM, StartVMWithoutIP, StopVM, StopVMFails,
               AgentStarts, AgentStartFails, AgentStartIsRetried, AgentStops, AgentStopFails,
               LaunchSample, DetonationIsRetried, Detonated, CollectTelemetry, StaticResult,
               BuildReport, BuildReportFails
      <4> QED BY <1>0, <4>1 DEF RestoreSnapshot, Own
    <3>2. CASE at = "ensure_snapshot"
      <4>1. Index[at] = 1 /\ at \in StepSet
        BY <3>2, Numbers
      <4>2. at' \in StepSet => Index[at'] > 2
        BY Places, Numbers
      <4> QED BY <2>1, <3>2, <4>1, <4>2, Apart DEF Moves, Onward
    <3>3. CASE at \notin {"ensure_snapshot", "restore_snapshot"}
      <4>1. ~raised
        BY <2>1 DEF Moves
      <4> QED BY <1>0, <1>1, <2>1, <3>3, <4>1, OwnKept DEF OwnInv
    <3> QED BY <3>1, <3>2, <3>3
  <2>3. evidence' \subseteq {run}
    <3>1. CASE CollectTelemetry
      <4>1. at = "telemetry_collect" /\ Index[at] = 19
        BY <3>1, Numbers DEF CollectTelemetry
      <4>2. ~raised
        BY <4>1 DEF Unwinding
      <4>3. Own
        BY <1>0, <4>1, <4>2 DEF OwnInv
      <4> QED BY <3>1, <4>3 DEF CollectTelemetry, Own
    <3>2. CASE ~CollectTelemetry
      <4>1. evidence' = evidence
        BY <1>1, <3>2
           DEF RunStep, PlainStep, PlainFails, StepRaises, RestoreSnapshot, CleanLocalState,
               CleanLocalStateFails, StartVM, StartVMWithoutIP, StopVM, StopVMFails,
               AgentStarts, AgentStartFails, AgentStartIsRetried, AgentStops, AgentStopFails,
               LaunchSample, DetonationIsRetried, Detonated, StaticResult,
               BuildReport, BuildReportFails
      <4> QED BY <1>0, <4>1 DEF OwnInv
    <3> QED BY <3>1, <3>2
  <2>4. report' # NoReport => report'.evidence \subseteq {run}
    <3>1. CASE BuildReport
      BY <1>0, <3>1 DEF BuildReport, OwnInv
    <3>2. CASE ~BuildReport
      <4>1. report' = report
        BY <1>1, <3>2
           DEF RunStep, PlainStep, PlainFails, StepRaises, RestoreSnapshot, CleanLocalState,
               CleanLocalStateFails, StartVM, StartVMWithoutIP, StopVM, StopVMFails,
               AgentStarts, AgentStartFails, AgentStartIsRetried, AgentStops, AgentStopFails,
               LaunchSample, DetonationIsRetried, Detonated, CollectTelemetry, StaticResult,
               BuildReportFails
      <4> QED BY <2>1, <4>1 DEF NotedInv
    <3> QED BY <3>1, <3>2
  <2> QED BY <2>1, <2>2, <2>3, <2>4 DEF OwnInv, EvidenceIsOwn
<1>2. CASE StartRun
  BY <1>2 DEF StartRun, NewRun, Goto, OwnInv, EvidenceIsOwn
<1>3. CASE ReportUnrunnable
  BY <1>3 DEF ReportUnrunnable, NewRun, OwnInv, EvidenceIsOwn, NoReport
<1>4. ASSUME UNCHANGED <<at, raised, run, evidence, report>>, Own => Own' PROVE OwnInv'
  BY <1>0, <1>4 DEF OwnInv, EvidenceIsOwn
<1>5. ASSUME NEW r \in analysing, StaticEnds(r) PROVE OwnInv'
  BY <1>4, <1>5 DEF StaticEnds, Own
<1>6. ASSUME NEW p \in procs, ProcEnds(p) PROVE OwnInv'
  BY <1>4, <1>6 DEF ProcEnds, Own
<1>7. ASSUME NEW p \in procs, NEW k \in Agents, SampleLogs(p, k) PROVE OwnInv'
  <2>1. Own => Own'
    BY <1>7 DEF SampleLogs, Own, TypeOK, Of
  <2> QED BY <1>4, <1>7, <2>1 DEF SampleLogs
<1>8. CASE UNCHANGED vars
  BY <1>4, <1>8 DEF vars, Own
<1> QED BY <1>1, <1>2, <1>3, <1>5, <1>6, <1>7, <1>8 DEF Next

-----------------------------------------------------------------------------
(* The VM after the run.                                                   *)

LEMMA OffStep == TypeOK /\ OffInv /\ [Next]_vars => OffInv'
<1> SUFFICES ASSUME TypeOK, OffInv, [Next]_vars, ~Local' PROVE OffInv'
  BY DEF OffInv
<1>0. mode' = mode
  <2>1. CASE RunStep
    BY <2>1, Walk
  <2> QED BY <2>1 DEF Next, StartRun, ReportUnrunnable, NewRun, StaticEnds, ProcEnds,
                      SampleLogs, vars
<1>1. ~Local
  BY <1>0 DEF Local
<1>2. CASE RunStep
  <2>1. Moves /\ at # "idle"
    BY <1>2, Walk
  <2>2. CASE at \in {"static_result", "build_report"}
    <3>1. StaticResult \/ BuildReport \/ BuildReportFails
      BY <1>2, <2>2, AgentPlaces, Numbers
         DEF RunStep, PlainStep, PlainFails, StepRaises, RestoreSnapshot, Plain,
             CleanLocalState, CleanLocalStateFails, StartVM, StartVMWithoutIP, StopVM,
             StopVMFails, AgentStarts, AgentStartFails, AgentStartIsRetried, AgentStops,
             AgentStopFails, LaunchSample, DetonationIsRetried, Detonated, CollectTelemetry
    <3>2. UNCHANGED <<on, procs, failed>>
      BY <3>1 DEF StaticResult, BuildReport, BuildReportFails
    <3> QED BY <1>1, <2>2, <3>2 DEF OffInv, VMIsOffAfterTheRun
  <2>3. CASE at = "stop_vm"
    <3>1. StopVM \/ StopVMFails
      BY <1>2, <2>3, AgentPlaces, Numbers
         DEF RunStep, PlainStep, PlainFails, StepRaises, RestoreSnapshot, Plain,
             CleanLocalState, CleanLocalStateFails, StartVM, StartVMWithoutIP,
             AgentStarts, AgentStartFails, AgentStartIsRetried, AgentStops,
             AgentStopFails, LaunchSample, DetonationIsRetried, Detonated, CollectTelemetry,
             StaticResult, BuildReport, BuildReportFails
    <3>2. "stop_vm" \in failed' \/ (~on' /\ procs' = {})
      BY <1>1, <2>3, <3>1 DEF StopVM, StopVMFails
    <3> QED BY <3>2 DEF OffInv, VMIsOffAfterTheRun
  <2>4. CASE at \notin {"static_result", "build_report", "stop_vm"}
    <3>1. at' # "idle"
      BY <2>1, <2>4, Apart DEF Moves, Onward
    <3>2. at' \notin {"static_result", "build_report"}
      <4>1. /\ Index["static_result"] = 24 /\ Index["build_report"] = 25
            /\ "detonating" \notin {"static_result", "build_report"}
        BY Numbers
      <4>2. at \in StepSet => Index[at] \in 1 .. 22
        BY <2>4, Places, Numbers
      <4> QED BY <2>1, <2>4, <4>1, <4>2 DEF Moves, Onward
    <3> QED BY <3>1, <3>2 DEF OffInv, VMIsOffAfterTheRun
  <2> QED BY <2>2, <2>3, <2>4
<1>3. CASE StartRun
  BY <1>3 DEF StartRun, Goto, OffInv, VMIsOffAfterTheRun
<1>4. CASE ReportUnrunnable
  BY <1>4 DEF ReportUnrunnable, NewRun, OffInv, VMIsOffAfterTheRun
<1>5. ASSUME UNCHANGED <<at, raised, done, failed, on>>, procs' \subseteq procs PROVE OffInv'
  BY <1>1, <1>5 DEF OffInv, VMIsOffAfterTheRun
<1>6. ASSUME NEW r \in analysing, StaticEnds(r) PROVE OffInv'
  BY <1>5, <1>6 DEF StaticEnds
<1>7. ASSUME NEW p \in procs, ProcEnds(p) \/ \E k \in Agents : SampleLogs(p, k) PROVE OffInv'
  BY <1>5, <1>7 DEF ProcEnds, SampleLogs
<1>8. CASE UNCHANGED vars
  BY <1>5, <1>8 DEF vars
<1> QED BY <1>2, <1>3, <1>4, <1>6, <1>7, <1>8 DEF Next

-----------------------------------------------------------------------------
(* What went wrong.                                                        *)

(* Only the end of execute_sample leads past it without an exception.      *)
LEMMA Sides ==
  ASSUME TypeOK, RunStep, ~Detonated, ~raised', at' # "idle"
  PROVE  ~raised /\ (UpToExecute' <=> UpToExecute)
<1>1. Moves
  BY Walk
<1>2. /\ "execute_sample" \in StepSet /\ Index["execute_sample"] = 15
      /\ \A s \in StepSet : Index[s] \in 1 .. 25 /\ (Index[s] = 15 => s = "execute_sample")
  BY Places, Numbers
<1>3. ~raised
  BY <1>1 DEF Moves
<1>4. CASE at = "detonating" \/ at' = at \/ at = "execute_sample"
  BY <1>1, <1>2, <1>4, Apart DEF Moves, UpToExecute
<1>5. CASE at \notin {"detonating", "execute_sample"} /\ at' # at
  <2>1. at \in StepSet /\ Index[at] # 15 /\ Onward(Index[at] + 1, at')
    BY <1>1, <1>2, <1>5 DEF Moves
  <2>2. at' \in StepSet /\ Index[at'] > Index[at] /\ (Index[at] <= 14 => Index[at'] <= 15)
    BY <1>2, <2>1 DEF Onward
  <2>3. Index[at] \in 1 .. 25 /\ Index[at'] \in 1 .. 25
    BY <1>2, <2>1, <2>2
  <2>4. UpToExecute <=> Index[at] <= 15
    BY <2>1, Apart DEF UpToExecute
  <2>5. UpToExecute' <=> Index[at'] <= 15
    <3>1. at' \in StepSet /\ at' # "detonating"
      BY <2>2, Apart
    <3> QED BY <3>1 DEF UpToExecute
  <2> QED BY <1>3, <2>1, <2>2, <2>3, <2>4, <2>5
<1> QED BY <1>3, <1>4, <1>5

(* A step that notes nothing.                                              *)
LEMMA Silent ==
  ASSUME TypeOK, NotedInv, RunStep, ~Detonated, UNCHANGED <<noteVars, error, report>>
  PROVE  NotedInv'
<1>1. at # "idle" /\ report' = NoReport
  BY Walk DEF NotedInv
<1>2. at' # "idle" /\ ~raised' => ~raised /\ (UpToExecute' <=> UpToExecute)
  BY Sides
<1>3. Recorded' = Recorded
  BY DEF Recorded
<1> QED BY <1>1, <1>2, <1>3 DEF NotedInv, FailuresAreReported

(* A tolerated failure of the step the run is at.                          *)
LEMMA NotedFailure ==
  ASSUME TypeOK, NotedInv, RunStep, ~Detonated, NoteFailure(at), UNCHANGED <<error, report>>,
         UpToExecute => at \in {"clean_local_state"} \cup Surfaced \cup Sections,
         ~UpToExecute => at \notin Surfaced
  PROVE  NotedInv'
<1>1. at # "idle" /\ report' = NoReport
  BY Walk DEF NotedInv
<1>2. at' # "idle" /\ ~raised' => ~raised /\ (UpToExecute' <=> UpToExecute)
  BY Sides
<1>3. /\ failed' = failed \cup {at}
      /\ info \subseteq info' /\ held \subseteq held'
      /\ at \in Surfaced \cup Sections => at \in held'
      /\ at \notin Surfaced \cup Sections => at \in info'
      /\ held' \subseteq held \cup (Surfaced \cup Sections)
  BY DEF NoteFailure
<1>4. Recorded \subseteq Recorded' /\ (at \notin Surfaced => at \in Recorded')
  BY <1>3 DEF Recorded
<1> QED BY <1>1, <1>2, <1>3, <1>4 DEF NotedInv, FailuresAreReported

LEMMA NotedStep == TypeOK /\ Unwinding /\ NotedInv /\ [Next]_vars => NotedInv'
<1> SUFFICES ASSUME TypeOK, Unwinding, NotedInv, [Next]_vars PROVE NotedInv'
  OBVIOUS
<1>0. at \in StepSet \ {"execute_sample"} => (UpToExecute <=> Index[at] <= 14)
  BY Places, Numbers, Apart DEF UpToExecute
<1>1. CASE RunStep
  <2>0. at # "idle" /\ report = NoReport
    BY <1>1, Walk DEF NotedInv
  <2>1. CASE \/ PlainStep \/ StepRaises \/ RestoreSnapshot \/ CleanLocalState
             \/ StartVM \/ StartVMWithoutIP \/ StopVM \/ LaunchSample \/ DetonationIsRetried
             \/ CollectTelemetry \/ StaticResult \/ BuildReportFails
    <3>1. UNCHANGED <<noteVars, error, report>>
      BY <2>1 DEF PlainStep, StepRaises, RestoreSnapshot, CleanLocalState, StartVM,
         StartVMWithoutIP, StopVM, LaunchSample, DetonationIsRetried, CollectTelemetry,
         StaticResult, BuildReportFails
    <3>2. CASE ~Detonated
      BY <1>1, <3>1, <3>2, Silent
    <3>3. CASE Detonated
      <4>1. StepRaises \/ DetonationIsRetried
        BY <2>1, <3>3, Numbers
           DEF PlainStep, Plain, RestoreSnapshot, CleanLocalState, StartVM, StartVMWithoutIP,
               StopVM, LaunchSample, CollectTelemetry, StaticResult, BuildReportFails, Detonated
      <4>2. CASE StepRaises
        BY <2>0, <3>1, <4>2, Out DEF StepRaises, NotedInv, FailuresAreReported
      <4>3. CASE DetonationIsRetried
        <5>1. at' = "execute_sample" /\ raised' = raised /\ UpToExecute /\ UpToExecute'
          BY <4>3, Numbers DEF DetonationIsRetried, BreaksAndRetries, UpToExecute
        <5> QED BY <2>0, <3>1, <5>1 DEF NotedInv, FailuresAreReported
      <4> QED BY <4>1, <4>2, <4>3
    <3> QED BY <3>2, <3>3
  <2>2. ASSUME NEW k \in Agents, AgentStarts(k) \/ AgentStartIsRetried(k) \/ AgentStops(k)
        PROVE  NotedInv'
    <3>1. UNCHANGED <<noteVars, error, report>>
      BY <2>2 DEF AgentStarts, AgentStartIsRetried, AgentStops
    <3>2. ~Detonated
      BY <2>2, AgentPlaces, Apart DEF AgentStarts, AgentStartIsRetried, AgentStops, Detonated
    <3> QED BY <1>1, <3>1, <3>2, Silent
  <2>3. CASE PlainFails
    <3>1. /\ at \in Plain /\ at \in Tolerated /\ NoteFailure(at)
          /\ UNCHANGED <<error, report>>
      BY <2>3 DEF PlainFails
    <3>2. at \in StepSet \ {"execute_sample"}
      BY <3>1, PlainPlaces, Numbers DEF Plain
    <3>3. ~Detonated
      BY <3>2, Apart DEF Detonated
    <3>4. UpToExecute => at \in {"clean_local_state"} \cup Surfaced \cup Sections
      BY <3>1, PlainPlaces
    <3>5. ~UpToExecute => at \notin Surfaced
      <4>1. Index[at] \in 1 .. 22
        BY <3>1, PlainPlaces
      <4>2. at \in Surfaced => Index[at] <= 14
        BY Numbers DEF Surfaced
      <4> QED BY <1>0, <3>2, <4>1, <4>2
    <3> QED BY <1>1, <3>1, <3>3, <3>4, <3>5, NotedFailure
  <2>4. CASE CleanLocalStateFails
    <3>1. at = "clean_local_state" /\ NoteFailure(at) /\ UNCHANGED <<error, report>>
      BY <2>4 DEF CleanLocalStateFails
    <3>2. ~Detonated
      BY <3>1 DEF Detonated
    <3>3. at \notin Surfaced
      BY <3>1 DEF Surfaced
    <3> QED BY <1>1, <3>1, <3>2, <3>3, NotedFailure
  <2>5. ASSUME NEW k \in Agents, AgentStartFails(k) \/ AgentStopFails(k) PROVE NotedInv'
    <3>1. NoteFailure(at) /\ UNCHANGED <<error, report>>
      BY <2>5 DEF AgentStartFails, AgentStopFails
    <3>2. /\ at \in StepSet
          /\ \/ at \in Surfaced /\ Index[at] \in 12 .. 13
             \/ at \notin Surfaced /\ Index[at] \in 16 .. 17
      BY <2>5, AgentPlaces DEF AgentStartFails, AgentStopFails
    <3>3. at # "execute_sample" /\ ~Detonated
      BY <3>2, Numbers, Apart DEF Detonated
    <3>4. UpToExecute => at \in {"clean_local_state"} \cup Surfaced \cup Sections
      BY <1>0, <3>2, <3>3
    <3>5. ~UpToExecute => at \notin Surfaced
      BY <1>0, <3>2, <3>3
    <3> QED BY <1>1, <3>1, <3>3, <3>4, <3>5, NotedFailure
  <2>6. CASE StopVMFails
    <3>1. at = "stop_vm" /\ ~Detonated
      BY <2>6 DEF StopVMFails, Detonated
    <3>2. /\ UNCHANGED <<info, held, report>>
          /\ failed' = failed \cup {"stop_vm"} /\ error' = TRUE
      BY <2>6, <3>1 DEF StopVMFails
    <3>3. ~UpToExecute
      BY <3>1, Numbers, Apart DEF UpToExecute
    <3>4. at' # "idle" /\ ~raised' => ~raised /\ ~UpToExecute'
      BY <1>1, <3>1, <3>3, Sides
    <3>5. Recorded' = Recorded
      BY <3>2 DEF Recorded
    <3> QED BY <2>0, <3>2, <3>3, <3>4, <3>5 DEF NotedInv, FailuresAreReported
  <2>7. CASE Detonated
    <3>1. /\ at = "detonating" /\ Onward(16, at') /\ raised' = raised
          /\ info' = held \cap Surfaced /\ UNCHANGED <<held, failed, error, report>>
      BY <2>7, Goes, Numbers DEF Detonated, Goto
    <3>2. UpToExecute /\ ~UpToExecute'
      BY <3>1, Apart DEF UpToExecute, Onward
    <3>3. ~raised => failed \subseteq {"clean_local_state"} \cup held
      BY <2>0, <3>2 DEF NotedInv
    <3>4. held \subseteq Recorded'
      BY <3>1 DEF NotedInv, Recorded
    <3>5. "clean_local_state" \in Recorded'
      BY DEF Recorded
    <3> QED BY <2>0, <3>1, <3>2, <3>3, <3>4, <3>5 DEF NotedInv, FailuresAreReported
  <2>8. CASE BuildReport
    <3>1. /\ at = "build_report" /\ at' = "idle" /\ UNCHANGED <<held, failed>>
          /\ report'.failures = info \cup (held \cap Sections) \cup {s \in {"stop_vm"} : error}
      BY <2>8 DEF BuildReport, Goto
    <3>2. ~raised /\ ~UpToExecute
      BY <3>1, Numbers, Apart DEF Unwinding, UpToExecute
    <3>3. \A s \in failed : s \in Recorded \/ (s = "stop_vm" /\ error)
      BY <2>0, <3>2 DEF NotedInv
    <3> QED BY <3>1, <3>3 DEF NotedInv, FailuresAreReported, Recorded
  <2> QED BY <1>1, <2>1, <2>2, <2>3, <2>4, <2>5, <2>6, <2>7, <2>8 DEF RunStep
<1>2. CASE StartRun
  BY <1>2 DEF StartRun, NewRun, Goto, NotedInv, FailuresAreReported, Recorded
<1>3. CASE ReportUnrunnable
  BY <1>3 DEF ReportUnrunnable, NewRun, NotedInv, FailuresAreReported
<1>4. ASSUME UNCHANGED <<at, raised, noteVars, error, report>> PROVE NotedInv'
  <2>1. (UpToExecute' <=> UpToExecute) /\ Recorded' = Recorded
    BY <1>4 DEF UpToExecute, Recorded
  <2> QED BY <1>4, <2>1 DEF NotedInv, FailuresAreReported
<1>5. ASSUME NEW r \in analysing, StaticEnds(r) PROVE NotedInv'
  BY <1>4, <1>5 DEF StaticEnds
<1>6. ASSUME NEW p \in procs, ProcEnds(p) \/ \E k \in Agents : SampleLogs(p, k) PROVE NotedInv'
  BY <1>4, <1>6 DEF ProcEnds, SampleLogs
<1>7. CASE UNCHANGED vars
  BY <1>4, <1>7 DEF vars
<1> QED BY <1>1, <1>2, <1>3, <1>5, <1>6, <1>7 DEF Next

-----------------------------------------------------------------------------
(* The agents after their stop.                                            *)

LEMMA Past ==
  ASSUME TypeOK, RunStep, at \in StepSet, Index[at] >= 16
  PROVE  /\ procs' \subseteq procs /\ pid' = pid
         /\ at' = "idle" \/ (at' \in StepSet /\ Index[at'] >= 16)
<1>1. \A k \in Agents : at # StartStep[k]
  BY AgentPlaces
<1>2. at \notin {"execute_sample", "detonating"}
  BY Numbers, Apart
<1>3. ~LaunchSample /\ \A k \in Agents : /\ ~AgentStarts(k) /\ ~AgentStartFails(k)
                                         /\ ~AgentStartIsRetried(k)
  BY <1>1, <1>2 DEF LaunchSample, AgentStarts, AgentStartFails, AgentStartIsRetried
<1>4. pid' = pid
  BY <1>3 DEF RunStep, PlainStep, PlainFails, StepRaises, RestoreSnapshot, CleanLocalState,
     CleanLocalStateFails, StartVM, StartVMWithoutIP, StopVM, StopVMFails, AgentStops,
     AgentStopFails, DetonationIsRetried, Detonated, CollectTelemetry, StaticResult,
     BuildReport, BuildReportFails
<1>5. procs' \subseteq procs
  BY <1>3 DEF RunStep, PlainStep, PlainFails, StepRaises, RestoreSnapshot, CleanLocalState,
     CleanLocalStateFails, StartVM, StartVMWithoutIP, StopVM, StopVMFails, AgentStops,
     AgentStopFails, DetonationIsRetried, Detonated, CollectTelemetry, StaticResult,
     BuildReport, BuildReportFails
<1>6. at' = "idle" \/ (at' \in StepSet /\ Index[at'] >= 16)
  <2>1. Moves
    BY Walk
  <2>2. ASSUME Onward(Index[at] + 1, at') PROVE at' \in StepSet /\ Index[at'] >= 16
    <3>1. Index[at] \in 1 .. 25 /\ at' \in StepSet /\ Index[at'] \in Index[at] + 1 .. 25
      BY <2>2, Places DEF Onward
    <3> QED BY <3>1
  <2> QED BY <1>2, <2>1, <2>2 DEF Moves
<1> QED BY <1>4, <1>5, <1>6

(* What a run has noted of its agents and of failures it keeps.            *)
LEMMA Keeps ==
  ASSUME RunStep
  PROVE  failed \subseteq failed' /\ forced \subseteq forced'
  BY DEF RunStep, PlainStep, PlainFails, StepRaises, RestoreSnapshot, CleanLocalState,
         CleanLocalStateFails, StartVM, StartVMWithoutIP, StopVM, StopVMFails,
         AgentStarts, AgentStartFails, AgentStartIsRetried, AgentStops, AgentStopFails,
         LaunchSample, DetonationIsRetried, Detonated, CollectTelemetry, StaticResult,
         BuildReport, BuildReportFails, NoteFailure

(* The stop of an agent that has started is not left out.                  *)
LEMMA TriedStep ==
  ASSUME TypeOK, [Next]_vars, NEW k \in Agents, Tried(k)
  PROVE  Tried(k)'
<1> DEFINE m == Index[StopStep[k]]
<1>0. m \in 16 .. 17 /\ StopStep[k] \in StepSet /\ Steps[m] = StopStep[k]
  BY AgentPlaces, Places
<1>1. CASE RunStep
  <2> SUFFICES ASSUME StartStep[k] \in done', ~raised', at' \in StepSet, Index[at'] > m
               PROVE  StopStep[k] \in done' \cup failed'
    BY DEF Tried
  <2>1. Moves /\ failed \subseteq failed'
    BY <1>1, Walk, Keeps
  <2>2. done \subseteq done' /\ ~raised
    BY <2>1, Numbers, Apart DEF Moves
  <2>3. StartStep[k] \in done => Taken(Steps[m])
    <3>1. \A j \in Agents : StopStep[k] = StopStep[j] => j = k
      BY DEF StopStep, Agents
    <3>2. /\ StopStep[k] \notin Options
          /\ StopStep[k] \notin {"clean_local_state", "screenshot_capture_start",
               "sysmon_ready", "copy_sample", "static_result", "copy_process_dumps",
               "screenshot_capture_stop", "network_capture_stop"}
      BY DEF StopStep, Agents, Options
    <3> QED BY <1>0, <3>1, <3>2 DEF Taken
  <2>4. CASE UNCHANGED <<at, raised, done>>
    BY <2>1, <2>4 DEF Tried
  <2>5. CASE at = "detonating" /\ at' = FirstFrom(16) /\ done' = done \cup {"execute_sample"}
    <3>1. StartStep[k] \in done
      BY <2>5, AgentPlaces, Numbers
    <3>2. Index[FirstFrom(16)] \in 16 .. m
      BY <1>0, <2>3, <3>1, First
    <3> QED BY <1>0, <2>5, <3>2
  <2>6. CASE /\ at \in StepSet /\ Onward(Index[at] + 1, at') /\ at' = FirstFrom(Index[at] + 1)
             /\ done' \in {done, done \cup {at}} /\ at \in done' \cup failed'
    <3>0. Index[at] \in 1 .. 25 /\ Index[at'] \in 1 .. 25
      BY <2>6, Places
    <3>1. CASE Index[at] > m
      <4>1. StartStep[k] \in done
        BY <1>0, <2>6, <3>0, <3>1, AgentPlaces
      <4> QED BY <2>1, <2>2, <2>6, <3>1, <4>1 DEF Tried
    <3>2. CASE Index[at] = m
      BY <1>0, <2>6, <3>2, Places
    <3>3. CASE Index[at] < m
      <4>1. CASE StartStep[k] \in done
        <5>1. Index[at] + 1 \in 1 .. 25 /\ m \in Index[at] + 1 .. 25
          BY <1>0, <3>0, <3>3
        <5>2. Index[FirstFrom(Index[at] + 1)] \in Index[at] + 1 .. m
          BY <2>3, <4>1, <5>1, First
        <5> QED BY <1>0, <2>6, <3>0, <5>2
      <4>2. CASE StartStep[k] \notin done
        <5>1. at = StartStep[k]
          BY <2>6, <4>2
        <5>2. Index[at] + 1 <= 15
          BY <5>1, AgentPlaces
        <5> QED BY <1>0, <2>6, <3>0, <5>2 DEF Onward
      <4> QED BY <4>1, <4>2
    <3> QED BY <1>0, <3>0, <3>1, <3>2, <3>3
  <2>7. at' \notin {"execute_sample", "detonating", "idle"}
    BY <1>0, Numbers, Apart
  <2> QED BY <2>1, <2>4, <2>5, <2>6, <2>7 DEF Moves
<1>2. CASE StartRun \/ ReportUnrunnable
  BY <1>2 DEF StartRun, ReportUnrunnable, NewRun, Tried
<1>3. CASE UNCHANGED <<at, raised, done, failed>>
  BY <1>3 DEF Tried
<1>4. ASSUME NEW r \in analysing, StaticEnds(r) PROVE Tried(k)'
  BY <1>3, <1>4 DEF StaticEnds
<1>5. ASSUME NEW p \in procs, ProcEnds(p) \/ \E j \in Agents : SampleLogs(p, j) PROVE Tried(k)'
  BY <1>3, <1>5 DEF ProcEnds, SampleLogs
<1>6. CASE UNCHANGED vars
  BY <1>3, <1>6 DEF vars
<1> QED BY <1>1, <1>2, <1>4, <1>5, <1>6 DEF Next

LEMMA StoppedStep ==
  ASSUME TypeOK, [Next]_vars, NEW k \in Agents, Stopped(k)
  PROVE  Stopped(k)'
<1>1. CASE RunStep
  <2> SUFFICES ASSUME StopStep[k] \in done'
               PROVE  /\ at' = "idle" \/ (at' \in StepSet /\ Index[at'] >= 16)
                      /\ Proc(k, pid[k])' \in procs' => k \in forced'
    BY DEF Stopped
  <2>1. Moves /\ at # "idle" /\ run' = run /\ forced \subseteq forced'
    BY <1>1, Walk, Keeps
  <2>2. CASE StopStep[k] \in done
    <3>1. /\ at \in StepSet /\ Index[at] >= 16
          /\ Proc(k, pid[k]) \in procs => k \in forced
      BY <2>1, <2>2 DEF Stopped
    <3>2. /\ procs' \subseteq procs /\ pid' = pid
          /\ at' = "idle" \/ (at' \in StepSet /\ Index[at'] >= 16)
      BY <1>1, <3>1, Past
    <3> QED BY <2>1, <3>1, <3>2 DEF Proc
  <2>3. CASE StopStep[k] \notin done
    <3>1. at = StopStep[k] /\ done' # done
      BY <2>1, <2>3, AgentPlaces, Numbers DEF Moves
    <3>2. at \in StepSet /\ Index[at] \in 16 .. 17
      BY <3>1, AgentPlaces
    <3>3. at \in {"apitrace_stop", "guardian_stop"}
      BY <3>1 DEF StopStep, Agents
    <3>4. \E j \in Agents : AgentStops(j)
      BY <1>1, <3>1, <3>2, <3>3, AgentPlaces, Numbers
         DEF RunStep, PlainStep, PlainFails, StepRaises, RestoreSnapshot, Plain,
             CleanLocalState, CleanLocalStateFails, StartVM, StartVMWithoutIP, StopVM,
             StopVMFails, AgentStarts, AgentStartFails, AgentStartIsRetried,
             AgentStopFails, LaunchSample, DetonationIsRetried, Detonated, CollectTelemetry,
             StaticResult, BuildReport, BuildReportFails, GoOn
    <3>5. AgentStops(k)
      BY <3>1, <3>4 DEF AgentStops, StopStep, Agents
    <3>6. pid' = pid /\ (Proc(k, pid[k]) \in procs' => k \in forced')
      BY <3>5 DEF AgentStops
    <3>7. at' = "idle" \/ (at' \in StepSet /\ Index[at'] >= 16)
      BY <1>1, <3>2, Past
    <3> QED BY <2>1, <3>6, <3>7 DEF Proc
  <2> QED BY <2>2, <2>3
<1>2. CASE StartRun \/ ReportUnrunnable
  BY <1>2 DEF StartRun, ReportUnrunnable, NewRun, Stopped
<1>3. ASSUME UNCHANGED <<run, at, done, pid, forced>>, procs' \subseteq procs PROVE Stopped(k)'
  BY <1>3 DEF Stopped, Proc
<1>4. ASSUME NEW r \in analysing, StaticEnds(r) PROVE Stopped(k)'
  BY <1>3, <1>4 DEF StaticEnds
<1>5. ASSUME NEW p \in procs, ProcEnds(p) \/ \E j \in Agents : SampleLogs(p, j)
      PROVE  Stopped(k)'
  BY <1>3, <1>5 DEF ProcEnds, SampleLogs
<1>6. CASE UNCHANGED vars
  BY <1>3, <1>6 DEF vars
<1> QED BY <1>1, <1>2, <1>4, <1>5, <1>6 DEF Next

(* Who still runs when telemetry is collected had a stop that tells it.    *)
LEMMA ToldStep ==
  ASSUME TypeOK, Unwinding, NotedInv, [Next]_vars,
         NEW k \in Agents, Tried(k), Stopped(k), Told(k)
  PROVE  Told(k)'
<1>1. CASE RunStep
  <2>1. /\ report = NoReport /\ failed \subseteq failed' /\ forced \subseteq forced'
    BY <1>1, Walk, Keeps DEF NotedInv
  <2>2. k \in readOpen' => StopStep[k] \in failed' \/ k \in forced'
    <3>1. CASE CollectTelemetry
      <4>1. at = "telemetry_collect" /\ at \in StepSet /\ Index[at] = 19 /\ ~raised
        BY <3>1, Numbers DEF CollectTelemetry, Unwinding
      <4>2. Index[at] > Index[StopStep[k]]
        BY <4>1, AgentPlaces
      <4>3. k \in readOpen' => StartStep[k] \in done /\ Proc(k, pid[k]) \in procs
        BY <3>1 DEF CollectTelemetry
      <4> QED BY <2>1, <4>1, <4>2, <4>3 DEF Tried, Stopped
    <3>2. CASE ~CollectTelemetry
      <4>1. readOpen' = readOpen
        BY <1>1, <3>2
           DEF RunStep, PlainStep, PlainFails, StepRaises, RestoreSnapshot, CleanLocalState,
               CleanLocalStateFails, StartVM, StartVMWithoutIP, StopVM, StopVMFails,
               AgentStarts, AgentStartFails, AgentStartIsRetried, AgentStops, AgentStopFails,
               LaunchSample, DetonationIsRetried, Detonated, StaticResult, BuildReport,
               BuildReportFails
      <4> QED BY <2>1, <4>1 DEF Told
    <3> QED BY <3>1, <3>2
  <2>3. report' # NoReport /\ k \in forced' => k \in report'.forced
    <3>1. CASE BuildReport
      BY <3>1 DEF BuildReport
    <3>2. CASE ~BuildReport
      <4>1. report' = report
        BY <1>1, <3>2
           DEF RunStep, PlainStep, PlainFails, StepRaises, RestoreSnapshot, CleanLocalState,
               CleanLocalStateFails, StartVM, StartVMWithoutIP, StopVM, StopVMFails,
               AgentStarts, AgentStartFails, AgentStartIsRetried, AgentStops, AgentStopFails,
               LaunchSample, DetonationIsRetried, Detonated, CollectTelemetry, StaticResult,
               BuildReportFails
      <4> QED BY <2>1, <4>1
    <3> QED BY <3>1, <3>2
  <2> QED BY <2>2, <2>3 DEF Told
<1>2. CASE StartRun \/ ReportUnrunnable
  BY <1>2 DEF StartRun, ReportUnrunnable, NewRun, Told
<1>3. CASE UNCHANGED <<readOpen, failed, forced, report>>
  BY <1>3 DEF Told
<1>4. ASSUME NEW r \in analysing, StaticEnds(r) PROVE Told(k)'
  BY <1>3, <1>4 DEF StaticEnds
<1>5. ASSUME NEW p \in procs, ProcEnds(p) \/ \E j \in Agents : SampleLogs(p, j) PROVE Told(k)'
  BY <1>3, <1>5 DEF ProcEnds, SampleLogs
<1>6. CASE UNCHANGED vars
  BY <1>3, <1>6 DEF vars
<1> QED BY <1>1, <1>2, <1>4, <1>5, <1>6 DEF Next

-----------------------------------------------------------------------------
(* The invariant, and what follows from it.                                *)

LEMMA Start == Init => IInv
<1> SUFFICES ASSUME Init PROVE IInv
  OBVIOUS
<1>1. TypeOK /\ Numbered
  BY TypeStart
<1>2. Unwinding /\ \A k \in Agents : Tried(k) /\ Stopped(k) /\ Told(k)
  BY DEF Init, Unwinding, Tried, Stopped, Told
<1>3. OwnInv /\ OffInv
  BY DEF Init, OwnInv, EvidenceIsOwn, OffInv, VMIsOffAfterTheRun
<1>4. NotedInv
  BY DEF Init, NotedInv, FailuresAreReported
<1> QED BY <1>1, <1>2, <1>3, <1>4 DEF IInv

LEMMA Invariance == Spec => []IInv
<1>1. IInv /\ [Next]_vars => IInv'
  BY TypeStep, UnwindingStep, OwnStep, OffStep, NotedStep, TriedStep, StoppedStep, ToldStep DEF IInv
<1> QED BY <1>1, Start, PTL DEF Spec

(* The behaviour that the report of a VM's run shows is that of its own    *)
(* sample, whatever became of the runs before.                             *)
THEOREM OwnEvidence == Spec => []EvidenceIsOwn
<1>1. IInv => EvidenceIsOwn
  BY DEF IInv, OwnInv, EvidenceIsOwn
<1> QED BY <1>1, Invariance, PTL

(* Whatever went wrong in a step that the run survived is in its report.   *)
THEOREM FailuresReported == Spec => []FailuresAreReported
<1>1. IInv => FailuresAreReported
  BY DEF IInv, NotedInv
<1> QED BY <1>1, Invariance, PTL

(* However a run ends, its VM is off, unless stop_vm failed.               *)
THEOREM OffAfterTheRun == Spec => []VMIsOffAfterTheRun
<1>1. IInv => VMIsOffAfterTheRun
  BY DEF IInv, OffInv, VMIsOffAfterTheRun
<1> QED BY <1>1, Invariance, PTL

(* An agent that still ran when telemetry was collected can be told from   *)
(* the report: its stop failed, or was not graceful.                       *)
THEOREM OpenFilesTold == Spec => []OpenFilesAreTold
<1>1. ASSUME IInv PROVE OpenFilesAreTold
  <2> SUFFICES ASSUME at = "idle", report # NoReport, NEW k \in readOpen
               PROVE  StopStep[k] \in report.failures \/ k \in report.forced
    BY DEF OpenFilesAreTold
  <2>1. k \in Agents
    BY <1>1 DEF IInv, TypeOK
  <2>2. (StopStep[k] \in failed \/ k \in forced) /\ (k \in forced => k \in report.forced)
    BY <1>1, <2>1 DEF IInv, Told
  <2>3. StopStep[k] # "clean_local_state"
    BY <2>1 DEF StopStep, Agents
  <2>4. StopStep[k] \in failed => StopStep[k] \in report.failures
    BY <1>1, <2>3 DEF IInv, NotedInv, FailuresAreReported
  <2> QED BY <2>2, <2>4
<1> QED BY <1>1, Invariance, PTL
=============================================================================
