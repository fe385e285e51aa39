---------------------------- MODULE RunAnalysis ----------------------------
(***************************************************************************)
(* SandboxExecutor.run_analysis (orchestrator/executor.py): what one run   *)
(* does to its guest, in which order, what a failing step does to the run, *)
(* and what the report says in the end.  Runs follow one another on one    *)
(* environment, a VM (HyperVManager) or this machine (LocalTransport).     *)
(*                                                                         *)
(* A step that only reads, copies or waits is a name in Steps; a step has  *)
(* an action of its own when it changes what a later one finds.  Between   *)
(* the steps the guest goes on: the sample sends events, processes end.    *)
(* Screenshots, capture files and the content of telemetry are left out,   *)
(* as are processes the sample has injected into (see Detonation) and the  *)
(* guest clock (sync_guest_time is disabled).                              *)
(***************************************************************************)
EXTENDS Naturals, Sequences, FiniteSets

CONSTANTS Modes,    \* subset of {"hyperv", "local"}
          Configs,  \* sets of options a run may have, see Options
          MaxRuns,  \* bound: runs, one after the other
          MaxTries, \* bound: attempts of Invoke-AnalysisCommand (24)
          MaxFaults \* bound: things that go wrong in one run

Steps == <<
  "ensure_snapshot", "restore_snapshot", "clean_local_state", "start_vm",
  "copy_agent", "defender_ready", "telemetry_init", "stage_archive",
  "copy_sample", "network_capture_start", "screenshot_capture_start",
  "apitrace_start", "guardian_start", "sysmon_ready", "execute_sample",
  "apitrace_stop", "guardian_stop", "copy_process_dumps",
  "telemetry_collect", "copy_dropped_files",
  "screenshot_capture_stop", "network_capture_stop", "stop_vm",
  "static_result", "build_report" >>

StepSet == {Steps[i] : i \in DOMAIN Steps}

(* Switched on by the configuration or by what was submitted; "sample" is  *)
(* a file, as opposed to a URL.                                            *)
Options == {"sample", "interactive", "defender_ready", "stage_archive",
            "network_capture_start", "screenshot_capture_start",
            "apitrace_start", "guardian_start", "sysmon_ready",
            "copy_process_dumps", "copy_dropped_files"}

ASSUME RunAnalysisAssumption ==
  /\ Modes \subseteq {"hyperv", "local"} /\ Modes # {}
  /\ Configs \subseteq SUBSET Options /\ Configs # {}
  /\ MaxRuns \in Nat \ {0} /\ MaxTries \in Nat \ {0} /\ MaxFaults \in Nat

(* Steps whose exceptions are caught, and remembered one way or another.   *)
Tolerated == {"clean_local_state", "defender_ready", "stage_archive",
              "network_capture_start", "apitrace_start", "guardian_start",
              "sysmon_ready", "apitrace_stop", "guardian_stop",
              "copy_process_dumps", "copy_dropped_files",
              "network_capture_stop", "stop_vm"}

(* Steps with nothing to model but that they may fail. *)
Plain == {"ensure_snapshot", "copy_agent", "defender_ready", "telemetry_init",
          "stage_archive", "copy_sample", "network_capture_start",
          "screenshot_capture_start", "sysmon_ready", "copy_process_dumps",
          "copy_dropped_files", "screenshot_capture_stop",
          "network_capture_stop"}

(* Failures that wait in a local variable until execute_sample has returned*)
(* its execution_info, and those in a section of the report of their own.  *)
Surfaced == {"defender_ready", "sysmon_ready", "apitrace_start", "guardian_start"}
Sections == {"stage_archive", "network_capture_start", "network_capture_stop",
             "copy_process_dumps", "copy_dropped_files"}

NoReport == [status |-> "none"]

(* Long-lived guest processes: the API-trace collector, the guardian agent.*)
Agents == {"collector", "guardian"}
StartStep == [collector |-> "apitrace_start", guardian |-> "guardian_start"]
StopStep == [collector |-> "apitrace_stop", guardian |-> "guardian_stop"]

VARIABLES mode,      \* the transport
          run,       \* runs started so far
          cfg,       \* options of the current one
          at,        \* the step it is at, or "detonating", or "idle"
          tries,     \* attempts at this step that a broken session ended
          raised,    \* an exception is on its way out
          error,     \* error, set by a failed stop_vm
          done,      \* steps that succeeded (apitrace_started and so on)
          pid,       \* per agent: the attempt that returned its pid, or 0
          info,      \* failures in execution_info
          held,      \* failures in local variables and report sections
          failed,    \* tolerated failures that did happen
          faults,    \* what went wrong in this run, against MaxFaults
          on,        \* the VM runs
          procs,     \* processes of runs that live in the guest
          file,      \* per agent: the runs with events in its output file
          forced,    \* agents whose stop did not see them exit
                     \*   (ExitedGracefully is false in execution_info)
          evidence,  \* runs whose events the collected telemetry has
          readOpen,  \* history: agents still there when it was collected
          analysing, \* runs whose static-analysis thread is alive
          report

noteVars == <<info, held, failed>>
guestVars == <<on, procs, file>>
outVars == <<error, pid, forced, evidence, readOpen, analysing, report>>
vars == <<mode, run, cfg, at, tries, raised, done, noteVars, faults, guestVars,
          outVars>>

Local == mode = "local"

NoPids == [k \in Agents |-> 0]

Init ==
  /\ mode \in Modes
  /\ run = 0 /\ cfg = {} /\ at = "idle" /\ tries = 0 /\ raised = FALSE
  /\ done = {} /\ pid = NoPids
  /\ info = {} /\ held = {} /\ failed = {} /\ faults = 0
  /\ on = Local /\ procs = {} /\ file = [k \in Agents |-> {}]
  /\ forced = {} /\ evidence = {} /\ readOpen = {}
  /\ analysing = {} /\ error = FALSE
  /\ report = NoReport

Proc(kind, try) == [kind |-> kind, run |-> run, try |-> try]

Of(kind) == {p \in procs : p.kind = kind}

(* Forced off in local mode. *)
Interactive == "interactive" \in cfg /\ ~Local

Taken(s) ==
  /\ s \in Options => s \in cfg
  /\ s = "clean_local_state" => Local
  /\ s \in {"screenshot_capture_start", "sysmon_ready"} => ~Local
  /\ s \in {"copy_sample", "static_result"} => "sample" \in cfg
  /\ s = "copy_process_dumps" => ~Interactive
  /\ s = "screenshot_capture_stop" => "screenshot_capture_start" \in done
  /\ s = "network_capture_stop" => "network_capture_start" \in done
  /\ \A k \in Agents : s = StopStep[k] => StartStep[k] \in done

Index == [s \in StepSet |-> CHOOSE i \in DOMAIN Steps : Steps[i] = s]

FirstFrom(i) ==
  Steps[CHOOSE j \in i .. Len(Steps) :
          Taken(Steps[j]) /\ \A k \in i .. j - 1 : ~Taken(Steps[k])]

Goto(s) == at' = s /\ tries' = 0

Proceed(s) == Goto(FirstFrom(Index[s] + 1)) /\ done' = done \cup {s} /\ UNCHANGED raised

(* To the finally block. *)
Raise ==
  /\ raised' = TRUE
  /\ Goto(FirstFrom(Index["screenshot_capture_stop"]))
  /\ UNCHANGED done

Fault == faults < MaxFaults /\ faults' = faults + 1

(* A step of the run changes neither its own parameters nor the transport. *)
InRun == at # "idle" /\ UNCHANGED <<mode, run, cfg>>

-----------------------------------------------------------------------------
(* The start of a run *)

NewRun ==
  /\ at = "idle" /\ run < MaxRuns
  /\ run' = run + 1
  /\ cfg' \in Configs
  /\ raised' = FALSE /\ error' = FALSE /\ done' = {} /\ pid' = NoPids
  /\ info' = {} /\ held' = {} /\ failed' = {} /\ faults' = 0
  /\ forced' = {} /\ evidence' = {} /\ readOpen' = {}
  /\ UNCHANGED <<mode, guestVars>>

StartRun ==
  /\ NewRun
  /\ analysing' = IF "sample" \in cfg' THEN analysing \cup {run'} ELSE analysing
  /\ report' = NoReport
  /\ Goto("ensure_snapshot")

(* What was submitted cannot be executed: a report, and no VM. *)
ReportUnrunnable ==
  /\ NewRun
  /\ report' = [status |-> "completed", failures |-> {}, forced |-> {}, evidence |-> {}]
  /\ UNCHANGED <<analysing, at, tries>>

StaticEnds(r) ==
  /\ r \in analysing
  /\ analysing' = analysing \ {r}
  /\ UNCHANGED <<mode, run, cfg, at, tries, raised, error, done, pid, noteVars,
                 faults, guestVars, forced, evidence, readOpen, report>>

-----------------------------------------------------------------------------
(* Steps in general *)

PlainStep ==
  /\ InRun /\ at \in Plain
  /\ Proceed(at)
  /\ UNCHANGED <<noteVars, faults, guestVars, outVars>>

(* Where the except clause of step s puts what it caught. *)
NoteFailure_InFreshDict(s) ==
  /\ failed' = failed \cup {s}
  /\ info' = info \cup ({s} \ Sections)
  /\ held' = held \cup ({s} \cap Sections)

NoteFailure(s) ==
  /\ failed' = failed \cup {s}
  /\ LET kept == Surfaced \cup Sections
     IN  info' = info \cup ({s} \ kept) /\ held' = held \cup ({s} \cap kept)

GoOn(s) == Goto(FirstFrom(Index[s] + 1)) /\ UNCHANGED <<raised, done>>

PlainFails ==
  /\ InRun /\ at \in Plain \cap Tolerated
  /\ Fault
  /\ NoteFailure(at)
  /\ GoOn(at)
  /\ UNCHANGED <<guestVars, outVars>>

(* LocalTransport answers these itself. *)
CannotFail == IF Local THEN {"ensure_snapshot", "restore_snapshot", "start_vm", "copy_agent"}
              ELSE {}

StepRaises_SkipsFinally ==
  /\ InRun /\ at \in {"restore_snapshot", "copy_sample", "detonating", "telemetry_collect"}
  /\ Fault
  /\ raised' = TRUE /\ Goto("idle")
  /\ UNCHANGED <<done, noteVars, guestVars, outVars>>

(* A step that is not tolerated fails before it has changed anything, or,  *)
(* when detonating, with the sample left as it is.                         *)
StepRaises ==
  /\ InRun
  /\ at \in {"ensure_snapshot", "restore_snapshot", "start_vm", "copy_agent",
             "telemetry_init", "copy_sample", "screenshot_capture_start",
             "execute_sample", "detonating", "telemetry_collect"} \ CannotFail
  /\ Fault
  /\ Raise
  /\ UNCHANGED <<noteVars, guestVars, outVars>>

-----------------------------------------------------------------------------
(* The environment *)

RestoreSnapshot_KeepsRunningVM ==
  /\ InRun /\ at = "restore_snapshot"
  /\ IF Local \/ on THEN UNCHANGED guestVars
     ELSE on' = FALSE /\ procs' = {} /\ file' = [k \in Agents |-> {}]
  /\ Proceed(at)
  /\ UNCHANGED <<noteVars, faults, outVars>>

RestoreSnapshot ==
  /\ InRun /\ at = "restore_snapshot"
  /\ IF Local THEN UNCHANGED guestVars
     ELSE on' = FALSE /\ procs' = {} /\ file' = [k \in Agents |-> {}]
  /\ Proceed(at)
  /\ UNCHANGED <<noteVars, faults, outVars>>

(* Output files are deleted unless somebody has them open.  What could not *)
(* be deleted is in the result, which is not looked at.                    *)
CleanLocalState ==
  /\ InRun /\ at = "clean_local_state"
  /\ file' = [k \in Agents |-> IF Of(k) = {} THEN {} ELSE file[k]]
  /\ Proceed(at)
  /\ UNCHANGED <<on, procs, noteVars, faults, outVars>>

CleanLocalStateFails ==
  /\ InRun /\ at = "clean_local_state"
  /\ Fault
  /\ NoteFailure(at)
  /\ GoOn(at)
  /\ UNCHANGED <<guestVars, outVars>>

StartVM ==
  /\ InRun /\ at = "start_vm"
  /\ on' = TRUE
  /\ Proceed(at)
  /\ UNCHANGED <<procs, file, noteVars, faults, outVars>>

(* It runs, but there is no IP address in time. *)
StartVMWithoutIP ==
  /\ InRun /\ at = "start_vm" /\ ~Local
  /\ Fault
  /\ on' = TRUE
  /\ Raise
  /\ UNCHANGED <<procs, file, noteVars, outVars>>

StopVM ==
  /\ InRun /\ at = "stop_vm"
  /\ IF Local THEN UNCHANGED <<on, procs>> ELSE on' = FALSE /\ procs' = {}
  /\ IF raised THEN Goto("idle") /\ UNCHANGED <<done, raised>> ELSE Proceed(at)
  /\ UNCHANGED <<file, noteVars, faults, outVars>>

StopVMFails ==
  /\ InRun /\ at = "stop_vm" /\ ~Local
  /\ Fault
  /\ failed' = failed \cup {at}
  /\ error' = TRUE
  /\ IF raised THEN Goto("idle") /\ UNCHANGED <<done, raised>> ELSE GoOn(at)
  /\ UNCHANGED <<info, held, guestVars, pid, forced, evidence, readOpen,
                 analysing, report>>

-----------------------------------------------------------------------------
(* Collector and guardian agent *)

(* The collector truncates its file; an agent whose file another one has   *)
(* open cannot delete it, and is gone again at once.                       *)
Spawned(k) ==
  LET fresh == k = "collector" \/ Of(k) = {}
  IN  /\ file' = IF fresh THEN [file EXCEPT ![k] = {}] ELSE file
      /\ procs' = procs \cup {p \in {Proc(k, tries + 1)} : fresh}

AgentStarts(k) ==
  /\ InRun /\ at = StartStep[k]
  /\ Spawned(k)
  /\ pid' = [pid EXCEPT ![k] = tries + 1]
  /\ Proceed(at)
  /\ UNCHANGED <<on, noteVars, faults, error, forced, evidence, readOpen,
                 analysing, report>>

AgentStartFails(k) ==
  /\ InRun /\ at = StartStep[k]
  /\ Fault
  /\ Spawned(k) \/ UNCHANGED <<procs, file>>
  /\ NoteFailure(at)
  /\ GoOn(at)
  /\ UNCHANGED <<on, outVars>>

(* The session to the guest breaks in the middle of a call, and             *)
(* Invoke-AnalysisCommand makes the whole call again.                      *)
BreaksAndRetries ==
  /\ InRun /\ ~Local
  /\ Fault
  /\ tries + 1 < MaxTries
  /\ tries' = tries + 1
  /\ UNCHANGED <<raised, done>>

AgentStartIsRetried(k) ==
  /\ at = StartStep[k]
  /\ BreaksAndRetries
  /\ Spawned(k) \/ UNCHANGED <<procs, file>>
  /\ UNCHANGED <<at, on, noteVars, outVars>>


AgentStops_TrustsStopped(k) ==
  /\ InRun /\ at = StopStep[k]
  /\ \E gone \in SUBSET Of(k) : procs' = procs \ gone
  /\ Proceed(at)
  /\ UNCHANGED <<on, file, noteVars, faults, outVars>>

(* The one whose pid is known is seen to exit within the wait, or it is    *)
(* killed -- which may fail, the guardian agent is protected -- and the    *)
(* result is Stopped all the same.  Another one of its kind sees the stop  *)
(* file in its own time.                                                   *)
AgentStops(k) ==
  /\ InRun /\ at = StopStep[k]
  /\ \E gone \in SUBSET Of(k) : procs' = procs \ gone
  /\ \/ Proc(k, pid[k]) \notin procs' /\ UNCHANGED forced
     \/ Proc(k, pid[k]) \in procs /\ forced' = forced \cup {k}
  /\ Proceed(at)
  /\ UNCHANGED <<on, file, noteVars, faults, error, pid, evidence, readOpen,
                 analysing, report>>

AgentStopFails(k) ==
  /\ InRun /\ at = StopStep[k]
  /\ Fault
  /\ \E gone \in SUBSET Of(k) : procs' = procs \ gone
  /\ NoteFailure(at)
  /\ GoOn(at)
  /\ UNCHANGED <<on, file, outVars>>

-----------------------------------------------------------------------------
(* Detonation *)

LaunchSample ==
  /\ InRun /\ at = "execute_sample"
  /\ procs' = procs \cup {Proc("sample", tries + 1)}
  /\ at' = "detonating"
  /\ UNCHANGED <<tries, raised, done, noteVars, faults, on, file, outVars>>

DetonationIsRetried ==
  /\ at = "detonating"
  /\ BreaksAndRetries
  /\ at' = "execute_sample"
  /\ UNCHANGED <<noteVars, guestVars, outVars>>

(* The window is over and what the call started is gone.  execution_info   *)
(* is a fresh dictionary from here on.                                     *)
Detonated ==
  /\ InRun /\ at = "detonating"
  /\ procs' = procs \ {Proc("sample", tries + 1)}
  /\ info' = held \cap Surfaced
  /\ Goto(FirstFrom(Index["execute_sample"] + 1))
  /\ done' = done \cup {"execute_sample"}
  /\ UNCHANGED <<raised, held, failed, faults, on, file, outVars>>

(* A process of a sample does something an agent records. *)
SampleLogs(p, k) ==
  /\ p \in Of("sample") /\ Of(k) # {}
  /\ file' = [file EXCEPT ![k] = @ \cup {p.run}]
  /\ UNCHANGED <<mode, run, cfg, at, tries, raised, done, noteVars, faults, on,
                 procs, outVars>>

(* By itself, at its time limit, or killed by another. *)
ProcEnds(p) ==
  /\ p \in procs
  /\ procs' = procs \ {p}
  /\ UNCHANGED <<mode, run, cfg, at, tries, raised, done, noteVars, faults, on,
                 file, outVars>>

-----------------------------------------------------------------------------
(* Evidence and report *)

CollectTelemetry ==
  /\ InRun /\ at = "telemetry_collect"
  /\ evidence' = UNION {file[k] : k \in {a \in Agents : StartStep[a] \in done}}
  /\ readOpen' = {k \in Agents : StartStep[k] \in done /\ Proc(k, pid[k]) \in procs}
  /\ Proceed(at)
  /\ UNCHANGED <<noteVars, faults, guestVars, error, pid, forced, analysing, report>>

StaticResult ==
  /\ InRun /\ at = "static_result"
  /\ run \notin analysing
  /\ Proceed(at)
  /\ UNCHANGED <<noteVars, faults, guestVars, outVars>>

BuildReport ==
  /\ InRun /\ at = "build_report"
  /\ report' = [status |-> IF error THEN "failed" ELSE "completed",
                failures |-> info \cup (held \cap Sections)
                               \cup {s \in {"stop_vm"} : error},
                forced |-> forced,
                evidence |-> evidence]
  /\ Goto("idle")
  /\ UNCHANGED <<raised, done, noteVars, faults, guestVars, error, pid, forced,
                 evidence, readOpen, analysing>>

BuildReportFails ==
  /\ InRun /\ at = "build_report"
  /\ Fault
  /\ raised' = TRUE
  /\ Goto("idle")
  /\ UNCHANGED <<done, noteVars, guestVars, outVars>>

RunStep ==
  \/ PlainStep \/ PlainFails \/ StepRaises
  \/ RestoreSnapshot \/ CleanLocalState \/ CleanLocalStateFails
  \/ StartVM \/ StartVMWithoutIP \/ StopVM \/ StopVMFails
  \/ \E k \in Agents : \/ AgentStarts(k) \/ AgentStartFails(k) \/ AgentStartIsRetried(k)
                       \/ AgentStops(k) \/ AgentStopFails(k)
  \/ LaunchSample \/ DetonationIsRetried \/ Detonated
  \/ CollectTelemetry \/ StaticResult \/ BuildReport \/ BuildReportFails

Next ==
  \/ StartRun \/ ReportUnrunnable \/ RunStep
  \/ \E r \in analysing : StaticEnds(r)
  \/ \E p \in procs : ProcEnds(p) \/ \E k \in Agents : SampleLogs(p, k)

Spec == Init /\ [][Next]_vars

(* Every call to the guest has a timeout, so every step ends, but for the  *)
(* join of the static-analysis thread, which waits for StaticEnds.  Nothing*)
(* makes that happen: YARA, the PE parser, strings and ssdeep may take any *)
(* time.                                                                   *)
FairSpec == Spec /\ WF_vars(RunStep)

-----------------------------------------------------------------------------
Runs == 1 .. MaxRuns

Process == [kind : Agents \cup {"sample"}, run : Runs, try : 1 .. MaxTries]

TypeOK ==
  /\ mode \in Modes
  /\ run \in 0 .. MaxRuns /\ cfg \in Configs \cup {{}}
  /\ at \in StepSet \cup {"detonating", "idle"}
  /\ tries \in 0 .. MaxTries - 1 /\ faults \in 0 .. MaxFaults
  /\ raised \in BOOLEAN /\ error \in BOOLEAN /\ on \in BOOLEAN
  /\ done \subseteq StepSet /\ pid \in [Agents -> 0 .. MaxTries]
  /\ info \cup held \cup failed \subseteq Tolerated
  /\ procs \subseteq Process
  /\ file \in [Agents -> SUBSET Runs]
  /\ forced \subseteq Agents /\ readOpen \subseteq Agents
  /\ evidence \subseteq Runs /\ analysing \subseteq Runs
  /\ report \in {NoReport} \cup
                [status : {"completed", "failed"}, failures : SUBSET Tolerated,
                 forced : SUBSET Agents, evidence : SUBSET Runs]

(* What the agents of a VM report as a run's behaviour comes from that     *)
(* run's sample, even when an earlier run broke off and its VM could not be*)
(* stopped: the revert comes before everything else.                       *)
EvidenceIsOwn == ~Local /\ report # NoReport => report.evidence \subseteq {run}

(* Whatever went wrong in a step that the run survives is in its report,   *)
(* although execute_sample replaces the dictionary such things are kept in.*)
(* (Except clean_local_state: its record is lost in just that way.)        *)
FailuresAreReported ==
  at = "idle" /\ report # NoReport =>
    failed \ {"clean_local_state"} \subseteq report.failures

(* A run leaves its VM off and nothing in it, by whichever way it ended,   *)
(* unless stop_vm itself failed.                                           *)
VMIsOffAfterTheRun ==
  at = "idle" /\ ~Local /\ (raised \/ done # {}) /\ "stop_vm" \notin failed =>
    ~on /\ procs = {}

(* "Must complete BEFORE telemetry_collect reads apitrace.jsonl"           *)
(* (hyperv-vm.ps1:1383): an agent of which the telemetry was read while it *)
(* still ran, whether its stop failed or the kill had no effect, can be    *)
(* told from the report.  (Not so a stray of a start that was broken off   *)
(* and repeated: its pid is not known.)                                    *)
OpenFilesAreTold ==
  at = "idle" /\ report # NoReport =>
    \A k \in readOpen : StopStep[k] \in report.failures \/ k \in report.forced

(* All a run may be left waiting for is its static analysis, and then with *)
(* its VM off and empty.                                                   *)
WaitsForStatic ==
  /\ at = "static_result" /\ run \in analysing
  /\ ~Local /\ "stop_vm" \notin failed => ~on /\ procs = {}

=============================================================================
