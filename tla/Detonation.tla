----------------------------- MODULE Detonation -----------------------------
(***************************************************************************)
(* The detonation window (Invoke-SampleExecution, scripts/hyperv-vm.ps1):  *)
(* a loop in the guest watches the sample's process tree and the size of   *)
(* the API trace, decides when the run stops, and then kills the tree.     *)
(* Meanwhile the sample spawns, exits and injects, the monitor attaches,   *)
(* and the collector mirrors the attached pids into a file now and then.   *)
(*                                                                         *)
(* Time is counted in iterations of the loop.  Pids are not reused.  The     *)
(* memory dumps are left out.  The monitor loader keeps the sample in a    *)
(* kill-on-close job (agent/windows/monitor_src/loader/monitor_loader.cpp).*)
(***************************************************************************)
EXTENDS Naturals

CONSTANTS Modes,       \* subset of {"traced", "degraded", "untraced"}
          Sample,      \* pid of the sample
          Loader,      \* pid of monitor_loader.exe
          Children,    \* pids for what gets spawned
          Hosts,       \* pids of system processes the sample may inject into
          MinRuntime, Timeout, MinWindow, IdleGrace, \* parameters, in iterations
          TreeEvery, ProbeEvery

Pids == {Sample, Loader} \cup Children \cup Hosts
None == "none"

ASSUME DetonationAssumption ==
  /\ Modes \subseteq {"traced", "degraded", "untraced"} /\ Modes # {}
  /\ Sample # Loader /\ {Sample, Loader} \cap (Children \cup Hosts) = {}
  /\ Children \cap Hosts = {} /\ None \notin Pids
  /\ {MinRuntime, Timeout, MinWindow, IdleGrace, TreeEvery, ProbeEvery}
       \subseteq Nat

VARIABLES mode,      \* how the launch went, see TreeRoot
          job,       \* the loader got the sample into its job
          collecting,\* the collector has created the trace file
          alive,     \* running processes
          parent,    \* ParentProcessId, for processes that were ever started
          attached,  \* pids the collector has seen events of
          pidsFile,  \* the --pids-file
          grownAt,   \* when the trace last grew
          now, pc,   \* the wait loop: elapsed time and position
          adopted,   \* $adopted
          tree,      \* $treePids
          treeKnown, \* $treeKnown
          rooted,    \* the adopted pids that $treePids was grown from, a history
          treeAt,    \* $treeCheckAt
          probeAt,   \* $nextActivityPollAt
          changed,   \* the size differs from $lastActivitySize
          activeAt,  \* $lastActivityAt
          stopped,   \* StoppedEarly
          doomed,    \* what the final kill has yet to kill
          unkilled,  \* Kill() has failed on the sample, a history
          treeFresh, \* the final tree query succeeded
          killed     \* system processes that have been killed, a history

guestVars == <<alive, parent, attached, pidsFile, grownAt, changed>>
clockVars == <<treeAt, probeAt, activeAt>>
stopVars == <<stopped, doomed, treeFresh, unkilled>>
vars == <<mode, job, collecting, guestVars, now, pc, adopted, tree, rooted, treeKnown,
          clockVars, stopVars, killed>>
setup == <<mode, job, collecting>>

(* $treeRootPid, and the pid of $proc.  When the pid file does not show up *)
(* in time the launch is "degraded": the loader then stands for the sample.*)
TreeRoot == IF mode = "degraded" THEN Loader ELSE Sample

ProcId == IF mode = "untraced" THEN Sample ELSE Loader

ProcExited == ProcId \notin alive

Started == DOMAIN parent

(* What is reached from S along the parent pointers of the processes in Q: *)
(* the least set that holds S and, with a process, its children.           *)
Closed(T, Q) == \A q \in Q : parent[q] \in T => q \in T

Below(S, Q) ==
  {x \in S \cup Q : \A T \in SUBSET (S \cup Q) : S \subseteq T /\ Closed(T, Q) => x \in T}

(* Get-SampleTreePids: only running processes link a parent to its children.*)
TreeOf_RootOnly(roots) == Below({r \in roots : r \in alive}, alive) \cap alive

TreeOf(roots) == Below(roots, alive) \cap alive

(* The sample and everything it ever started, directly or not. *)
Descendants == Below({Sample}, Started)

Init ==
  /\ mode \in Modes
  /\ job \in IF mode = "untraced" THEN {FALSE} ELSE BOOLEAN
  /\ collecting \in IF mode = "untraced" THEN {FALSE} ELSE BOOLEAN
  /\ alive = {Sample} \cup Hosts \cup (IF mode = "untraced" THEN {} ELSE {Loader})
  /\ parent = [p \in alive |-> IF p = Sample /\ mode # "untraced" THEN Loader ELSE None]
  /\ attached = {} /\ pidsFile = {}
  /\ grownAt = 0
  /\ changed = collecting
  /\ now = 0 /\ pc = "adopt"
  /\ adopted = {} /\ tree = {} /\ rooted = {} /\ treeKnown = FALSE
  /\ treeAt = 0 /\ probeAt = MinWindow /\ activeAt = 0
  /\ stopped = None /\ doomed = {} /\ treeFresh = FALSE /\ unkilled = FALSE
  /\ killed = {}

-----------------------------------------------------------------------------
(* The guest *)

Running == pc # "done"

loopVars == <<now, pc, adopted, tree, rooted, treeKnown, clockVars, stopVars>>

Spawn(p, q) ==
  /\ Running
  /\ q \in Children \ Started
  /\ p \in alive /\ p \in Descendants \cup attached
  /\ alive' = alive \cup {q}
  /\ parent' = [r \in Started \cup {q} |-> IF r = q THEN p ELSE parent[r]]
  /\ UNCHANGED <<setup, attached, pidsFile, grownAt, changed, loopVars, killed>>

ExitByItself(p) ==
  /\ Running
  /\ p \in alive /\ p \in {Sample} \cup Children
  /\ alive' = alive \ {p}
  /\ UNCHANGED <<setup, parent, attached, pidsFile, grownAt, changed, loopVars, killed>>

(* The end of the loader, by itself or killed, closes its job. *)
Gone(p) == {p} \cup (IF p = Loader /\ job THEN Descendants \cap alive ELSE {})

Ends(p) ==
  /\ alive' = alive \ Gone(p)
  /\ killed' = killed \cup (Gone(p) \cap alive \cap Hosts)

(* It waits for the sample. *)
LoaderExits ==
  /\ Running
  /\ Loader \in alive /\ Sample \notin alive
  /\ Ends(Loader)
  /\ UNCHANGED <<setup, parent, attached, pidsFile, grownAt, changed, loopVars>>

(* A hooked process - the sample, a child, or a host that a process of the *)
(* sample has injected into - sends a line, and the trace file grows.      *)
Traced(p) ==
  /\ Running
  /\ collecting
  /\ p \in alive /\ p \in Descendants \cup Hosts
  /\ p \in Hosts \ attached => alive \cap Descendants # {}
  /\ attached' = attached \cup {p}
  /\ grownAt' = now
  /\ changed' = TRUE
  /\ UNCHANGED <<setup, alive, parent, pidsFile, loopVars, killed>>

(* The collector's main loop, about once a second. *)
WritePids ==
  /\ Running
  /\ pidsFile # attached
  /\ pidsFile' = attached
  /\ UNCHANGED <<setup, alive, parent, attached, grownAt, changed, loopVars, killed>>

-----------------------------------------------------------------------------
(* The wait loop *)

(* A pids file that cannot be read counts as empty. *)
ReadPids ==
  /\ pc = "adopt"
  /\ adopted' \in {{}, IF mode = "untraced" THEN {} ELSE pidsFile \ {ProcId}}
  /\ pc' = "query"
  /\ UNCHANGED <<setup, guestVars, now, tree, rooted, treeKnown, clockVars, stopVars, killed>>

QueryTree ==
  /\ pc = "query"
  /\ tree' = TreeOf({TreeRoot} \cup adopted)
  /\ rooted' = adopted
  /\ treeKnown' = TRUE
  /\ treeAt' = now + TreeEvery
  /\ pc' = "decide"
  /\ UNCHANGED <<setup, guestVars, now, adopted, probeAt, activeAt, stopVars, killed>>

QueryFails ==
  /\ pc = "query"
  /\ treeAt' = now + TreeEvery
  /\ pc' = "decide"
  /\ UNCHANGED <<setup, guestVars, now, adopted, tree, rooted, treeKnown, probeAt,
                 activeAt, stopVars, killed>>

SampleGone ==
  IF ~treeKnown THEN ProcExited
  ELSE tree = {} /\ (mode = "traced" \/ ProcExited)

ExitDue == SampleGone /\ now >= MinRuntime

TimeoutDue == now >= Timeout

Probing == mode = "traced" /\ collecting /\ MinWindow > 0 /\ now >= probeAt

IdleDue == Probing /\ ~changed /\ now - activeAt >= IdleGrace

StopOnExit ==
  /\ pc = "decide"
  /\ ExitDue
  /\ stopped' = "exit"
  /\ pc' = "done"
  /\ UNCHANGED <<setup, guestVars, now, adopted, tree, rooted, treeKnown, clockVars,
                 doomed, treeFresh, unkilled, killed>>

StopBeforeExit ==
  /\ pc = "decide"
  /\ ~ExitDue
  /\ TimeoutDue \/ IdleDue
  /\ stopped' = IF TimeoutDue THEN "timeout" ELSE "idle"
  /\ pc' = "final"
  /\ UNCHANGED <<setup, guestVars, now, adopted, tree, rooted, treeKnown, clockVars,
                 doomed, treeFresh, unkilled, killed>>

KeepWatching_ForgetsActivity ==
  /\ pc = "decide"
  /\ ~ExitDue /\ ~TimeoutDue /\ ~IdleDue
  /\ probeAt' = IF Probing THEN now + ProbeEvery ELSE probeAt
  /\ changed' = (changed /\ ~Probing)
  /\ UNCHANGED activeAt
  /\ pc' = "sleep"
  /\ UNCHANGED <<setup, alive, parent, attached, pidsFile, grownAt, now, adopted,
                 tree, rooted, treeKnown, treeAt, stopVars, killed>>

KeepWatching ==
  /\ pc = "decide"
  /\ ~ExitDue /\ ~TimeoutDue /\ ~IdleDue
  /\ probeAt' = IF Probing THEN now + ProbeEvery ELSE probeAt
  /\ activeAt' = IF Probing /\ changed THEN now ELSE activeAt
  /\ changed' = (changed /\ ~Probing)
  /\ pc' = "sleep"
  /\ UNCHANGED <<setup, alive, parent, attached, pidsFile, grownAt, now, adopted,
                 tree, rooted, treeKnown, treeAt, stopVars, killed>>

Sleep ==
  /\ pc = "sleep"
  /\ now' = now + 1
  /\ pc' = IF now' >= treeAt THEN "adopt" ELSE "decide"
  /\ UNCHANGED <<setup, guestVars, adopted, tree, rooted, treeKnown, clockVars, stopVars, killed>>

FinalTree_Adopts ==
  /\ pc = "final"
  /\ treeFresh' \in BOOLEAN
  /\ doomed' = IF treeFresh' THEN TreeOf({TreeRoot} \cup adopted) ELSE tree
  /\ pc' = "kill"
  /\ UNCHANGED <<setup, guestVars, now, adopted, tree, rooted, treeKnown, clockVars,
                 stopped, unkilled, killed>>

FinalTree_SparesRoot ==
  /\ pc = "final"
  /\ treeFresh' \in BOOLEAN
  /\ doomed' = (IF treeFresh' THEN TreeOf({TreeRoot}) ELSE tree) \ {TreeRoot}
  /\ pc' = "kill"
  /\ UNCHANGED <<setup, guestVars, now, adopted, tree, rooted, treeKnown, clockVars,
                 stopped, unkilled, killed>>

(* After the final dump: the tree again, without the adopted hosts; should *)
(* the query fail, the loop's last tree, adopted hosts included.           *)
FinalTree ==
  /\ pc = "final"
  /\ treeFresh' \in BOOLEAN
  /\ doomed' = IF treeFresh' THEN TreeOf({TreeRoot}) ELSE tree
  /\ pc' = "kill"
  /\ UNCHANGED <<setup, guestVars, now, adopted, tree, rooted, treeKnown, clockVars,
                 stopped, unkilled, killed>>

KillOne(p) ==
  /\ pc = "kill"
  /\ p \in doomed
  /\ doomed' = doomed \ {p}
  /\ Ends(p)
  /\ UNCHANGED <<setup, parent, attached, pidsFile, grownAt, changed, now, pc,
                 adopted, tree, rooted, treeKnown, clockVars, stopped, treeFresh, unkilled>>

(* Kill() throws, on a process that protects itself say; catch is empty. *)
KillOneFails(p) ==
  /\ pc = "kill"
  /\ p \in doomed \cap alive
  /\ doomed' = doomed \ {p}
  /\ unkilled' = (unkilled \/ p = Sample)
  /\ UNCHANGED <<setup, guestVars, now, pc, adopted, tree, rooted, treeKnown,
                 clockVars, stopped, treeFresh, killed>>

(* Last, $proc itself, ... *)
KillProc ==
  /\ pc = "kill"
  /\ doomed = {}
  /\ Ends(ProcId)
  /\ pc' = "done"
  /\ UNCHANGED <<setup, parent, attached, pidsFile, grownAt, changed, now,
                 adopted, tree, rooted, treeKnown, clockVars, stopVars>>

(* ... which is waited for, without a limit, should that Kill() fail. *)
KillProcFails ==
  /\ pc = "kill"
  /\ doomed = {}
  /\ ~ProcExited
  /\ pc' = "wait"
  /\ UNCHANGED <<setup, guestVars, now, adopted, tree, rooted, treeKnown, clockVars,
                 stopVars, killed>>

WaitEnds ==
  /\ pc = "wait"
  /\ ProcExited
  /\ pc' = "done"
  /\ UNCHANGED <<setup, guestVars, now, adopted, tree, rooted, treeKnown, clockVars,
                 stopVars, killed>>

LoopStep ==
  \/ ReadPids \/ QueryTree \/ QueryFails
  \/ StopOnExit \/ StopBeforeExit \/ KeepWatching \/ Sleep
  \/ FinalTree \/ (\E p \in Pids : KillOne(p) \/ KillOneFails(p))
  \/ KillProc \/ KillProcFails \/ WaitEnds

Next ==
  \/ \E p \in Pids : ExitByItself(p) \/ Traced(p) \/ (\E q \in Children : Spawn(p, q))
  \/ LoaderExits
  \/ WritePids
  \/ LoopStep

Spec == Init /\ [][Next]_vars

-----------------------------------------------------------------------------
TypeOK ==
  /\ mode \in Modes /\ job \in BOOLEAN /\ collecting \in BOOLEAN
  /\ alive \subseteq Started
  /\ parent \in [Started -> Pids \cup {None}] /\ Started \subseteq Pids
  /\ attached \subseteq Pids /\ pidsFile \subseteq attached
  /\ grownAt \in 0 .. Timeout /\ now \in 0 .. Timeout
  /\ pc \in {"adopt", "query", "decide", "sleep", "final", "kill", "wait", "done"}
  /\ adopted \subseteq Pids /\ rooted \subseteq Pids /\ tree \subseteq Pids /\ doomed \subseteq Pids
  /\ killed \subseteq Hosts
  /\ treeKnown \in BOOLEAN /\ changed \in BOOLEAN /\ treeFresh \in BOOLEAN
  /\ unkilled \in BOOLEAN
  /\ treeAt \in Nat /\ probeAt \in Nat /\ activeAt \in 0 .. Timeout
  /\ stopped \in {None, "exit", "idle", "timeout"}

(* An exit-stop that a tree query backs is never early: neither the sample *)
(* nor a process that the tree was grown from, the root and the hosts read *)
(* from the pids file, is running, nor a direct child of one of those.     *)
(* The tree may be some refreshes old by then, because a failed query      *)
(* leaves it, and a sample may be gone while its children live on.         *)
ExitStopIsSound ==
  stopped = "exit" /\ treeKnown =>
    /\ Sample \notin alive
    /\ \A p \in alive : {p, parent[p]} \cap ({TreeRoot} \cup rooted) = {}

(* An idle-stop comes only after a full grace period in which the trace    *)
(* did not grow, although its size is looked at only now and then.         *)
IdleStopIsSilent ==
  [][StopBeforeExit /\ stopped' = "idle" => now - grownAt >= IdleGrace]_vars

(* A sample that is stopped before it exited does not outlive the window,  *)
(* if the process table could be read even once, and unless Kill() failed  *)
(* on the sample itself: failures to kill the others, the loader included, *)
(* do not save it.                                                         *)
StoppedSampleIsDead ==
  pc = "done" /\ stopped \in {"idle", "timeout"} /\ treeKnown =>
    Sample \notin alive \/ unkilled

(* "Adopted injection hosts are deliberately NOT killed": true as long as  *)
(* the final query of the process table succeeds.                          *)
HostsSurvive == treeFresh => killed = {}
=============================================================================
