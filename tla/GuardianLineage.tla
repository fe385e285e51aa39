--------------------------- MODULE GuardianLineage ---------------------------
(***************************************************************************)
(* Which processes the SandboxGuard driver traces, which it protects, and  *)
(* how the monitor is placed in them (guardian/src/SandboxGuard.c), against *)
(* the agent that registers all this (agent/windows/guardian_agent.py) and *)
(* an operating system that creates processes and threads and uses the pid *)
(* of an exited process again.                                             *)
(*                                                                         *)
(* One action is what the code does under one acquisition of g_StateLock,  *)
(* or between two.  The events that callbacks push are counted per process *)
(* here; the ring they go through is module GuardianRing.                  *)
(***************************************************************************)
EXTENDS Integers

CONSTANTS Pids,       \* pids the operating system hands out
          ProcCap,    \* GUARDIAN_PROC_CAP
          ProtectCap, \* GUARDIAN_PROTECT_CAP
          MaxBorn,    \* bound: processes created
          MaxAgents   \* bound: times the agent is started

ASSUME LineageAssumption ==
  /\ Pids \subseteq Nat \ {0}
  /\ {ProcCap, ProtectCap, MaxBorn, MaxAgents} \subseteq Nat

(* "sample" matches an image rule, "denied" is on kInjectDenylist or a     *)
(* protected process; "sysmon" is what _find_pids_by_image looks for.      *)
Images == {"sample", "other", "denied", "sysmon"}

AgentPid == 0 - 1 \* the agent lives longer than any reuse of its pid
System == 0 - 2   \* a parent older than the driver, in no table

VARIABLES proc,       \* the processes that exist: Pids -> record or NoProc
          born,       \* processes created so far
          table,      \* g_Procs
          guarded,    \* g_Protected
          targeting,  \* g_Targeting.Mode is not OFF
          configured, \* g_InjectionConfigured, g_Injection
          agent,      \* where the agent is
          known,      \* known_sysmon_pids
          todo,       \* pids of this tick's snapshot still to look at
          starts,     \* agents started so far
          tree        \* history: who descends from a target, see Create

driver == <<table, guarded, targeting, configured>>
agentVars == <<agent, known, todo, starts>>
vars == <<proc, born, driver, agentVars, tree>>

Slots == 1 .. ProcCap
FreeEntry == [pid |-> 0, target |-> FALSE, injected |-> FALSE]

(* queued: kernel APCs waiting; ready: kernel routines past their checks;  *)
(* placed, failed: INJECT_QUEUED and INJECT_FAILED events; lost: APCs that *)
(* could not be queued.                                                    *)
Process == [image : Images, queued : Nat, ready : Nat, placed : Nat, failed : Nat, lost : Nat]
NoProc == [image |-> "none"]
NewProc(img) ==
  [image |-> img, queued |-> 0, ready |-> 0, placed |-> 0,
   failed |-> 0, lost |-> 0]

Alive == {p \in Pids : proc[p] # NoProc}
Sysmons == {p \in Alive : proc[p].image = "sysmon"}

Init ==
  /\ proc = [p \in Pids |-> NoProc]
  /\ born = 0
  /\ table = [i \in Slots |-> FreeEntry]
  /\ guarded = [i \in 1 .. ProtectCap |-> 0]
  /\ targeting = FALSE
  /\ configured = FALSE
  /\ agent = "off"
  /\ known = {}
  /\ todo = {}
  /\ starts = 0
  /\ tree = {}

-----------------------------------------------------------------------------
(* The process table.                                                      *)

First(S) == CHOOSE i \in S : \A j \in S : i <= j

(* GuardianFindProc: the slot of a pid, as a set of at most one.           *)
Find(pid) ==
  LET at == {i \in Slots : table[i].pid = pid}
  IN  IF at = {} THEN {} ELSE {First(at)}

(* GuardianFindOrAddProc: an empty set when the table is full.             *)
FindOrAdd(pid) == IF Find(pid) # {} THEN Find(pid) ELSE Find(0)

IsTarget(pid) == \E i \in Find(pid) : table[i].target

(* GuardianShouldTarget in the mode the agent registers: image rules and   *)
(* follow the children.                                                    *)
ShouldTarget_AnyParent(parent, img) ==
  targeting /\ (img = "sample" \/ Find(parent) # {})

ShouldTarget(parent, img) ==
  targeting /\ (img = "sample" \/ IsTarget(parent))

(* GuardianProcessNotify, a process is created.  tree is the same decision *)
(* taken by descent instead of by pid: p is the child of a living member,  *)
(* or an image rule names it.                                              *)
Create(p, parent, img) ==
  /\ p \notin Alive
  /\ born < MaxBorn
  /\ born' = born + 1
  /\ proc' = [proc EXCEPT ![p] = NewProc(img)]
  /\ table' = [i \in Slots |->
       IF i \notin FindOrAdd(p) THEN table[i]
       ELSE LET e == IF table[i].pid = p THEN table[i]
                                         ELSE [FreeEntry EXCEPT !.pid = p]
            IN  IF img # "denied" /\ ShouldTarget(parent, img)
                THEN [e EXCEPT !.target = TRUE] ELSE e]
  /\ tree' = IF /\ targeting /\ img # "denied"
                /\ img = "sample" \/ parent \in tree
                /\ FindOrAdd(p) # {}
             THEN tree \cup {p} ELSE tree
  /\ UNCHANGED <<guarded, targeting, configured, agentVars>>

(* GuardianProcessNotify, a process exits: its slot is free, its flags stay *)
(* behind.  Waiting APCs run down with it.                                 *)
Exit_KeepsSlot(p) ==
  /\ p \in Alive
  /\ proc' = [proc EXCEPT ![p] = NoProc]
  /\ tree' = tree \ {p}
  /\ UNCHANGED <<born, driver, agentVars>>

Exit_Unprotects(p) ==
  /\ p \in Alive
  /\ proc' = [proc EXCEPT ![p] = NoProc]
  /\ table' = [i \in Slots |-> IF i \in Find(p) THEN [table[i] EXCEPT !.pid = 0]
                                                ELSE table[i]]
  /\ guarded' = [i \in DOMAIN guarded |-> IF guarded[i] = p THEN 0 ELSE guarded[i]]
  /\ tree' = tree \ {p}
  /\ UNCHANGED <<born, targeting, configured, agentVars>>

Exit(p) ==
  /\ p \in Alive
  /\ proc' = [proc EXCEPT ![p] = NoProc]
  /\ table' = [i \in Slots |-> IF i \in Find(p) THEN [table[i] EXCEPT !.pid = 0]
                                                ELSE table[i]]
  /\ tree' = tree \ {p}
  /\ UNCHANGED <<born, guarded, targeting, configured, agentVars>>

-----------------------------------------------------------------------------
(* Placement of the monitor.                                               *)

(* GuardianThreadNotify, a thread of p is created: the flag is tested and  *)
(* set under the lock, the APC is queued after it.  When that fails,       *)
(* nothing says so.  Threads that find the flag set, and those of other    *)
(* processes, change nothing.                                              *)
Unplaced(p) == {i \in Find(p) : table[i].target /\ ~table[i].injected}

Start_Unmarked(p) ==
  /\ p \in Alive
  /\ Unplaced(p) # {}
  /\ \/ proc' = [proc EXCEPT ![p].queued = @ + 1]
     \/ proc' = [proc EXCEPT ![p].lost = @ + 1]
  /\ UNCHANGED <<born, driver, agentVars, tree>>

Start(p) ==
  /\ p \in Alive
  /\ Unplaced(p) # {}
  /\ table' = [i \in Slots |-> IF i \in Unplaced(p) THEN [table[i] EXCEPT !.injected = TRUE]
                                                    ELSE table[i]]
  /\ \/ proc' = [proc EXCEPT ![p].queued = @ + 1]
     \/ proc' = [proc EXCEPT ![p].lost = @ + 1]
  /\ UNCHANGED <<born, guarded, targeting, configured, agentVars, tree>>

(* GuardianInjectKernelRoutine reads the registration without the lock ... *)
Check(p) ==
  /\ p \in Alive
  /\ proc[p].queued > 0
  /\ \/ configured /\ proc' = [proc EXCEPT ![p].queued = @ - 1, ![p].ready = @ + 1]
     \/ ~configured /\ proc' = [proc EXCEPT ![p].queued = @ - 1, ![p].failed = @ + 1]
  /\ UNCHANGED <<born, driver, agentVars, tree>>

(* ... and then works on g_Injection itself, whose path a CLEAR_ALL may    *)
(* have emptied by now: the APC is queued all the same.  Allocation, the   *)
(* WoW64 wrapping and the queueing can each fail.                          *)
Place(p) ==
  /\ p \in Alive
  /\ proc[p].ready > 0
  /\ \/ proc' = [proc EXCEPT ![p].ready = @ - 1, ![p].placed = @ + 1]
     \/ proc' = [proc EXCEPT ![p].ready = @ - 1, ![p].failed = @ + 1]
  /\ UNCHANGED <<born, driver, agentVars, tree>>

-----------------------------------------------------------------------------
(* The agent and its IOCTLs.                                               *)

(* IOCTL_GUARDIAN_PROTECT_PID: no slot twice; what it returns is whether   *)
(* the pid is in the set now.                                              *)
Guarded(pid) == \E i \in DOMAIN guarded : guarded[i] = pid
Room == {i \in DOMAIN guarded : guarded[i] = 0}
WithGuard(pid) ==
  IF Guarded(pid) \/ Room = {} THEN guarded ELSE [guarded EXCEPT ![First(Room)] = pid]

(* GuardianClearAll.                                                       *)
ClearAll ==
  /\ table' = [i \in Slots |-> FreeEntry]
  /\ guarded' = [i \in DOMAIN guarded |-> 0]
  /\ targeting' = FALSE
  /\ configured' = FALSE
  /\ tree' = {}

StartAgent ==
  /\ agent = "off"
  /\ starts < MaxAgents
  /\ starts' = starts + 1
  /\ agent' = "register"
  /\ ClearAll
  /\ UNCHANGED <<proc, born, known, todo>>

(* _register_protections: itself first, then what one snapshot shows.      *)
(* All of it counts as known, whatever the driver answered.                *)
RegisterSelf ==
  /\ agent = "register"
  /\ agent' = "protect"
  /\ guarded' = WithGuard(AgentPid)
  /\ known' = Sysmons
  /\ todo' = Sysmons
  /\ UNCHANGED <<proc, born, table, targeting, configured, starts, tree>>

Protect(p) ==
  /\ agent = "protect"
  /\ p \in todo
  /\ todo' = todo \ {p}
  /\ guarded' = WithGuard(p)
  /\ UNCHANGED <<proc, born, table, targeting, configured, agent, known, starts, tree>>

(* _register_injection, unless the agent was given no DLL ... *)
RegisterInjection ==
  /\ agent = "protect"
  /\ todo = {}
  /\ agent' = "target"
  /\ configured' = TRUE \/ UNCHANGED configured
  /\ UNCHANGED <<proc, born, table, guarded, targeting, known, todo, starts, tree>>

(* ... and _register_targeting, unless it was given no image. *)
RegisterTargeting ==
  /\ agent = "target"
  /\ agent' = "loop"
  /\ targeting' = TRUE \/ UNCHANGED targeting
  /\ UNCHANGED <<proc, born, table, guarded, configured, known, todo, starts, tree>>

(* One turn of the loop looks for Sysmon processes it does not know ...    *)
Resolve ==
  /\ agent = "loop"
  /\ todo = {}
  /\ todo' = Sysmons \ known
  /\ UNCHANGED <<proc, born, driver, agent, known, starts, tree>>

(* ... and protects each; one that the driver refuses is tried again in    *)
(* the next turn.                                                          *)
ProtectNew(p) ==
  /\ agent = "loop"
  /\ p \in todo
  /\ todo' = todo \ {p}
  /\ guarded' = WithGuard(p)
  /\ known' = IF Guarded(p) \/ Room # {} THEN known \cup {p} ELSE known
  /\ UNCHANGED <<proc, born, table, targeting, configured, agent, starts, tree>>

(* The stop file, the deadline, or an exception: "finally" clears.         *)
StopAgent ==
  /\ agent # "off"
  /\ agent' = "off"
  /\ known' = {}
  /\ todo' = {}
  /\ ClearAll
  /\ UNCHANGED <<proc, born, starts>>

(* Guardian-Stop after its patience: the registrations stay.               *)
KillAgent ==
  /\ agent # "off"
  /\ agent' = "off"
  /\ known' = {}
  /\ todo' = {}
  /\ UNCHANGED <<proc, born, driver, starts, tree>>

-----------------------------------------------------------------------------
Kernel(p) == Check(p) \/ Place(p)

Agent ==
  \/ RegisterSelf \/ RegisterInjection \/ RegisterTargeting \/ Resolve
  \/ \E p \in Pids : Protect(p) \/ ProtectNew(p)

Next ==
  \/ \E p \in Pids, img \in Images : \E parent \in (Alive \ {p}) \cup {System} :
       Create(p, parent, img)
  \/ \E p \in Pids : Exit(p)
  \/ \E p \in Pids : Start(p)
  \/ \E p \in Pids : Check(p)
  \/ \E p \in Pids : Place(p)
  \/ StartAgent \/ RegisterSelf
  \/ \E p \in Pids : Protect(p)
  \/ RegisterInjection \/ RegisterTargeting
  \/ Resolve
  \/ \E p \in Pids : ProtectNew(p)
  \/ StopAgent \/ KillAgent

Spec == Init /\ [][Next]_vars

(* An APC that is queued to a thread runs, and the agent's loop goes on    *)
(* until the agent stops or is killed.                                     *)
FairSpec ==
  /\ Spec
  /\ WF_vars(Agent)
  /\ \A p \in Pids : WF_vars(Kernel(p))

-----------------------------------------------------------------------------
TypeOK ==
  /\ proc \in [Pids -> Process \cup {NoProc}]
  /\ born \in 0 .. MaxBorn
  /\ table \in [Slots -> [pid : Pids \cup {0}, target : BOOLEAN, injected : BOOLEAN]]
  /\ guarded \in [1 .. ProtectCap -> Pids \cup {0, AgentPid}]
  /\ targeting \in BOOLEAN
  /\ configured \in BOOLEAN
  /\ agent \in {"off", "register", "protect", "target", "loop"}
  /\ known \subseteq Pids
  /\ todo \subseteq Pids
  /\ starts \in 0 .. MaxAgents
  /\ tree \subseteq Pids

(* The processes that the driver takes for targets are the descendants of  *)
(* an image rule, as far as no link of the chain was denied or found the   *)
(* table full: a pid used again, a slot used again or a parent that is     *)
(* gone adds none and loses none (GuardianShouldTarget decides by pid).    *)
TargetsAreTheTree ==
  /\ \A p \in Pids : p \in tree <=> IsTarget(p)
  /\ tree \subseteq Alive
  /\ \A i \in Slots : table[i].pid # 0 => table[i].pid \in Alive

(* Every target whose first thread has been created is placed, reported as *)
(* failed, on the way to one of the two, or lost in GuardianQueueInjection *)
(* without a word, and exactly one of these, once, however many threads it *)
(* starts and whether or not the registration is cleared meanwhile.        *)
Attempts(p) ==
  proc[p].queued + proc[p].ready + proc[p].placed + proc[p].failed + proc[p].lost

PlacedOnce ==
  \A p \in Alive :
    /\ Attempts(p) <= 1
    /\ Attempts(p) = 1 => proc[p].image # "denied"
    /\ (\E i \in Find(p) : table[i].injected) => Attempts(p) = 1

(* A Sysmon process that stays is protected as long as the agent runs,     *)
(* whatever pid its restart got, unless the protected set is full: entries *)
(* of processes that are gone are never taken out.                         *)
SysmonIsProtected ==
  \A p \in Pids :
    agent = "loop" /\ p \in Sysmons
      ~> p \notin Sysmons \/ Guarded(p) \/ agent = "off" \/ Room = {}
==============================================================================
