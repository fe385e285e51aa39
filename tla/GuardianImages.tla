--------------------------- MODULE GuardianImages ----------------------------
(***************************************************************************)
(* Job 5 of the SandboxGuard driver (guardian/src/SandboxGuard.c): the     *)
(* image-load callback that is to report a second mapping of a watched     *)
(* module into one process.  The process table is a function of the pid    *)
(* here; that it may be full, or clear, is module GuardianLineage.         *)
(***************************************************************************)
EXTENDS Naturals

CONSTANTS Pids,   \* pids the operating system hands out
          MaxMaps \* bound: mappings of one module into one process

(* kRemapWatchSuffixes: "upper" and "slash" say how each literal is        *)
(* written, for the comparison below depends on it.                        *)
Watched == {"ntdll", "kernel32", "amsi"}
Needle(name) == [name |-> name, upper |-> TRUE, slash |-> TRUE]

Modules == Watched \cup {"other"}

VARIABLES tracked,  \* pids with an entry in g_Procs
          flags,    \* PROC_F_NTDLL, PROC_F_KERNEL32, PROC_F_AMSI of the entry
          reported, \* GUARDIAN_EVT_MODULE_REMAP events of the process
          mapped    \* history: times each module was mapped into the process

vars == <<tracked, flags, reported, mapped>>

None == [m \in Modules |-> 0]

Init ==
  /\ tracked = {}
  /\ flags = [p \in Pids |-> {}]
  /\ reported = [p \in Pids |-> {}]
  /\ mapped = [p \in Pids |-> None]

(* GuardianBasenameMatch: the path is put in lower case and compared with  *)
(* the literal as it stands, and a backslash must come before the match.   *)
BasenameMatch(name, needle) ==
  /\ name = needle.name
  /\ ~needle.upper
  /\ ~needle.slash

Flag(name) == {w \in Watched : BasenameMatch(name, Needle(w))}

(* GuardianProcessNotify takes an entry with no flags ...                  *)
Create(p) ==
  /\ p \notin tracked
  /\ tracked' = tracked \cup {p}
  /\ flags' = [flags EXCEPT ![p] = {}]
  /\ reported' = [reported EXCEPT ![p] = {}]
  /\ mapped' = [mapped EXCEPT ![p] = None]

(* ... and gives it up when the process exits.                             *)
Exit(p) ==
  /\ p \in tracked
  /\ tracked' = tracked \ {p}
  /\ UNCHANGED <<flags, reported, mapped>>

(* GuardianImageNotify.                                                    *)
Map(p, name) ==
  /\ p \in tracked
  /\ mapped[p][name] < MaxMaps
  /\ mapped' = [mapped EXCEPT ![p][name] = @ + 1]
  /\ flags' = [flags EXCEPT ![p] = @ \cup Flag(name)]
  /\ reported' = [reported EXCEPT ![p] = @ \cup (flags[p] \cap Flag(name))]
  /\ UNCHANGED tracked

Next ==
  \E p \in Pids : Create(p) \/ Exit(p) \/ \E name \in Modules : Map(p, name)

Spec == Init /\ [][Next]_vars

(* A watched module that is mapped twice into one tracked process is       *)
(* reported for it (guardian_ioctl.h: "mapped twice into one PID").        *)
RemapIsReported ==
  \A p \in tracked, w \in Watched : mapped[p][w] > 1 => w \in reported[p]
==============================================================================
