------------------------------ MODULE PidLineage ------------------------------
(***************************************************************************)
(* Who belongs to the sample (orchestrator/pid_lineage.py): the lineage    *)
(* that build_pid_lineage reads out of the telemetry, against the tree of  *)
(* processes the guest really had.  The guest creates and ends processes,  *)
(* uses the pid of an ended one again, and its events can be lost.         *)
(*                                                                         *)
(* Processes are numbered in the order of their creation.  A ProcessGuid   *)
(* is that number; a ProcessCreate or ProcessTerminate event is the number *)
(* of the process it is about.                                             *)
(***************************************************************************)
EXTENDS Integers

CONSTANTS Pids,     \* pids the guest hands out
          MaxBorn,  \* bound: processes created
          MaxLost,  \* bound: events lost
          Slack     \* _REUSE_WINDOW_SLACK

ASSUME LineageAssumption ==
  /\ 0 \notin Pids
  /\ {MaxBorn, MaxLost, Slack} \subseteq Nat

Ids == 1 .. MaxBorn
Outside == 0 \* any process older than the telemetry: number, pid and guid

VARIABLES proc,     \* Ids -> process record or NoProc
          born,     \* processes created so far
          root,     \* the sample's process, or Outside
          clock,    \* the guest's clock
          lost,     \* events lost so far
          hasGuids, \* the telemetry carries ProcessGuids
          hasImage  \* execution_info names the launcher's image

vars == <<proc, born, root, clock, lost, hasGuids, hasImage>>

NoProc == [pid |-> 0]

(* image: of the launcher, or another; birth, death: the UtcTime of the    *)
(* events; created, ended: whether the event is in the telemetry.          *)
Process ==
  [pid : Pids, parent : Ids \cup {Outside}, launcher : BOOLEAN,
   birth : Nat, death : Nat, alive : BOOLEAN, created : BOOLEAN, ended : BOOLEAN]

Made == {i \in Ids : proc[i] # NoProc}
Alive == {i \in Made : proc[i].alive}
PidOf(i) == IF i = Outside THEN Outside ELSE proc[i].pid

Init ==
  /\ proc = [i \in Ids |-> NoProc]
  /\ born = 0
  /\ root = Outside
  /\ clock = 0
  /\ lost = 0
  /\ hasGuids \in BOOLEAN
  /\ hasImage \in {FALSE, hasGuids}

Recorded(event) ==
  /\ clock' = clock + 1
  /\ IF event THEN lost' = lost ELSE lost < MaxLost /\ lost' = lost + 1
  /\ UNCHANGED <<hasGuids, hasImage>>

(* The times of two events may be off by up to Slack against each other.   *)
Create(pid, parent, launcher, created, late) ==
  /\ born < MaxBorn
  /\ \A i \in Alive : proc[i].pid # pid
  /\ born' = born + 1
  /\ proc' = [proc EXCEPT ![born + 1] =
       [pid |-> pid, parent |-> parent, launcher |-> launcher, birth |-> clock + late,
        death |-> 0, alive |-> TRUE, created |-> created, ended |-> FALSE]]
  /\ Recorded(created)

(* The sample is launched by a process of the sandbox.                     *)
Launch(pid, created) ==
  /\ root = Outside
  /\ Create(pid, Outside, hasImage, created, 0)
  /\ root' = born + 1

Spawn(pid, parent, launcher, created, late) ==
  /\ Create(pid, parent, launcher, created, late)
  /\ UNCHANGED root

(* Ends after the last creation make no difference.                        *)
Exit(i, ended) ==
  /\ i \in Alive
  /\ born < MaxBorn
  /\ proc' = [proc EXCEPT ![i].alive = FALSE, ![i].ended = ended, ![i].death = clock]
  /\ Recorded(ended)
  /\ UNCHANGED <<born, root>>

(* Images are compared in one case only, and times in another.             *)
Launchers == IF hasImage THEN BOOLEAN ELSE {FALSE}
Delays == IF hasGuids THEN {0} ELSE {0, Slack}

Next ==
  \/ \E pid \in Pids, created \in BOOLEAN : Launch(pid, created)
  \/ \E pid \in Pids, parent \in Alive \cup {Outside}, launcher \in Launchers,
        created \in BOOLEAN, late \in Delays :
       Spawn(pid, parent, launcher, created, late)
  \/ \E i \in Ids, ended \in BOOLEAN : Exit(i, ended)

Spec == Init /\ [][Next]_vars

-----------------------------------------------------------------------------
(* build_pid_lineage.                                                      *)

(* What a breadth-first search finds: the least set that holds the start   *)
(* and the children of its members.                                        *)
Closed(S, child) == \A a \in S : child[a] \subseteq S
Reach(nodes, start, child) ==
  {x \in nodes : \A S \in SUBSET nodes : start \subseteq S /\ Closed(S, child) => x \in S}

Creates == {i \in Made : proc[i].created}
Ends == {i \in Made : proc[i].ended}
RootPid == proc[root].pid

(* guid_child_map, pid_own_guids, parent_guids_by_ppid.                    *)
GuidChildren == [g \in Ids |-> {i \in Creates : proc[i].parent = g}]
OwnGuids == {i \in Creates : proc[i].pid = RootPid}
ParentGuids ==
  {g \in Ids \cup {Outside} : \E i \in Creates : proc[i].parent = g /\ PidOf(g) = RootPid}

(* Which of the processes that had root_pid is the sample: the one that    *)
(* runs the launcher, or those that children name as their parent, or all. *)
RootGuids_FirstSeen ==
  IF OwnGuids = {} THEN {} ELSE {CHOOSE g \in OwnGuids : \A h \in OwnGuids : g <= h}

RootGuids_NoImage ==
  IF ParentGuids # {} THEN ParentGuids ELSE OwnGuids

RootGuids ==
  LET byImage == {i \in OwnGuids : hasImage /\ proc[i].launcher}
  IN  IF byImage # {} THEN byImage
      ELSE IF ParentGuids # {} THEN ParentGuids ELSE OwnGuids

Guids == IF hasGuids THEN Reach(Ids, RootGuids, GuidChildren) ELSE {}

(* Without guids: by pid, but no child that was born after its parent pid  *)
(* was first given up.  pid_ctime keeps the first time, pid_etime the      *)
(* earliest.                                                               *)
Earliest(S) == CHOOSE t \in S : \A u \in S : t <= u
FirstCreate(pid) == Earliest({i \in Creates : proc[i].pid = pid})
FirstEnd(pid) == Earliest({proc[i].death : i \in {j \in Ends : proc[j].pid = pid}})

TooLate_NoSlack(parent, child) ==
  /\ \E i \in Ends : proc[i].pid = parent
  /\ proc[FirstCreate(child)].birth > FirstEnd(parent)

TooLate_Never(parent, child) == FALSE

TooLate(parent, child) ==
  /\ \E i \in Ends : proc[i].pid = parent
  /\ proc[FirstCreate(child)].birth > FirstEnd(parent) + Slack

PidChildren ==
  [p \in Pids |->
     {c \in Pids : /\ \E i \in Creates : proc[i].pid = c /\ PidOf(proc[i].parent) = p
                   /\ ~TooLate(p, c)}]

LineagePids_NoGuidTree == Reach(Pids, {RootPid}, PidChildren)

LineagePids ==
  IF Guids # {} THEN {proc[g].pid : g \in Guids \cap Creates} \cup {RootPid}
                ELSE Reach(Pids, {RootPid}, PidChildren)

(* PidLineage.contains_event, for an event of process i, with or without a *)
(* guid in it.                                                             *)
ContainsEvent_ByPid(i, withGuid) == proc[i].pid \in LineagePids

ContainsEvent(i, withGuid) ==
  IF withGuid /\ Guids # {} THEN i \in Guids ELSE proc[i].pid \in LineagePids

-----------------------------------------------------------------------------
TypeOK ==
  /\ proc \in [Ids -> Process \cup {NoProc}]
  /\ born \in 0 .. MaxBorn
  /\ root \in 0 .. born
  /\ clock \in Nat
  /\ lost \in 0 .. MaxLost
  /\ {hasGuids, hasImage} \subseteq BOOLEAN
  /\ \A i \in Ids : i \in Made <=> i <= born

(* Who really descends from the sample.                                    *)
TrueChildren == [g \in Ids |-> {i \in Made : proc[i].parent = g}]
Family == Reach(Ids, {root}, TrueChildren)

(* The telemetry tells the sample's process from others that had its pid:  *)
(* by its image, or because only the sample has children there, or because *)
(* there was no other.                                                     *)
Others == OwnGuids \ {root}
RootIsTold ==
  /\ root \in Creates
  /\ \/ hasImage /\ \A i \in Others : ~proc[i].launcher
     \/ ~hasImage /\ ParentGuids = {root}
     \/ OwnGuids = {root} /\ ParentGuids \subseteq {root}

(* Whatever pids are used again, before, during or after the sample, and   *)
(* whatever events are lost: an event that carries the guid of a process   *)
(* which does not descend from the sample is out of scope, if the root can *)
(* be told at all (RootIsTold).                                            *)
NoOutsider ==
  root # Outside /\ hasGuids /\ RootIsTold =>
    \A i \in Made \ Family : ~ContainsEvent(i, TRUE)

(* When no ProcessCreate of the family is lost, every event of a member is *)
(* in scope, with a guid or without.  Without guids in the telemetry this  *)
(* needs that no member's pid had an earlier holder: the earliest end of a *)
(* pid is taken for the member's.                                          *)
FamilyInScope ==
  /\ root # Outside
  /\ Family \subseteq Creates
  /\ hasGuids \/ \A i \in Family, j \in Made : proc[j].pid = proc[i].pid => i <= j
  => \A i \in Family, withGuid \in BOOLEAN :
       (withGuid => hasGuids) /\ (hasGuids => RootIsTold) => ContainsEvent(i, withGuid)

(* Without guids, the children of a later holder of a member's pid stay    *)
(* out, if the member's end is in the telemetry and they were born after   *)
(* it by more than the slack, and if they are the only holders of theirs.  *)
LaterHoldersStayOut ==
  root # Outside /\ ~hasGuids =>
    \A i \in Made \ Family :
      /\ \A j \in Made \ {i} : proc[j].pid # proc[i].pid
      /\ \E m \in Family \cap Ends :
           PidOf(proc[i].parent) = proc[m].pid /\ proc[i].birth > proc[m].death + Slack
      => ~ContainsEvent(i, FALSE)
==============================================================================
