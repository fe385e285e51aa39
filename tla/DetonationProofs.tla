-------------------------- MODULE DetonationProofs --------------------------
(***************************************************************************)
(* Why the detonation window stops for the reason it reports, and kills    *)
(* what it should and no more: the process tree that a query finds is the  *)
(* least set closed under the parent pointers of the running processes, so *)
(* it contains the sample while that runs and never a system process that  *)
(* was not put at its root.                                                *)
(***************************************************************************)
EXTENDS Detonation, TLAPS

USE DetonationAssumption DEF Pids, None, Started

(* Who is whose child: the system processes have no parent in the model,   *)
(* and the sample is the child of the loader when there is one.            *)
Family ==
  /\ {Sample} \cup Hosts \subseteq Started
  /\ attached \cup adopted \cup rooted \subseteq Started
  /\ \A h \in Hosts : parent[h] = None
  /\ IF mode = "untraced" THEN Loader \notin Started
     ELSE Loader \in Started /\ parent[Sample] = Loader

(* What the loop knows of the trace's growth.                              *)
Clock ==
  /\ pc = "sleep" => now < Timeout
  /\ grownAt <= now /\ activeAt <= now
  /\ ~changed => grownAt <= activeAt

(* A running sample is in every tree that was ever read, and is killed,    *)
(* or its own kill has failed.                                             *)
SampleSeen ==
  treeKnown /\ Sample \in alive =>
    /\ Sample \in tree
    /\ pc = "kill" => Sample \in doomed \/ unkilled
    /\ pc = "wait" => unkilled
    /\ pc = "done" => stopped \notin {"idle", "timeout"} \/ unkilled

(* Nothing kills a system process unless the loop's last tree does.        *)
Ending == {"kill", "wait", "done"}

HostsSpared ==
  /\ treeFresh => pc \in Ending /\ doomed \cap Hosts = {}
  /\ treeFresh \/ pc \notin Ending => killed = {}

(* An empty tree stays true: its roots and their children are gone.        *)
EmptyTree ==
  /\ treeKnown /\ tree = {} =>
       \A p \in alive : {p, parent[p]} \cap ({TreeRoot} \cup rooted) = {}
  /\ stopped = "exit" => pc = "done" /\ (treeKnown => tree = {})

IInv == TypeOK /\ Family /\ Clock /\ SampleSeen /\ HostsSpared /\ EmptyTree

-----------------------------------------------------------------------------
(* The process tree *)

(* A search finds what it starts from.                                     *)
LEMMA BelowStart ==
  ASSUME NEW S, NEW Q
  PROVE  S \subseteq Below(S, Q)
BY DEF Below

(* A search finds the children of what it finds.                           *)
LEMMA BelowClosed ==
  ASSUME NEW S, NEW Q, NEW q \in Q, parent[q] \in Below(S, Q)
  PROVE  q \in Below(S, Q)
BY DEF Below, Closed

(* It finds nothing outside a closed set that it starts in.                *)
LEMMA BelowLeast ==
  ASSUME NEW S, NEW Q, NEW T \in SUBSET (S \cup Q), S \subseteq T, Closed(T, Q)
  PROVE  Below(S, Q) \subseteq T
BY DEF Below

(* It finds no system process unless it starts at one: they are nobody's   *)
(* children.                                                               *)
LEMMA NoHostBelow ==
  ASSUME TypeOK, Family, NEW S \in SUBSET (Pids \ Hosts), NEW Q \in SUBSET Started
  PROVE  Below(S, Q) \cap Hosts = {}
<1> DEFINE T == (S \cup Q) \ Hosts
<1>1. Closed(T, Q)
  <2> SUFFICES ASSUME NEW q \in Q, parent[q] \in T PROVE q \in T
    BY DEF Closed
  <2>1. parent[q] \in Pids
    BY DEF TypeOK
  <2>2. q \notin Hosts
    BY <2>1 DEF Family
  <2> QED BY <2>2
<1>2. T \in SUBSET (S \cup Q) /\ S \subseteq T
  OBVIOUS
<1>3. Below(S, Q) \subseteq T
  <2> HIDE DEF T
  <2> QED BY <1>1, <1>2, BelowLeast
<1> QED BY <1>3

LEMMA DescendantsFact ==
  ASSUME TypeOK, Family
  PROVE  Descendants \cap Hosts = {} /\ Descendants \subseteq Started
<1>1. Descendants \cap Hosts = {}
  BY NoHostBelow DEF Descendants
<1>2. Descendants \subseteq Started
  BY DEF Descendants, Below, Family
<1> QED BY <1>1, <1>2

(* What a query finds: of the running processes, the roots and their       *)
(* children at least, and no system process that is not a root.            *)
LEMMA TreeOfFact ==
  ASSUME TypeOK, Family, NEW roots \in SUBSET Pids
  PROVE  /\ TreeOf(roots) \subseteq alive
         /\ \A p \in alive : p \in roots => p \in TreeOf(roots)
         /\ \A p \in alive : parent[p] \in roots => p \in TreeOf(roots)
         /\ roots \cap Hosts = {} => TreeOf(roots) \cap Hosts = {}
<1>1. \A p \in alive : p \in roots => p \in Below(roots, alive)
  BY BelowStart
<1>2. \A p \in alive : parent[p] \in roots => p \in Below(roots, alive)
  BY BelowStart, BelowClosed
<1>3. roots \cap Hosts = {} => Below(roots, alive) \cap Hosts = {}
  BY NoHostBelow DEF TypeOK
<1> QED BY <1>1, <1>2, <1>3 DEF TreeOf

LEMMA RootFact ==
  ASSUME TypeOK, Family
  PROVE  /\ TreeRoot \in Started /\ TreeRoot \notin Hosts
         /\ ProcId \in Pids \ Hosts
         /\ Sample \in alive => Sample = TreeRoot \/ parent[Sample] = TreeRoot
BY DEF TreeRoot, ProcId, Family, TypeOK

(* The root always leads to the sample.                                    *)
LEMMA SampleInTree ==
  ASSUME TypeOK, Family, Sample \in alive, NEW X \in SUBSET Pids
  PROVE  Sample \in TreeOf({TreeRoot} \cup X)
BY RootFact, TreeOfFact DEF TypeOK, TreeRoot

-----------------------------------------------------------------------------
(* One lemma per action: the guest's first, then the loop's.               *)
USE DEF setup, guestVars, clockVars, stopVars, loopVars, TreeRoot, Ending

LEMMA Parameters ==
  {Timeout, MinWindow, IdleGrace, TreeEvery, ProbeEvery} \subseteq Nat
OBVIOUS

LEMMA InitIInv == Init => IInv
<1> SUFFICES ASSUME Init PROVE IInv
  OBVIOUS
<1>1. TypeOK
  <2>1. alive = Started /\ Started \subseteq Pids
    BY DEF Init
  <2>2. parent \in [Started -> Pids \cup {None}]
    BY <2>1 DEF Init
  <2>3. MinWindow \in Nat /\ 0 \in 0 .. Timeout
    BY Parameters
  <2> QED BY <2>1, <2>2, <2>3 DEF Init, TypeOK
<1>2. Family /\ Clock /\ SampleSeen /\ HostsSpared /\ EmptyTree
  BY DEF Init, Family, Clock, SampleSeen, HostsSpared, EmptyTree
<1> QED BY <1>1, <1>2 DEF IInv

LEMMA SpawnIInv ==
  ASSUME IInv, NEW p \in Pids, NEW q \in Children, Spawn(p, q)
  PROVE  IInv'
<1>1. TypeOK'
  BY DEF IInv, TypeOK, Spawn
<1>2. Family'
  BY DEF IInv, TypeOK, Family, Spawn
<1>3. Clock' /\ HostsSpared'
  BY DEF IInv, Clock, HostsSpared, Spawn
<1>4. SampleSeen'
  BY DEF IInv, Family, SampleSeen, Spawn
<1>5. EmptyTree'
  <2>1. q \notin {TreeRoot} \cup rooted
    BY DEF IInv, Family, Spawn
  <2>2. \A r \in alive : r # q /\ parent'[r] = parent[r]
    BY DEF IInv, TypeOK, Spawn
  <2>3. p \in alive /\ parent'[q] = p /\ alive' = alive \cup {q}
    BY DEF Spawn
  <2> QED BY <2>1, <2>2, <2>3 DEF IInv, EmptyTree, Spawn
<1> QED BY <1>1, <1>2, <1>3, <1>4, <1>5 DEF IInv

LEMMA ExitByItselfIInv ==
  ASSUME IInv, NEW p \in Pids, ExitByItself(p)
  PROVE  IInv'
<1>1. TypeOK' /\ Family'
  BY DEF IInv, TypeOK, Family, ExitByItself
<1>2. Clock' /\ SampleSeen' /\ HostsSpared' /\ EmptyTree'
  BY DEF IInv, Clock, SampleSeen, HostsSpared, EmptyTree, ExitByItself
<1> QED BY <1>1, <1>2 DEF IInv

(* What ends with a process: no system process but itself.                 *)
LEMMA GoneFact ==
  ASSUME IInv, NEW p \in Pids
  PROVE  p \in Gone(p) /\ Gone(p) \subseteq Pids /\ Gone(p) \cap Hosts \subseteq {p}
BY DescendantsFact DEF IInv, TypeOK, Gone

LEMMA LoaderExitsIInv ==
  ASSUME IInv, LoaderExits
  PROVE  IInv'
<1>1. Gone(Loader) \cap Hosts = {} /\ Gone(Loader) \subseteq Pids
  BY GoneFact
<1>2. killed' = killed /\ alive' \subseteq alive
  BY <1>1 DEF LoaderExits, Ends
<1>3. TypeOK' /\ Family'
  BY <1>2 DEF IInv, TypeOK, Family, LoaderExits
<1>4. Clock' /\ SampleSeen' /\ HostsSpared' /\ EmptyTree'
  BY <1>2 DEF IInv, Clock, SampleSeen, HostsSpared, EmptyTree, LoaderExits
<1> QED BY <1>3, <1>4 DEF IInv

LEMMA TracedIInv ==
  ASSUME IInv, NEW p \in Pids, Traced(p)
  PROVE  IInv'
<1>1. TypeOK'
  BY DEF IInv, TypeOK, Traced
<1>2. Family'
  BY DescendantsFact DEF IInv, Family, Traced
<1>3. Clock'
  BY DEF IInv, TypeOK, Clock, Traced
<1>4. SampleSeen' /\ HostsSpared' /\ EmptyTree'
  BY DEF IInv, SampleSeen, HostsSpared, EmptyTree, Traced
<1> QED BY <1>1, <1>2, <1>3, <1>4 DEF IInv

LEMMA WritePidsIInv ==
  ASSUME IInv, WritePids
  PROVE  IInv'
<1>1. TypeOK' /\ Family'
  BY DEF IInv, TypeOK, Family, WritePids
<1>2. Clock' /\ SampleSeen' /\ HostsSpared' /\ EmptyTree'
  BY DEF IInv, Clock, SampleSeen, HostsSpared, EmptyTree, WritePids
<1> QED BY <1>1, <1>2 DEF IInv

LEMMA ReadPidsIInv ==
  ASSUME IInv, ReadPids
  PROVE  IInv'
<1>1. adopted' \subseteq attached
  BY DEF IInv, TypeOK, ReadPids
<1>2. TypeOK' /\ Family'
  BY <1>1 DEF IInv, TypeOK, Family, ReadPids
<1>3. Clock' /\ SampleSeen' /\ HostsSpared' /\ EmptyTree'
  BY DEF IInv, Clock, SampleSeen, HostsSpared, EmptyTree, ReadPids
<1> QED BY <1>2, <1>3 DEF IInv

LEMMA QueryTreeIInv ==
  ASSUME IInv, QueryTree
  PROVE  IInv'
<1> DEFINE Roots == {TreeRoot} \cup adopted
<1>1. Roots \subseteq Pids /\ alive \subseteq Pids
  BY DEF IInv, TypeOK
<1>2. /\ TreeOf(Roots) \subseteq alive
      /\ \A p \in alive : p \in Roots \/ parent[p] \in Roots => p \in TreeOf(Roots)
  BY <1>1, TreeOfFact DEF IInv
<1>3. Sample \in alive => Sample \in TreeOf(Roots)
  BY <1>1, SampleInTree DEF IInv, TypeOK
<1>4. TypeOK'
  <2>1. tree' \subseteq Pids /\ rooted' \subseteq Pids
    BY <1>1, <1>2 DEF QueryTree
  <2>2. treeAt' \in Nat
    BY Parameters DEF IInv, TypeOK, QueryTree
  <2> QED BY <2>1, <2>2 DEF IInv, TypeOK, QueryTree
<1>5. Family' /\ Clock' /\ HostsSpared'
  BY DEF IInv, Family, Clock, HostsSpared, QueryTree
<1>6. SampleSeen'
  BY <1>3 DEF QueryTree, SampleSeen
<1>7. EmptyTree'
  BY <1>2 DEF IInv, EmptyTree, QueryTree
<1> QED BY <1>4, <1>5, <1>6, <1>7 DEF IInv

LEMMA QueryFailsIInv ==
  ASSUME IInv, QueryFails
  PROVE  IInv'
<1>1. TypeOK' /\ Family'
  BY DEF IInv, TypeOK, Family, QueryFails
<1>2. Clock' /\ SampleSeen' /\ HostsSpared' /\ EmptyTree'
  BY DEF IInv, Clock, SampleSeen, HostsSpared, EmptyTree, QueryFails
<1> QED BY <1>1, <1>2 DEF IInv

LEMMA StopOnExitIInv ==
  ASSUME IInv, StopOnExit
  PROVE  IInv'
<1>1. TypeOK' /\ Family'
  BY DEF IInv, TypeOK, Family, StopOnExit
<1>2. treeKnown => tree = {}
  BY DEF StopOnExit, ExitDue, SampleGone
<1>3. Clock' /\ SampleSeen' /\ HostsSpared' /\ EmptyTree'
  BY <1>2 DEF IInv, Clock, SampleSeen, HostsSpared, EmptyTree, StopOnExit
<1> QED BY <1>1, <1>3 DEF IInv

LEMMA StopBeforeExitIInv ==
  ASSUME IInv, StopBeforeExit
  PROVE  IInv'
<1>1. TypeOK' /\ Family'
  BY DEF IInv, TypeOK, Family, StopBeforeExit
<1>2. Clock' /\ SampleSeen' /\ HostsSpared' /\ EmptyTree'
  BY DEF IInv, Clock, SampleSeen, HostsSpared, EmptyTree, StopBeforeExit
<1> QED BY <1>1, <1>2 DEF IInv

LEMMA KeepWatchingIInv ==
  ASSUME IInv, KeepWatching
  PROVE  IInv'
<1>1. TypeOK'
  BY DEF IInv, TypeOK, KeepWatching
<1>2. Clock'
  BY DEF IInv, TypeOK, Clock, KeepWatching, TimeoutDue
<1>3. Family' /\ SampleSeen' /\ HostsSpared' /\ EmptyTree'
  BY DEF IInv, Family, SampleSeen, HostsSpared, EmptyTree, KeepWatching
<1> QED BY <1>1, <1>2, <1>3 DEF IInv

LEMMA SleepIInv ==
  ASSUME IInv, Sleep
  PROVE  IInv'
<1>1. TypeOK' /\ Clock'
  BY DEF IInv, TypeOK, Clock, Sleep
<1>2. Family' /\ SampleSeen' /\ HostsSpared' /\ EmptyTree'
  BY DEF IInv, Family, SampleSeen, HostsSpared, EmptyTree, Sleep
<1> QED BY <1>1, <1>2 DEF IInv

LEMMA FinalTreeIInv ==
  ASSUME IInv, FinalTree
  PROVE  IInv'
<1>1. TreeRoot \in Pids /\ TreeRoot \notin Hosts /\ alive \subseteq Pids
  BY DEF IInv, TypeOK
<1>2. TreeOf({TreeRoot}) \subseteq alive /\ TreeOf({TreeRoot}) \cap Hosts = {}
  BY <1>1, TreeOfFact DEF IInv
<1>3. Sample \in alive => Sample \in TreeOf({TreeRoot} \cup {})
  BY SampleInTree DEF IInv, TypeOK
<1>4. TypeOK'
  BY <1>1, <1>2 DEF IInv, TypeOK, FinalTree
<1>5. Family' /\ Clock' /\ EmptyTree'
  BY DEF IInv, Family, Clock, EmptyTree, FinalTree
<1>6. SampleSeen'
  BY <1>3 DEF IInv, SampleSeen, FinalTree
<1>7. HostsSpared'
  BY <1>2 DEF IInv, TypeOK, HostsSpared, FinalTree
<1> QED BY <1>4, <1>5, <1>6, <1>7 DEF IInv

LEMMA KillOneIInv ==
  ASSUME IInv, NEW p \in Pids, KillOne(p)
  PROVE  IInv'
<1>1. TypeOK' /\ Family'
  BY GoneFact DEF IInv, TypeOK, Family, KillOne, Ends
<1>2. Clock' /\ EmptyTree'
  BY DEF IInv, Clock, EmptyTree, KillOne, Ends
<1>3. SampleSeen'
  BY GoneFact DEF IInv, SampleSeen, KillOne, Ends
<1>4. HostsSpared'
  BY GoneFact DEF IInv, HostsSpared, KillOne, Ends
<1> QED BY <1>1, <1>2, <1>3, <1>4 DEF IInv

LEMMA KillProcIInv ==
  ASSUME IInv, KillProc
  PROVE  IInv'
<1>1. ProcId \in Pids /\ ProcId \notin Hosts
  BY DEF ProcId
<1>2. Gone(ProcId) \subseteq Pids /\ Gone(ProcId) \cap Hosts = {}
  BY <1>1, GoneFact
<1>3. TypeOK' /\ Family'
  BY <1>2 DEF IInv, TypeOK, Family, KillProc, Ends
<1>4. Clock' /\ SampleSeen' /\ EmptyTree'
  BY DEF IInv, Clock, SampleSeen, EmptyTree, KillProc, Ends
<1>5. HostsSpared'
  BY <1>2 DEF IInv, HostsSpared, KillProc, Ends
<1> QED BY <1>3, <1>4, <1>5 DEF IInv

LEMMA KillOneFailsIInv ==
  ASSUME IInv, NEW p \in Pids, KillOneFails(p)
  PROVE  IInv'
<1>1. TypeOK' /\ Family'
  BY DEF IInv, TypeOK, Family, KillOneFails
<1>2. Clock' /\ SampleSeen' /\ HostsSpared' /\ EmptyTree'
  BY DEF IInv, Clock, SampleSeen, HostsSpared, EmptyTree, KillOneFails
<1> QED BY <1>1, <1>2 DEF IInv

LEMMA WaitIInv ==
  ASSUME IInv, KillProcFails \/ WaitEnds
  PROVE  IInv'
<1>1. TypeOK' /\ Family'
  BY DEF IInv, TypeOK, Family, KillProcFails, WaitEnds
<1>2. Clock' /\ SampleSeen' /\ HostsSpared' /\ EmptyTree'
  BY DEF IInv, Clock, SampleSeen, HostsSpared, EmptyTree, KillProcFails, WaitEnds
<1> QED BY <1>1, <1>2 DEF IInv

LEMMA NextIInv == IInv /\ [Next]_vars => IInv'
<1> SUFFICES ASSUME IInv, [Next]_vars PROVE IInv'
  OBVIOUS
<1>1. CASE \E p \in Pids : ExitByItself(p) \/ Traced(p)
                           \/ (\E q \in Children : Spawn(p, q))
  BY <1>1, ExitByItselfIInv, TracedIInv, SpawnIInv
<1>2. CASE LoaderExits \/ WritePids
  BY <1>2, LoaderExitsIInv, WritePidsIInv
<1>3. CASE LoopStep
  BY <1>3, ReadPidsIInv, QueryTreeIInv, QueryFailsIInv, StopOnExitIInv,
     StopBeforeExitIInv, KeepWatchingIInv, SleepIInv, FinalTreeIInv, KillOneIInv,
     KillOneFailsIInv, KillProcIInv, WaitIInv DEF LoopStep
<1>4. CASE UNCHANGED vars
  <2>1. TypeOK' /\ Family'
    BY <1>4 DEF IInv, TypeOK, Family, vars
  <2>2. Clock' /\ SampleSeen' /\ HostsSpared' /\ EmptyTree'
    BY <1>4 DEF IInv, Clock, SampleSeen, HostsSpared, EmptyTree, vars
  <2> QED BY <2>1, <2>2 DEF IInv
<1> QED BY <1>1, <1>2, <1>3, <1>4 DEF Next

-----------------------------------------------------------------------------
LEMMA Invariance == Spec => []IInv
BY InitIInv, NextIInv, PTL DEF Spec

(* The variables stay in their ranges: the clock within the timeout, the   *)
(* pids file within what the collector has attached to.                    *)
THEOREM TypeCorrect == Spec => []TypeOK
<1>1. IInv => TypeOK
  BY DEF IInv
<1> QED BY Invariance, <1>1, PTL

(* The loop never reports "exit" on a tree query while the sample, a root  *)
(* of that query or a child of a root is running (hyperv-vm.ps1:739-756).  *)
THEOREM ExitStopSound == Spec => []ExitStopIsSound
<1>1. IInv => ExitStopIsSound
  BY DEF IInv, TypeOK, SampleSeen, EmptyTree, ExitStopIsSound
<1> QED BY Invariance, <1>1, PTL

(* An idle-stopped or timed-out sample is dead when the window closes, if  *)
(* the process table could be read once and Kill() did not fail on the     *)
(* sample (hyperv-vm.ps1:830-840): whatever else fails to be killed.       *)
THEOREM StoppedSampleDead == Spec => []StoppedSampleIsDead
<1>1. IInv => StoppedSampleIsDead
  BY DEF IInv, SampleSeen, StoppedSampleIsDead
<1> QED BY Invariance, <1>1, PTL

(* If the last query succeeds, no system process that was adopted into the *)
(* tree, nor any other, has been killed (hyperv-vm.ps1:824-831).           *)
THEOREM HostsAlive == Spec => []HostsSurvive
<1>1. IInv => HostsSurvive
  BY DEF IInv, HostsSpared, HostsSurvive
<1> QED BY Invariance, <1>1, PTL

(* An idle-stop comes after a grace period without growth, whenever the    *)
(* trace was looked at (hyperv-vm.ps1:762-774).                            *)
THEOREM IdleStopSilent == Spec => IdleStopIsSilent
<1>1. IInv /\ StopBeforeExit /\ stopped' = "idle" => now - grownAt >= IdleGrace
  <2> SUFFICES ASSUME IInv, StopBeforeExit, stopped' = "idle"
               PROVE  now - grownAt >= IdleGrace
    OBVIOUS
  <2>1. IdleDue
    BY DEF StopBeforeExit
  <2>2. grownAt <= activeAt /\ now - activeAt >= IdleGrace
    BY <2>1 DEF IdleDue, IInv, Clock
  <2> QED BY <2>2 DEF IInv, TypeOK
<1>2. IInv /\ [Next]_vars => [StopBeforeExit /\ stopped' = "idle" => now - grownAt >= IdleGrace]_vars
  BY <1>1
<1> QED BY Invariance, <1>2, PTL DEF Spec, IdleStopIsSilent
=============================================================================
