--------------------------- MODULE GuardianProofs ---------------------------
(***************************************************************************)
(* Proofs about the SandboxGuard driver and its agent.  First the lineage  *)
(* (GuardianLineage), for any set of pids and any size of the driver's     *)
(* tables: the targets are the tree, and a process is placed at most once. *)
(* Then the event ring (GuardianRing), for any ring size, page size and    *)
(* number of events: the drain delivers in order, at most once, and loses  *)
(* nothing but what was overwritten.                                       *)
(***************************************************************************)
EXTENDS GuardianLineage, GuardianRing, TLAPS, WellFoundedInduction

(* A pid has one slot, which is a living process's.                        *)
OneSlotEach ==
  /\ \A i, j \in Slots : table[i].pid # 0 /\ table[i].pid = table[j].pid => i = j
  /\ \A i \in Slots : table[i].pid # 0 => table[i].pid \in Alive

(* What the flags of a slot say of the process that has it: marked exactly *)
(* when an attempt was made, a target only if it was not denied.           *)
FlagsAreTrue ==
  \A i \in Slots, q \in Alive : table[i].pid = q =>
    /\ table[i].injected <=> Attempts(q) = 1
    /\ table[i].target => proc[q].image # "denied"

AttemptedOnce ==
  \A p \in Alive : Attempts(p) <= 1 /\ (Attempts(p) = 1 => proc[p].image # "denied")

TreeIsSlots ==
  /\ tree \subseteq Alive
  /\ \A p \in Pids : p \in tree <=> \E i \in Slots : table[i].pid = p /\ table[i].target

IInv == TypeOK /\ OneSlotEach /\ FlagsAreTrue /\ AttemptedOnce /\ TreeIsSlots

-----------------------------------------------------------------------------
(* Every non-empty set of natural numbers has a least element, so that the *)
(* search for the first slot finds one.                                    *)
LEMMA Least ==
  ASSUME NEW S \in SUBSET Nat, S # {}
  PROVE  \E i \in S : \A j \in S : i <= j
<1> DEFINE R == OpToRel(<, Nat)
<1>1. IsWellFoundedOn(R, Nat)
  BY NatLessThanWellFounded
<1>2. \A x, y \in Nat : x < y => <<x, y>> \in R
  BY DEF OpToRel
<1>3. \E x \in S : \A y \in S : ~ (<<y, x>> \in R)
  <2> HIDE DEF R
  <2> QED BY <1>1, WFMin
<1>4. PICK x \in S : \A y \in S : ~ (<<y, x>> \in R)
  BY <1>3
<1>5. ASSUME NEW y \in S PROVE x <= y
  <2> HIDE DEF R
  <2>1. ~ (y < x)
    BY <1>2, <1>4
  <2> QED BY <2>1
<1> QED BY <1>5

LEMMA FirstIn ==
  ASSUME NEW S \in SUBSET Nat, S # {}
  PROVE  First(S) \in S
BY Least DEF First

(* Find returns a slot that has the pid, if any has.                       *)
LEMMA FindSound ==
  ASSUME NEW pid
  PROVE  /\ \A i \in Find(pid) : i \in Slots /\ table[i].pid = pid
         /\ \A i, j \in Find(pid) : i = j
         /\ Find(pid) = {} => \A i \in Slots : table[i].pid # pid
<1> DEFINE at == {i \in Slots : table[i].pid = pid}
<1>1. at \in SUBSET Nat
  BY LineageAssumption DEF Slots
<1>2. at # {} => First(at) \in at
  <2> HIDE DEF at
  <2> QED BY <1>1, FirstIn
<1>3. Find(pid) = IF at = {} THEN {} ELSE {First(at)}
  BY DEF Find
<1> QED BY <1>2, <1>3

(* While a pid has one slot each, Find returns all of them.                *)
LEMMA FindAll ==
  ASSUME OneSlotEach, NEW pid \in Pids
  PROVE  Find(pid) = {i \in Slots : table[i].pid = pid}
<1>1. pid # 0
  BY LineageAssumption
<1>2. ASSUME NEW i \in Slots, table[i].pid = pid PROVE i \in Find(pid)
  <2>1. PICK j \in Find(pid) : j \in Slots /\ table[j].pid = pid
    BY <1>2, FindSound
  <2>2. i = j
    BY <1>1, <1>2, <2>1 DEF OneSlotEach
  <2> QED BY <2>1, <2>2
<1> QED BY <1>2, FindSound

LEMMA IsTargetMeans ==
  ASSUME OneSlotEach, NEW p \in Pids
  PROVE  IsTarget(p) <=> \E i \in Slots : table[i].pid = p /\ table[i].target
BY FindAll DEF IsTarget

LEMMA NoProcIsNone == NoProc \notin Process
BY DEF NoProc, Process, Images

-----------------------------------------------------------------------------
(* Types.                                                                  *)

LEMMA InitType == Init => TypeOK
<1> SUFFICES ASSUME Init PROVE TypeOK
  OBVIOUS
<1>1. proc \in [Pids -> Process \cup {NoProc}]
  BY DEF Init
<1>2. table \in [Slots -> [pid : Pids \cup {0}, target : BOOLEAN, injected : BOOLEAN]]
  BY DEF Init, FreeEntry
<1>3. guarded \in [1 .. ProtectCap -> Pids \cup {0, AgentPid}]
  BY DEF Init
<1>4. born \in 0 .. MaxBorn /\ starts \in 0 .. MaxAgents
  BY LineageAssumption DEF Init
<1> QED BY <1>1, <1>2, <1>3, <1>4 DEF Init, TypeOK

LEMMA GuardType ==
  ASSUME TypeOK, NEW pid \in Pids \cup {AgentPid}
  PROVE  WithGuard(pid) \in [1 .. ProtectCap -> Pids \cup {0, AgentPid}]
<1>1. Room \in SUBSET Nat /\ Room \subseteq 1 .. ProtectCap
  BY LineageAssumption DEF TypeOK, Room
<1>2. Room # {} => First(Room) \in 1 .. ProtectCap
  BY <1>1, FirstIn
<1> QED BY <1>2 DEF TypeOK, WithGuard

LEMMA ClearType ==
  ASSUME TypeOK, ClearAll
  PROVE  /\ table' \in [Slots -> [pid : Pids \cup {0}, target : BOOLEAN, injected : BOOLEAN]]
         /\ guarded' \in [1 .. ProtectCap -> Pids \cup {0, AgentPid}]
         /\ targeting' \in BOOLEAN
         /\ configured' \in BOOLEAN
         /\ tree' \subseteq Pids
BY DEF TypeOK, ClearAll, FreeEntry

LEMMA CreateType ==
  ASSUME TypeOK, NEW p \in Pids, NEW img \in Images, NEW parent, Create(p, parent, img)
  PROVE  TypeOK'
<1>1. NewProc(img) \in Process
  BY DEF NewProc, Process
<1>2. proc' \in [Pids -> Process \cup {NoProc}]
  BY <1>1 DEF TypeOK, Create
<1>3. table' \in [Slots -> [pid : Pids \cup {0}, target : BOOLEAN, injected : BOOLEAN]]
  <2> DEFINE e(i) == IF table[i].pid = p THEN table[i] ELSE [FreeEntry EXCEPT !.pid = p]
  <2>1. ASSUME NEW i \in Slots
        PROVE  e(i) \in [pid : Pids \cup {0}, target : BOOLEAN, injected : BOOLEAN]
    BY DEF TypeOK, FreeEntry
  <2>2. ASSUME NEW i \in Slots
        PROVE  [e(i) EXCEPT !.target = TRUE]
                 \in [pid : Pids \cup {0}, target : BOOLEAN, injected : BOOLEAN]
    <3> HIDE DEF e
    <3> QED BY <2>1
  <2> QED BY <2>1, <2>2 DEF TypeOK, Create
<1>4. tree' \subseteq Pids
  BY DEF TypeOK, Create
<1>5. born' \in 0 .. MaxBorn
  BY LineageAssumption DEF TypeOK, Create
<1> QED BY <1>2, <1>3, <1>4, <1>5 DEF TypeOK, Create, agentVars

LEMMA ProcessType ==
  ASSUME TypeOK, NEW p \in Pids, Exit(p) \/ Start(p) \/ Check(p) \/ Place(p)
  PROVE  TypeOK'
<1>1. CASE Exit(p)
  BY <1>1 DEF TypeOK, Exit, agentVars
<1>2. CASE Start(p)
  <2>1. proc[p] \in Process
    BY <1>2 DEF TypeOK, Start, Alive
  <2>2. /\ [proc[p] EXCEPT !.queued = @ + 1] \in Process
        /\ [proc[p] EXCEPT !.lost = @ + 1] \in Process
    BY <2>1 DEF Process
  <2>3. \/ proc' = [proc EXCEPT ![p] = [proc[p] EXCEPT !.queued = @ + 1]]
        \/ proc' = [proc EXCEPT ![p] = [proc[p] EXCEPT !.lost = @ + 1]]
    BY <1>2 DEF Start
  <2>4. proc' \in [Pids -> Process \cup {NoProc}]
    BY <2>2, <2>3 DEF TypeOK
  <2>5. ASSUME NEW i \in Slots
        PROVE  [table[i] EXCEPT !.injected = TRUE]
                 \in [pid : Pids \cup {0}, target : BOOLEAN, injected : BOOLEAN]
    BY DEF TypeOK
  <2>6. table' \in [Slots -> [pid : Pids \cup {0}, target : BOOLEAN, injected : BOOLEAN]]
    BY <1>2, <2>5 DEF TypeOK, Start
  <2> QED BY <1>2, <2>4, <2>6 DEF TypeOK, Start, agentVars
<1>3. CASE Check(p)
  <2>1. proc[p] \in Process
    BY <1>3 DEF TypeOK, Check, Alive
  <2>2. proc' \in [Pids -> Process \cup {NoProc}]
    BY SMTT(30), <1>3, <2>1 DEF TypeOK, Check, Process
  <2> QED BY <1>3, <2>2 DEF TypeOK, Check, driver, agentVars
<1>4. CASE Place(p)
  <2>1. proc[p] \in Process /\ proc[p].ready > 0
    BY <1>4 DEF TypeOK, Place, Alive
  <2>2. ASSUME proc' = [proc EXCEPT ![p].ready = @ - 1, ![p].placed = @ + 1]
        PROVE  proc' \in [Pids -> Process \cup {NoProc}]
    BY <2>1, <2>2 DEF TypeOK, Process
  <2>3. ASSUME proc' = [proc EXCEPT ![p].ready = @ - 1, ![p].failed = @ + 1]
        PROVE  proc' \in [Pids -> Process \cup {NoProc}]
    BY <2>1, <2>3 DEF TypeOK, Process
  <2>4. proc' \in [Pids -> Process \cup {NoProc}]
    BY <1>4, <2>2, <2>3 DEF Place
  <2> QED BY <1>4, <2>4 DEF TypeOK, Place, driver, agentVars
<1> QED BY <1>1, <1>2, <1>3, <1>4

AgentMoves ==
  \/ StartAgent \/ RegisterSelf \/ RegisterInjection \/ RegisterTargeting
  \/ Resolve \/ StopAgent \/ KillAgent
  \/ \E p \in Pids : Protect(p) \/ ProtectNew(p)

LEMMA AgentType ==
  ASSUME TypeOK, AgentMoves
  PROVE  TypeOK'
<1>1. CASE StartAgent
  BY <1>1, ClearType, LineageAssumption DEF TypeOK, StartAgent
<1>2. CASE RegisterSelf
  BY <1>2, GuardType DEF TypeOK, RegisterSelf, Sysmons, Alive
<1>3. CASE RegisterInjection
  BY <1>3 DEF TypeOK, RegisterInjection
<1>4. CASE RegisterTargeting
  BY <1>4 DEF TypeOK, RegisterTargeting
<1>5. CASE Resolve
  BY <1>5 DEF TypeOK, Resolve, Sysmons, Alive, driver
<1>6. CASE StopAgent
  BY <1>6, ClearType DEF TypeOK, StopAgent
<1>7. CASE KillAgent
  BY <1>7 DEF TypeOK, KillAgent, driver
<1>8. ASSUME NEW p \in Pids, Protect(p) PROVE TypeOK'
  BY <1>8, GuardType DEF TypeOK, Protect
<1>9. ASSUME NEW p \in Pids, ProtectNew(p) PROVE TypeOK'
  BY <1>9, GuardType DEF TypeOK, ProtectNew
<1> QED BY <1>1, <1>2, <1>3, <1>4, <1>5, <1>6, <1>7, <1>8, <1>9 DEF AgentMoves

LEMMA NextType == TypeOK /\ [Next]_vars => TypeOK'
<1> SUFFICES ASSUME TypeOK, [Next]_vars PROVE TypeOK'
  OBVIOUS
<1>1. CASE UNCHANGED vars
  BY <1>1 DEF TypeOK, vars, driver, agentVars
<1>2. CASE Next
  BY <1>2, CreateType, ProcessType, AgentType DEF Next, AgentMoves
<1> QED BY <1>1, <1>2

(* Every reachable state is well typed: no slot index leaves its table.    *)
THEOREM TypeCorrect == Spec => []TypeOK
BY InitType, NextType, PTL DEF Spec

-----------------------------------------------------------------------------
(* The inductive invariant.                                                *)

LEMMA AttemptsNat ==
  ASSUME TypeOK, NEW p \in Alive
  PROVE  Attempts(p) \in Nat
<1>1. proc[p] \in Process
  BY DEF TypeOK, Alive
<1> QED BY <1>1 DEF Attempts, Process

LEMMA InitInv == Init => IInv
<1> SUFFICES ASSUME Init PROVE IInv
  OBVIOUS
<1>1. TypeOK
  BY InitType
<1>2. Alive = {} /\ tree = {} /\ \A i \in Slots : table[i].pid = 0
  BY DEF Init, Alive, FreeEntry
<1>3. \A p \in Pids : p # 0
  BY LineageAssumption
<1> QED BY <1>1, <1>2, <1>3
         DEF IInv, OneSlotEach, FlagsAreTrue, AttemptedOnce, TreeIsSlots

(* A new process: it has no slot yet, so it gets a free one, if there is   *)
(* one, with clean flags; no other slot changes.                           *)
LEMMA CreateInv ==
  ASSUME IInv, NEW p \in Pids, NEW img \in Images,
         NEW parent \in (Alive \ {p}) \cup {System}, Create(p, parent, img)
  PROVE  OneSlotEach' /\ FlagsAreTrue' /\ AttemptedOnce' /\ TreeIsSlots'
<1> USE DEF IInv
<1>1. p # 0 /\ p \notin Alive /\ p \notin tree
  BY LineageAssumption DEF Create, TreeIsSlots
<1>2. \A i \in Slots : table[i].pid # p
  BY <1>1 DEF OneSlotEach
<1>3. FindOrAdd(p) = Find(0)
  BY <1>2, FindAll DEF FindOrAdd
<1>4. Alive' = Alive \cup {p} /\ proc'[p] = NewProc(img)
      /\ \A q \in Alive : proc'[q] = proc[q] /\ q # p
  <2>1. NewProc(img) # NoProc
    BY DEF NewProc, NoProc
  <2> QED BY <1>1, <2>1 DEF Create, TypeOK, Alive
<1>5. Attempts(p)' = 0 /\ \A q \in Alive : Attempts(q)' = Attempts(q)
  BY <1>4 DEF Attempts, NewProc
<1>6. IsTarget(parent) <=> parent \in tree
  <2>1. CASE parent \in Pids
    BY <2>1, IsTargetMeans DEF TreeIsSlots
  <2>2. CASE parent = System
    <3>1. \A i \in Slots : table[i].pid # System
      BY LineageAssumption DEF TypeOK, System
    <3>2. System \notin Pids
      BY LineageAssumption DEF System
    <3> QED BY <2>2, <3>1, <3>2, FindSound DEF IsTarget, TreeIsSlots, Alive
  <2> QED BY <2>1, <2>2 DEF Alive
<1> DEFINE hit == targeting /\ img # "denied" /\ (img = "sample" \/ parent \in tree)
<1>7. CASE Find(0) = {}
  <2>1. table' = table /\ tree' = tree
    BY <1>3, <1>7 DEF Create, TypeOK
  <2>2. OneSlotEach'
    BY <2>1, <1>4 DEF OneSlotEach
  <2>3. FlagsAreTrue'
    <3>1. ASSUME NEW i \in Slots, NEW q \in Alive', table'[i].pid = q
          PROVE  /\ table'[i].injected <=> Attempts(q)' = 1
                 /\ table'[i].target => proc'[q].image # "denied"
      <4>1. q \in Alive /\ table[i].pid = q /\ table'[i] = table[i]
        BY <3>1, <2>1, <1>2, <1>4
      <4> QED BY <4>1, <1>4, <1>5 DEF FlagsAreTrue
    <3> QED BY <3>1 DEF FlagsAreTrue
  <2>4. AttemptedOnce'
    BY <1>4, <1>5 DEF AttemptedOnce
  <2>5. TreeIsSlots'
    BY <2>1, <1>4 DEF TreeIsSlots
  <2> QED BY <2>2, <2>3, <2>4, <2>5
<1>8. CASE Find(0) # {}
  <2>1. PICK k \in Slots : Find(0) = {k} /\ table[k].pid = 0
    BY <1>8, FindSound
  <2>2. \A i \in Slots : i # k => table'[i] = table[i]
    BY <2>1, <1>3 DEF Create
  <2>3. table'[k] = IF img # "denied" /\ ShouldTarget(parent, img)
                    THEN [[FreeEntry EXCEPT !.pid = p] EXCEPT !.target = TRUE]
                    ELSE [FreeEntry EXCEPT !.pid = p]
    BY <2>1, <1>3, <1>1 DEF Create
  <2>4. (img # "denied" /\ ShouldTarget(parent, img)) <=> hit
    BY <1>6 DEF ShouldTarget
  <2>5. table'[k].pid = p /\ table'[k].injected = FALSE /\ (table'[k].target <=> hit)
    <3> HIDE DEF hit
    <3> QED BY <2>3, <2>4 DEF FreeEntry
  <2>6. tree' = IF hit THEN tree \cup {p} ELSE tree
    BY <1>3, <1>8 DEF Create
  <2>7. OneSlotEach'
    BY <2>1, <2>2, <2>5, <1>2, <1>4 DEF OneSlotEach
  <2>8. FlagsAreTrue'
    <3>1. hit => proc'[p].image # "denied"
      BY <1>4 DEF NewProc
    <3> HIDE DEF hit
    <3>2. ASSUME NEW i \in Slots, NEW q \in Alive', table'[i].pid = q
          PROVE  /\ table'[i].injected <=> Attempts(q)' = 1
                 /\ table'[i].target => proc'[q].image # "denied"
      <4>1. CASE i = k
        BY <4>1, <3>1, <3>2, <2>5, <1>5
      <4>2. CASE i # k
        <5>1. q \in Alive /\ table[i].pid = q /\ table'[i] = table[i]
          BY <4>2, <3>2, <2>2, <1>2, <1>4
        <5> QED BY <5>1, <1>4, <1>5 DEF FlagsAreTrue
      <4> QED BY <4>1, <4>2
    <3> QED BY <3>2 DEF FlagsAreTrue
  <2>9. AttemptedOnce'
    BY <1>4, <1>5 DEF AttemptedOnce
  <2>10. TreeIsSlots'
    <3> HIDE DEF hit
    <3>1. tree' \subseteq Alive'
      BY <2>6, <1>4 DEF TreeIsSlots
    <3>2. ASSUME NEW q \in Pids, q # p
          PROVE  q \in tree' <=> \E i \in Slots : table'[i].pid = q /\ table'[i].target
      <4>1. q # 0
        BY LineageAssumption
      <4> QED BY <3>2, <4>1, <2>1, <2>2, <2>5, <2>6 DEF TreeIsSlots
    <3>3. p \in tree' <=> \E i \in Slots : table'[i].pid = p /\ table'[i].target
      BY <1>1, <1>2, <2>2, <2>5, <2>6
    <3> QED BY <3>1, <3>2, <3>3 DEF TreeIsSlots
  <2> QED BY <2>7, <2>8, <2>9, <2>10
<1> QED BY <1>7, <1>8

(* An exit frees the slot, so that the pid can be used again.              *)
LEMMA ExitInv ==
  ASSUME IInv, NEW p \in Pids, Exit(p)
  PROVE  OneSlotEach' /\ FlagsAreTrue' /\ AttemptedOnce' /\ TreeIsSlots'
<1> USE DEF IInv
<1>1. Alive' = Alive \ {p} /\ \A q \in Alive' : proc'[q] = proc[q]
  BY DEF Exit, TypeOK, Alive
<1>2. \A q \in Alive' : Attempts(q)' = Attempts(q)
  BY <1>1 DEF Attempts
<1>3. \A i \in Slots : table'[i] = IF table[i].pid = p THEN [table[i] EXCEPT !.pid = 0]
                                                       ELSE table[i]
  BY FindAll DEF Exit
<1>4. \A i \in Slots : /\ table[i].pid = p => table'[i].pid = 0
                       /\ table[i].pid # p => table'[i] = table[i]
  BY <1>3 DEF TypeOK
<1>5. \A q \in Pids : q # 0
  BY LineageAssumption
<1>6. OneSlotEach'
  BY <1>1, <1>4, <1>5 DEF OneSlotEach
<1>7. FlagsAreTrue'
  <2>1. ASSUME NEW i \in Slots, NEW q \in Alive', table'[i].pid = q
        PROVE  /\ table'[i].injected <=> Attempts(q)' = 1
               /\ table'[i].target => proc'[q].image # "denied"
    <3>1. q \in Alive /\ q # 0
      BY <1>1, <1>5 DEF Alive
    <3>2. table'[i] = table[i]
      BY <2>1, <3>1, <1>4
    <3> QED BY <2>1, <3>1, <3>2, <1>1, <1>2 DEF FlagsAreTrue
  <2> QED BY <2>1 DEF FlagsAreTrue
<1>8. AttemptedOnce'
  BY <1>1, <1>2 DEF AttemptedOnce
<1>9. TreeIsSlots'
  <2>1. tree' = tree \ {p}
    BY DEF Exit
  <2> QED BY <2>1, <1>1, <1>4, <1>5 DEF TreeIsSlots
<1> QED BY <1>6, <1>7, <1>8, <1>9

(* The first thread of a target: its slot is not marked, so nothing was    *)
(* tried yet, and this is the first attempt.                               *)
LEMMA StartInv ==
  ASSUME IInv, NEW p \in Pids, Start(p)
  PROVE  OneSlotEach' /\ FlagsAreTrue' /\ AttemptedOnce' /\ TreeIsSlots'
<1> USE DEF IInv
<1>1. PICK k \in Slots : table[k].pid = p /\ table[k].target /\ ~table[k].injected
  BY FindAll DEF Start, Unplaced
<1>2. p \in Alive /\ p # 0
  BY LineageAssumption DEF Start
<1>3. \A i \in Slots : table[i].pid = p => i = k
  BY <1>1, <1>2 DEF OneSlotEach
<1>4. Unplaced(p) = {k}
  BY <1>1, <1>3, FindAll DEF Unplaced
<1>5. /\ \A i \in Slots : i # k => table'[i] = table[i]
      /\ table'[k] = [table[k] EXCEPT !.injected = TRUE]
  BY <1>4 DEF Start
<1>6. table'[k].pid = p /\ table'[k].target /\ table'[k].injected
  BY <1>1, <1>5 DEF TypeOK
<1>16. \A i \in Slots : table'[i].pid = table[i].pid /\ (table'[i].target <=> table[i].target)
  BY <1>1, <1>5, <1>6
<1>7. proc[p] \in Process /\ Attempts(p) = 0 /\ proc[p].image # "denied"
  <2>1. proc[p] \in Process
    BY <1>2 DEF TypeOK, Alive
  <2>2. Attempts(p) # 1 /\ proc[p].image # "denied"
    BY <1>1, <1>2 DEF FlagsAreTrue
  <2>3. Attempts(p) <= 1 /\ Attempts(p) \in Nat
    BY <1>2, AttemptsNat DEF AttemptedOnce
  <2> QED BY <2>1, <2>2, <2>3
<1>8. /\ Attempts(p)' = 1
      /\ proc'[p].image = proc[p].image
      /\ proc'[p] \in Process
  <2>1. ASSUME proc' = [proc EXCEPT ![p].queued = @ + 1]
        PROVE  Attempts(p)' = 1 /\ proc'[p].image = proc[p].image /\ proc'[p] \in Process
    BY SMTT(30), <2>1, <1>7 DEF Attempts, Process, TypeOK
  <2>2. ASSUME proc' = [proc EXCEPT ![p].lost = @ + 1]
        PROVE  Attempts(p)' = 1 /\ proc'[p].image = proc[p].image /\ proc'[p] \in Process
    BY SMTT(30), <2>2, <1>7 DEF Attempts, Process, TypeOK
  <2> QED BY <2>1, <2>2 DEF Start
<1>9. \A q \in Pids : q # p => proc'[q] = proc[q]
  BY DEF Start, TypeOK
<1>10. Alive' = Alive
  BY <1>2, <1>8, <1>9, NoProcIsNone DEF Alive
<1>11. \A q \in Alive : q # p => Attempts(q)' = Attempts(q)
  BY <1>9 DEF Attempts, Alive
<1>12. OneSlotEach'
  BY <1>16, <1>10 DEF OneSlotEach
<1>13. FlagsAreTrue'
  <2>1. ASSUME NEW i \in Slots, NEW q \in Alive, table'[i].pid = q
        PROVE  /\ table'[i].injected <=> Attempts(q)' = 1
               /\ table'[i].target => proc'[q].image # "denied"
    <3>1. CASE i = k
      BY <3>1, <2>1, <1>6, <1>7, <1>8
    <3>2. CASE i # k
      <4>1. table[i].pid = q /\ q # p /\ table'[i] = table[i]
        BY <3>2, <2>1, <1>3, <1>5
      <4> QED BY <4>1, <1>9, <1>11 DEF FlagsAreTrue, Alive
    <3> QED BY <3>1, <3>2
  <2> QED BY <2>1, <1>10 DEF FlagsAreTrue
<1>14. AttemptedOnce'
  BY <1>7, <1>8, <1>9, <1>10, <1>11 DEF AttemptedOnce, Alive
<1>15. TreeIsSlots'
  <2>1. tree' = tree
    BY DEF Start
  <2> QED BY <2>1, <1>10, <1>16 DEF TreeIsSlots
<1> QED BY <1>12, <1>13, <1>14, <1>15

(* The kernel routine moves an attempt on.                                 *)
LEMMA KernelInv ==
  ASSUME IInv, NEW p \in Pids, Check(p) \/ Place(p)
  PROVE  OneSlotEach' /\ FlagsAreTrue' /\ AttemptedOnce' /\ TreeIsSlots'
<1> USE DEF IInv
<1>1. table' = table /\ tree' = tree /\ p \in Alive
  BY DEF Check, Place, driver
<1>2. proc[p] \in Process
  BY <1>1 DEF TypeOK, Alive
<1>3. /\ Attempts(p)' = Attempts(p)
      /\ proc'[p].image = proc[p].image
      /\ proc'[p] \in Process
  <2>1. ASSUME proc[p].queued > 0, proc' = [proc EXCEPT ![p].queued = @ - 1, ![p].ready = @ + 1]
        PROVE  Attempts(p)' = Attempts(p) /\ proc'[p].image = proc[p].image /\ proc'[p] \in Process
    BY <2>1, <1>2 DEF Attempts, Process, TypeOK
  <2>4. ASSUME proc[p].queued > 0, proc' = [proc EXCEPT ![p].queued = @ - 1, ![p].failed = @ + 1]
        PROVE  Attempts(p)' = Attempts(p) /\ proc'[p].image = proc[p].image /\ proc'[p] \in Process
    BY <2>4, <1>2 DEF Attempts, Process, TypeOK
  <2>2. ASSUME proc[p].ready > 0, proc' = [proc EXCEPT ![p].ready = @ - 1, ![p].placed = @ + 1]
        PROVE  Attempts(p)' = Attempts(p) /\ proc'[p].image = proc[p].image /\ proc'[p] \in Process
    BY <2>2, <1>2 DEF Attempts, Process, TypeOK
  <2>3. ASSUME proc[p].ready > 0, proc' = [proc EXCEPT ![p].ready = @ - 1, ![p].failed = @ + 1]
        PROVE  Attempts(p)' = Attempts(p) /\ proc'[p].image = proc[p].image /\ proc'[p] \in Process
    BY <2>3, <1>2 DEF Attempts, Process, TypeOK
  <2> QED BY <2>1, <2>2, <2>3, <2>4 DEF Check, Place
<1>4. \A q \in Pids : q # p => proc'[q] = proc[q]
  BY DEF Check, Place, TypeOK
<1>5. Alive' = Alive
  BY <1>1, <1>3, <1>4, NoProcIsNone DEF Alive
<1>6. \A q \in Alive : Attempts(q)' = Attempts(q) /\ proc'[q].image = proc[q].image
  BY <1>3, <1>4 DEF Attempts, Alive
<1>7. OneSlotEach'
  BY <1>1, <1>5 DEF OneSlotEach
<1>8. FlagsAreTrue'
  BY <1>1, <1>5, <1>6 DEF FlagsAreTrue
<1>9. AttemptedOnce'
  BY <1>5, <1>6 DEF AttemptedOnce
<1>10. TreeIsSlots'
  BY <1>1, <1>5 DEF TreeIsSlots
<1> QED BY <1>7, <1>8, <1>9, <1>10

(* The agent either clears everything or leaves table and tree alone.      *)
LEMMA AgentInv ==
  ASSUME IInv, AgentMoves
  PROVE  OneSlotEach' /\ FlagsAreTrue' /\ AttemptedOnce' /\ TreeIsSlots'
<1> USE DEF IInv
<1>1. proc' = proc /\ (ClearAll \/ (table' = table /\ tree' = tree))
  BY DEF AgentMoves, StartAgent, RegisterSelf, RegisterInjection, RegisterTargeting,
         Resolve, StopAgent, KillAgent, Protect, ProtectNew, driver
<1>2. Alive' = Alive /\ \A q \in Alive : Attempts(q)' = Attempts(q)
  BY <1>1 DEF Alive, Attempts
<1>3. AttemptedOnce'
  BY <1>1, <1>2 DEF AttemptedOnce
<1>4. CASE ClearAll
  <2>1. tree' = {} /\ \A i \in Slots : table'[i].pid = 0
    BY <1>4 DEF ClearAll, FreeEntry
  <2>2. \A q \in Pids : q # 0
    BY LineageAssumption
  <2>3. OneSlotEach' /\ TreeIsSlots'
    BY <2>1, <2>2 DEF OneSlotEach, TreeIsSlots
  <2>4. FlagsAreTrue'
    BY <2>1, <2>2, <1>2 DEF FlagsAreTrue, Alive
  <2> QED BY <1>3, <2>3, <2>4
<1>5. CASE table' = table /\ tree' = tree
  <2>1. OneSlotEach' /\ TreeIsSlots'
    BY <1>2, <1>5 DEF OneSlotEach, TreeIsSlots
  <2>2. FlagsAreTrue'
    BY <1>1, <1>2, <1>5 DEF FlagsAreTrue
  <2> QED BY <1>3, <2>1, <2>2
<1> QED BY <1>1, <1>4, <1>5

LEMMA NextInv == IInv /\ [Next]_vars => IInv'
<1> SUFFICES ASSUME IInv, [Next]_vars PROVE IInv'
  OBVIOUS
<1>1. TypeOK'
  BY NextType DEF IInv
<1>2. OneSlotEach' /\ FlagsAreTrue' /\ AttemptedOnce' /\ TreeIsSlots'
  <2>1. CASE UNCHANGED vars
    BY <2>1 DEF IInv, OneSlotEach, FlagsAreTrue, AttemptedOnce, TreeIsSlots,
                Alive, Attempts, vars, driver
  <2>2. CASE Next
    BY <2>2, CreateInv, ExitInv, StartInv, KernelInv, AgentInv DEF Next, AgentMoves
  <2> QED BY <2>1, <2>2
<1> QED BY <1>1, <1>2 DEF IInv

LEMMA InvTargets == IInv => TargetsAreTheTree
<1> SUFFICES ASSUME IInv PROVE TargetsAreTheTree
  OBVIOUS
<1>1. \A p \in Pids : p \in tree <=> IsTarget(p)
  BY IsTargetMeans DEF IInv, TreeIsSlots
<1> QED BY <1>1 DEF IInv, TargetsAreTheTree, OneSlotEach, TreeIsSlots

LEMMA InvPlaced == IInv => PlacedOnce
<1> SUFFICES ASSUME IInv PROVE PlacedOnce
  OBVIOUS
<1>1. ASSUME NEW p \in Alive, NEW i \in Find(p), table[i].injected
      PROVE  Attempts(p) = 1
  BY <1>1, FindSound DEF IInv, FlagsAreTrue
<1> QED BY <1>1 DEF IInv, PlacedOnce, AttemptedOnce

LEMMA Invariance == Spec => []IInv
BY InitInv, NextInv, PTL DEF Spec

(* The processes with the target flag are exactly the unbroken descendants *)
(* of an image rule, and no slot is held by a process that is gone.        *)
THEOREM TargetsByDescent == Spec => []TargetsAreTheTree
BY Invariance, InvTargets, PTL

(* The monitor is placed at most once in a process, never in a denied one, *)
(* and every marked process is accounted for.                              *)
THEOREM OnePlacement == Spec => []PlacedOnce
BY Invariance, InvPlaced, PTL

-----------------------------------------------------------------------------
(* The event ring.                                                         *)

(* The newest Cap events are in their slots. *)
RingHoldsTail == \A s \in 1 .. head : s > head - Cap => ring[Slot(s)] = s

(* s has, in order, exactly the events lo + 1 .. hi, apart from some that a *)
(* ring whose head is at h no longer holds.                                *)
CoversAt(s, lo, hi, h) ==
  /\ Ascending(s)
  /\ \A i \in DOMAIN s : s[i] \in lo + 1 .. hi
  /\ \A e \in lo + 1 .. hi : e > h - Cap => \E i \in DOMAIN s : s[i] = e

Covers(s, lo, hi) == CoversAt(s, lo, hi, head)

RingIInv ==
  /\ RingTypeOK
  /\ lastSeen <= cursor /\ cursor <= head
  /\ RingHoldsTail
  /\ Covers(out, 0, lastSeen)
  /\ pc \in {"drain", "write"} => Covers(batch, lastSeen, cursor)

(* Two numbers less than Cap apart have different residues. *)
LEMMA Residues ==
  ASSUME NEW C \in Nat \ {0}, NEW a \in Nat, NEW b \in Nat, a < b, b < a + C
  PROVE  a % C # b % C
<1>1. a = C * (a \div C) + (a % C) /\ b = C * (b \div C) + (b % C)
  OBVIOUS
<1>2. a \div C \in Int /\ b \div C \in Int /\ a % C \in Int /\ b % C \in Int
  OBVIOUS
<1>3. SUFFICES ASSUME a % C = b % C PROVE FALSE
  OBVIOUS
<1> DEFINE k == b \div C - a \div C
<1>4. k \in Int /\ b - a = C * k
  BY <1>1, <1>2, <1>3
<1>5. k <= 0 \/ k >= 1
  BY <1>4
<1>6. CASE k <= 0
  BY <1>4, <1>6
<1>7. CASE k >= 1
  BY <1>4, <1>7
<1> QED
  BY <1>5, <1>6, <1>7

(* Every slot index is in the ring. *)
LEMMA SlotRange ==
  ASSUME NEW s \in Nat \ {0}
  PROVE  Slot(s) \in 0 .. Cap - 1
BY RingAssumption DEF Slot

(* Appending to a sequence that covers lo + 1 .. mid one that covers       *)
(* mid + 1 .. hi gives one that covers lo + 1 .. hi.                       *)
LEMMA CoversConcat ==
  ASSUME head \in Nat, Cap \in Nat,
         NEW lo \in Nat, NEW mid \in Nat, NEW hi \in Nat, lo <= mid, mid <= hi,
         NEW s \in Seq(Nat), NEW t \in Seq(Nat),
         Covers(s, lo, mid), Covers(t, mid, hi)
  PROVE  Covers(s \o t, lo, hi)
<1> DEFINE u == s \o t
<1>1. /\ DOMAIN u = 1 .. Len(s) + Len(t)
      /\ \A i \in 1 .. Len(s) : u[i] = s[i]
      /\ \A i \in 1 .. Len(t) : u[Len(s) + i] = t[i]
      /\ \A i \in DOMAIN u : i \in 1 .. Len(s) \/ i - Len(s) \in 1 .. Len(t)
      /\ Len(s) \in Nat /\ Len(t) \in Nat
      /\ DOMAIN s = 1 .. Len(s) /\ DOMAIN t = 1 .. Len(t)
  OBVIOUS
<1>2. \A i \in DOMAIN u : \/ i \in DOMAIN s /\ u[i] = s[i]
                          \/ /\ i \notin DOMAIN s
                             /\ i - Len(s) \in DOMAIN t
                             /\ u[i] = t[i - Len(s)]
  BY <1>1
<1> HIDE DEF u
<1>3. \A i \in DOMAIN u : u[i] \in lo + 1 .. hi
  BY <1>2 DEF Covers, CoversAt
<1>4. Ascending(u)
  <2> SUFFICES ASSUME NEW i \in DOMAIN u, NEW j \in DOMAIN u, i < j
               PROVE  u[i] < u[j]
    BY DEF Ascending
  <2>1. CASE i \in DOMAIN s /\ j \in DOMAIN s
    BY <1>2, <2>1 DEF Covers, CoversAt, Ascending
  <2>2. CASE i \in DOMAIN s /\ j \notin DOMAIN s
    <3>1. u[i] \in lo + 1 .. mid /\ u[j] \in mid + 1 .. hi
      BY <1>2, <2>2 DEF Covers, CoversAt
    <3> QED
      BY <3>1
  <2>3. CASE i \notin DOMAIN s /\ j \notin DOMAIN s
    <3>1. /\ i - Len(s) \in DOMAIN t /\ u[i] = t[i - Len(s)]
          /\ j - Len(s) \in DOMAIN t /\ u[j] = t[j - Len(s)]
          /\ i - Len(s) < j - Len(s)
      BY <1>1, <1>2, <2>3
    <3> QED
      BY <3>1 DEF Covers, CoversAt, Ascending
  <2>4. ~(i \notin DOMAIN s /\ j \in DOMAIN s)
    BY <1>1
  <2> QED
    BY <2>1, <2>2, <2>3, <2>4
<1>5. ASSUME NEW e \in lo + 1 .. hi, e > head - Cap
      PROVE  \E i \in DOMAIN u : u[i] = e
  <2>1. CASE e <= mid
    <3>1. PICK i \in DOMAIN s : s[i] = e
      BY <1>5, <2>1 DEF Covers, CoversAt
    <3>2. i \in DOMAIN u /\ u[i] = e
      BY <1>1, <3>1
    <3> QED
      BY <3>2
  <2>2. CASE e > mid
    <3>1. PICK i \in DOMAIN t : t[i] = e
      BY <1>5, <2>2 DEF Covers, CoversAt
    <3>2. Len(s) + i \in DOMAIN u /\ u[Len(s) + i] = e
      BY <1>1, <3>1
    <3> QED
      BY <3>2
  <2> QED
    BY <2>1, <2>2
<1>6. Covers(u, lo, hi)
  BY <1>3, <1>4, <1>5 DEF Covers, CoversAt
<1> QED
  BY <1>6 DEF u

(* One DRAIN copies the oldest events there still are after the cursor, at *)
(* most a page of them, and skips only overwritten ones.                   *)
LEMMA CopiedCovers ==
  ASSUME RingTypeOK, cursor <= head, RingHoldsTail
  PROVE  /\ Count \in 0 .. Page
         /\ Copied \in Seq(Nat)
         /\ Len(Copied) = Count
         /\ Count = 0 => Covers(Copied, cursor, cursor)
         /\ Count > 0 => /\ Copied[Count] \in Nat
                         /\ cursor < Copied[Count] /\ Copied[Count] <= head
                         /\ Covers(Copied, cursor, Copied[Count])
<1>1. /\ head \in Nat /\ cursor \in Nat
      /\ Cap \in Nat /\ Cap > 0 /\ Page \in Nat /\ Page > 0
  BY RingAssumption DEF RingTypeOK
<1>2. Oldest \in Nat /\ Oldest >= 1 /\ Oldest <= head + 1 /\ Oldest > head - Cap
  BY <1>1 DEF Oldest
<1>3. /\ From \in Nat /\ From >= 1 /\ From > cursor /\ From <= head + 1
      /\ From > head - Cap
      /\ \A e \in Nat : e > cursor /\ e < From => e <= head - Cap
  BY <1>1, <1>2 DEF From, Oldest
<1> HIDE DEF From
<1>4. Count \in 0 .. Page /\ From + Count - 1 <= head
  BY <1>1, <1>3 DEF Count
<1> HIDE DEF Count
<1>5. \A i \in 1 .. Count : Copied[i] = From + i - 1
  <2> SUFFICES ASSUME NEW i \in 1 .. Count
               PROVE  ring[Slot(From + i - 1)] = From + i - 1
    BY DEF Copied
  <2>1. From + i - 1 \in 1 .. head /\ From + i - 1 > head - Cap
    BY <1>1, <1>3, <1>4
  <2> QED
    BY <2>1 DEF RingHoldsTail
<1>6. Copied \in Seq(Nat) /\ Len(Copied) = Count /\ DOMAIN Copied = 1 .. Count
  <2>1. \A i \in 1 .. Count : Copied[i] \in Nat
    BY <1>3, <1>4, <1>5
  <2>2. Copied = [i \in 1 .. Count |-> Copied[i]]
    BY DEF Copied
  <2> HIDE DEF Copied
  <2>3. Copied \in [1 .. Count -> Nat]
    BY <2>1, <2>2
  <2> QED
    BY <1>4, <2>3
<1> HIDE DEF Copied
<1>7. CASE Count = 0
  <2>1. \A e \in cursor + 1 .. cursor : FALSE
    BY <1>1
  <2> QED
    BY <1>4, <1>6, <1>7, <2>1 DEF Covers, CoversAt, Ascending
<1>8. CASE Count > 0
  <2>1. Copied[Count] = From + Count - 1
    BY <1>4, <1>5, <1>8
  <2>2. Copied[Count] \in Nat /\ cursor < Copied[Count] /\ Copied[Count] <= head
    BY <1>1, <1>3, <1>4, <1>8, <2>1
  <2>3. Ascending(Copied)
    BY <1>3, <1>4, <1>5, <1>6 DEF Ascending
  <2>4. \A i \in DOMAIN Copied : Copied[i] \in cursor + 1 .. Copied[Count]
    BY <1>1, <1>3, <1>4, <1>5, <1>6, <2>1
  <2>5. ASSUME NEW e \in cursor + 1 .. Copied[Count], e > head - Cap
        PROVE  \E i \in DOMAIN Copied : Copied[i] = e
    <3>1. e >= From
      BY <1>1, <1>3, <2>2, <2>5
    <3>2. e - From + 1 \in 1 .. Count /\ Copied[e - From + 1] = e
      BY <1>1, <1>3, <1>4, <1>5, <2>1, <2>2, <2>5, <3>1
    <3> QED
      BY <1>6, <3>2
  <2>6. Covers(Copied, cursor, Copied[Count])
    BY <2>3, <2>4, <2>5 DEF Covers, CoversAt
  <2> QED
    BY <1>4, <1>6, <1>8, <2>2, <2>6
<1> QED
  BY <1>4, <1>7, <1>8

(* More events may have been overwritten by the time the head is at h: that *)
(* only weakens a cover.                                                   *)
LEMMA CoversLater ==
  ASSUME NEW s \in Seq(Nat), NEW lo \in Nat, NEW hi \in Nat, NEW h \in Nat,
         Cap \in Nat, head \in Nat, head <= h, Covers(s, lo, hi)
  PROVE  CoversAt(s, lo, hi, h)
<1>1. ASSUME NEW e \in lo + 1 .. hi, e > h - Cap
      PROVE  \E i \in DOMAIN s : s[i] = e
  <2>1. e > head - Cap
    BY <1>1
  <2> QED
    BY <1>1, <2>1 DEF Covers, CoversAt
<1> QED
  BY <1>1 DEF Covers, CoversAt

LEMMA RingInitIInv == RingInit => RingIInv
<1> SUFFICES ASSUME RingInit PROVE RingIInv
  OBVIOUS
<1>1. RingTypeOK
  BY RingAssumption DEF RingInit, RingTypeOK
<1>2. RingHoldsTail
  BY DEF RingInit, RingHoldsTail
<1>3. Covers(out, 0, lastSeen)
  BY DEF RingInit, Covers, CoversAt, Ascending
<1> QED
  BY <1>1, <1>2, <1>3 DEF RingInit, RingIInv

(* A push overwrites exactly the slot of the event that is Cap older. *)
LEMMA PushStep == RingIInv /\ PushEvent => RingIInv'
<1> SUFFICES ASSUME RingIInv, PushEvent PROVE RingIInv'
  OBVIOUS
<1>1. /\ head \in Nat /\ head' = head + 1 /\ Cap \in Nat /\ Cap > 0
      /\ ring \in [0 .. Cap - 1 -> Nat]
      /\ batch \in Seq(Nat) /\ out \in Seq(Nat)
      /\ lastSeen \in Nat /\ cursor \in Nat
  BY RingAssumption DEF RingIInv, RingTypeOK, PushEvent
<1>2. Slot(head + 1) \in 0 .. Cap - 1
  BY <1>1, SlotRange
<1>3. RingTypeOK'
  BY <1>1, <1>2 DEF RingIInv, RingTypeOK, PushEvent
<1>4. RingHoldsTail'
  <2> SUFFICES ASSUME NEW s \in 1 .. head + 1, s > head + 1 - Cap
               PROVE  ring'[Slot(s)] = s
    BY <1>1 DEF RingHoldsTail, Slot
  <2>1. CASE s = head + 1
    BY <1>1, <1>2, <2>1 DEF PushEvent
  <2>2. CASE s # head + 1
    <3>1. s \in 1 .. head /\ s > head - Cap
      BY <1>1, <2>2
    <3>2. Slot(s) # Slot(head + 1)
      <4>1. s - 1 \in Nat /\ head \in Nat /\ s - 1 < head /\ head < s - 1 + Cap
        BY <1>1, <2>2
      <4>2. (s - 1) % Cap # head % Cap
        BY <1>1, <4>1, RingAssumption, Residues
      <4>3. (head + 1) - 1 = head
        BY <1>1
      <4> QED
        BY <4>2, <4>3 DEF Slot
    <3>3. Slot(s) \in 0 .. Cap - 1
      BY <3>1, SlotRange
    <3>4. ring[Slot(s)] = s
      BY <3>1 DEF RingIInv, RingHoldsTail
    <3> QED
      BY <1>1, <3>2, <3>3, <3>4 DEF PushEvent
  <2> QED
    BY <2>1, <2>2
<1>5. UNCHANGED <<pc, lastSeen, cursor, batch, out>>
  BY DEF PushEvent
<1>6. 0 \in Nat /\ head + 1 \in Nat /\ head <= head + 1
  BY <1>1
<1>7. Covers(out, 0, lastSeen)'
  <2>1. Covers(out, 0, lastSeen)
    BY DEF RingIInv
  <2>2. CoversAt(out, 0, lastSeen, head + 1)
    BY <1>1, <1>6, <2>1, CoversLater
  <2> QED
    BY <1>1, <1>5, <2>2 DEF Covers, CoversAt, Ascending
<1>8. ASSUME pc \in {"drain", "write"} PROVE Covers(batch, lastSeen, cursor)'
  <2>1. Covers(batch, lastSeen, cursor)
    BY <1>8 DEF RingIInv
  <2>2. CoversAt(batch, lastSeen, cursor, head + 1)
    BY <1>1, <1>6, <2>1, CoversLater
  <2> QED
    BY <1>1, <1>5, <2>2 DEF Covers, CoversAt, Ascending
<1> QED
  BY <1>1, <1>3, <1>4, <1>5, <1>7, <1>8 DEF RingIInv, PushEvent

LEMMA StartStep == RingIInv /\ StartDrain => RingIInv'
<1> SUFFICES ASSUME RingIInv, StartDrain PROVE RingIInv'
  OBVIOUS
<1>1. RingTypeOK'
  BY DEF RingIInv, RingTypeOK, StartDrain
<1>2. Covers(<<>>, lastSeen, lastSeen)
  BY DEF RingIInv, RingTypeOK, Covers, CoversAt, Ascending
<1>3. Covers(batch, lastSeen, cursor)' /\ Covers(out, 0, lastSeen)'
  BY <1>2 DEF RingIInv, StartDrain, Covers, CoversAt, Ascending
<1>4. RingHoldsTail'
  BY DEF RingIInv, StartDrain, RingHoldsTail, Slot
<1> QED
  BY <1>1, <1>3, <1>4 DEF RingIInv, RingTypeOK, StartDrain

LEMMA PageStep == RingIInv /\ DrainPage => RingIInv'
<1> SUFFICES ASSUME RingIInv, DrainPage PROVE RingIInv'
  OBVIOUS
<1>1. /\ head \in Nat /\ Cap \in Nat /\ batch \in Seq(Nat) /\ out \in Seq(Nat)
      /\ lastSeen \in Nat /\ cursor \in Nat /\ lastSeen <= cursor
      /\ RingTypeOK /\ cursor <= head /\ RingHoldsTail
      /\ Covers(batch, lastSeen, cursor)
  BY RingAssumption DEF RingIInv, RingTypeOK, DrainPage
<1>2. /\ Copied \in Seq(Nat)
      /\ cursor' \in Nat /\ cursor <= cursor' /\ cursor' <= head
      /\ Covers(Copied, cursor, cursor')
  <2>1. CASE Count = 0
    BY <1>1, <2>1, CopiedCovers DEF DrainPage
  <2>2. CASE Count # 0
    <3>1. Count > 0 /\ cursor' = Copied[Count]
      BY <1>1, <2>2, CopiedCovers DEF DrainPage
    <3> QED
      BY <1>1, <3>1, CopiedCovers
  <2> QED
    BY <2>1, <2>2
<1>3. Covers(batch \o Copied, lastSeen, cursor') /\ batch \o Copied \in Seq(Nat)
  BY <1>1, <1>2, CoversConcat
<1>4. batch' = batch \o Copied
  BY DEF DrainPage
<1>5. RingTypeOK'
  BY <1>2, <1>3, <1>4 DEF RingIInv, RingTypeOK, DrainPage
<1>6. Covers(batch, lastSeen, cursor)' /\ Covers(out, 0, lastSeen)'
  BY <1>3, <1>4 DEF RingIInv, DrainPage, Covers, CoversAt, Ascending
<1>7. RingHoldsTail'
  BY DEF RingIInv, DrainPage, RingHoldsTail, Slot
<1> QED
  BY <1>1, <1>2, <1>5, <1>6, <1>7 DEF RingIInv, DrainPage

LEMMA ErrorStep == RingIInv /\ DrainError => RingIInv'
<1> SUFFICES ASSUME RingIInv, DrainError PROVE RingIInv'
  OBVIOUS
<1>1. RingTypeOK'
  BY RingAssumption DEF RingIInv, RingTypeOK, DrainError
<1>2. Covers(out, 0, lastSeen)'
  BY DEF RingIInv, DrainError, Covers, CoversAt, Ascending
<1>3. RingHoldsTail'
  BY DEF RingIInv, DrainError, RingHoldsTail, Slot
<1> QED
  BY <1>1, <1>2, <1>3 DEF RingIInv, DrainError

LEMMA WriteStep == RingIInv /\ WriteEvents => RingIInv'
<1> SUFFICES ASSUME RingIInv, WriteEvents PROVE RingIInv'
  OBVIOUS
<1>1. /\ head \in Nat /\ Cap \in Nat /\ batch \in Seq(Nat) /\ out \in Seq(Nat)
      /\ lastSeen \in Nat /\ cursor \in Nat /\ lastSeen <= cursor
      /\ Covers(out, 0, lastSeen) /\ Covers(batch, lastSeen, cursor)
  BY RingAssumption DEF RingIInv, RingTypeOK, WriteEvents
<1>2. Covers(out \o batch, 0, cursor) /\ out \o batch \in Seq(Nat)
  BY <1>1, CoversConcat
<1>3. out' = out \o batch
  BY DEF WriteEvents
<1>4. RingTypeOK'
  BY <1>2, <1>3 DEF RingIInv, RingTypeOK, WriteEvents
<1>5. Covers(out, 0, lastSeen)'
  BY <1>2, <1>3 DEF WriteEvents, Covers, CoversAt, Ascending
<1>6. RingHoldsTail'
  BY DEF RingIInv, WriteEvents, RingHoldsTail, Slot
<1> QED
  BY <1>1, <1>4, <1>5, <1>6 DEF RingIInv, WriteEvents

LEMMA StopStep == RingIInv /\ StopLoop => RingIInv'
<1> SUFFICES ASSUME RingIInv, StopLoop PROVE RingIInv'
  OBVIOUS
<1>1. RingTypeOK'
  BY DEF RingIInv, RingTypeOK, StopLoop
<1>2. Covers(out, 0, lastSeen)'
  BY DEF RingIInv, StopLoop, Covers, CoversAt, Ascending
<1>3. RingHoldsTail'
  BY DEF RingIInv, StopLoop, RingHoldsTail, Slot
<1> QED
  BY <1>1, <1>2, <1>3 DEF RingIInv, StopLoop

LEMMA StutterStep == RingIInv /\ UNCHANGED ringVars => RingIInv'
<1> SUFFICES ASSUME RingIInv, UNCHANGED ringVars PROVE RingIInv'
  OBVIOUS
<1>1. RingTypeOK'
  BY DEF RingIInv, RingTypeOK, ringVars
<1>2. /\ Covers(out, 0, lastSeen)'
      /\ (pc \in {"drain", "write"} => Covers(batch, lastSeen, cursor))'
  BY DEF RingIInv, ringVars, Covers, CoversAt, Ascending
<1>3. RingHoldsTail'
  BY DEF RingIInv, ringVars, RingHoldsTail, Slot
<1> QED
  BY <1>1, <1>2, <1>3 DEF RingIInv, ringVars

LEMMA RingInvariance == RingSpec => []RingIInv
<1>1. RingIInv /\ [RingNext]_ringVars => RingIInv'
  BY PushStep, StartStep, PageStep, ErrorStep, WriteStep, StopStep, StutterStep
     DEF RingNext
<1> QED
  BY <1>1, RingInitIInv, PTL DEF RingSpec

(* Every reachable state is well typed, whatever the ring and page sizes   *)
(* and however the driver and the agent interleave.                        *)
THEOREM RingTypeCorrect == RingSpec => []RingTypeOK
<1>1. RingIInv => RingTypeOK
  BY DEF RingIInv
<1> QED
  BY <1>1, RingInvariance, PTL

(* The drain writes events in order and never twice. *)
THEOREM NoDuplicates == RingSpec => []InOrderOnce
<1>1. RingIInv => InOrderOnce
  BY DEF RingIInv, Covers, CoversAt, InOrderOnce
<1> QED
  BY <1>1, RingInvariance, PTL

(* The drain passes over an event only when the ring has overwritten it. *)
THEOREM NoAvoidableLoss == RingSpec => []OnlyOverwrittenIsLost
<1>1. RingIInv => OnlyOverwrittenIsLost
  BY DEF RingIInv, Covers, CoversAt, OnlyOverwrittenIsLost
<1> QED
  BY <1>1, RingInvariance, PTL
=============================================================================
