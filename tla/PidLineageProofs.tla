--------------------------- MODULE PidLineageProofs ---------------------------
(***************************************************************************)
(* Proofs about PidLineage, for any set of pids, any number of processes   *)
(* and of lost events and any slack: who is in scope, and who is not.      *)
(***************************************************************************)
EXTENDS PidLineage, TLAPS, WellFoundedInduction

(* A parent comes before its child, and was there when the child was born; *)
(* times are not ahead of the clock by more than the slack.                *)
ParentsComeFirst ==
  \A i \in Made : proc[i].parent # Outside =>
    /\ proc[i].parent < i
    /\ proc[proc[i].parent].alive \/ proc[i].birth <= proc[proc[i].parent].death + Slack

TimesArePast ==
  \A i \in Made :
    /\ proc[i].birth <= clock + Slack
    /\ proc[i].death <= clock
    /\ proc[i].ended => ~proc[i].alive

(* Whoever gets a pid gets it from one who has ended.                      *)
HoldersFollow ==
  \A i, j \in Made : i < j /\ proc[i].pid = proc[j].pid =>
    ~proc[i].alive /\ (proc[j].alive \/ proc[i].death <= proc[j].death)

(* The sample runs what execution_info says.                               *)
RootRunsLauncher == root # Outside => proc[root].launcher = hasImage

IInv == TypeOK /\ ParentsComeFirst /\ TimesArePast /\ HoldersFollow /\ RootRunsLauncher

-----------------------------------------------------------------------------
LEMMA InitInv == Init => IInv
<1> SUFFICES ASSUME Init PROVE IInv
  OBVIOUS
<1>1. Made = {}
  BY DEF Init, Made
<1>2. TypeOK
  <2>1. \A i \in Ids : i \in Made <=> i <= born
    BY <1>1 DEF Init, Ids
  <2>2. {hasGuids, hasImage} \subseteq BOOLEAN
    BY DEF Init
  <2> QED BY <2>1, <2>2, LineageAssumption DEF Init, TypeOK, Outside
<1> QED BY <1>1, <1>2 DEF IInv, ParentsComeFirst, TimesArePast, HoldersFollow, RootRunsLauncher, Init

(* What a creation does to the table.                                      *)
LEMMA CreateStep ==
  ASSUME IInv, NEW pid \in Pids, NEW parent \in Alive \cup {Outside},
         NEW launcher \in BOOLEAN, NEW created \in BOOLEAN, NEW late \in {0, Slack},
         Create(pid, parent, launcher, created, late)
  PROVE  /\ born + 1 \in Ids /\ born + 1 \notin Made /\ Made' = Made \cup {born + 1}
         /\ proc'[born + 1] \in Process
         /\ proc'[born + 1].pid = pid /\ proc'[born + 1].parent = parent
         /\ proc'[born + 1].birth = clock + late /\ proc'[born + 1].death = 0
         /\ proc'[born + 1].alive /\ ~proc'[born + 1].ended
         /\ \A i \in Made : proc'[i] = proc[i]
         /\ proc' \in [Ids -> Process \cup {NoProc}]
         /\ \A i \in Ids : i \in Made' <=> i <= born'
<1> USE LineageAssumption DEF IInv
<1>1. born \in Nat /\ born + 1 \in Ids /\ born + 1 \notin Made
  BY DEF Create, TypeOK, Ids
<1> DEFINE e == [pid |-> pid, parent |-> parent, launcher |-> launcher, birth |-> clock + late,
                 death |-> 0, alive |-> TRUE, created |-> created, ended |-> FALSE]
<1>2. e \in Process
  BY DEF Process, TypeOK, Alive, Made
<1>3. proc' = [proc EXCEPT ![born + 1] = e]
  BY DEF Create
<1>4. proc'[born + 1] = e /\ \A i \in Ids : i # born + 1 => proc'[i] = proc[i]
  BY <1>1, <1>3 DEF TypeOK
<1>5. e # NoProc
  BY DEF NoProc
<1>6. Made' = Made \cup {born + 1}
  BY <1>1, <1>4, <1>5 DEF Made
<1>7. proc' \in [Ids -> Process \cup {NoProc}]
  BY <1>2, <1>3 DEF TypeOK
<1>8. \A i \in Ids : i \in Made' <=> i <= born'
  BY <1>1, <1>6 DEF Create, TypeOK, Ids
<1>9. \A i \in Made : proc'[i] = proc[i]
  BY <1>1, <1>4 DEF Made
<1>10. /\ proc'[born + 1].pid = pid /\ proc'[born + 1].parent = parent
       /\ proc'[born + 1].birth = clock + late /\ proc'[born + 1].death = 0
       /\ proc'[born + 1].alive /\ ~proc'[born + 1].ended
  BY <1>4
<1> QED BY <1>1, <1>2, <1>4, <1>6, <1>7, <1>8, <1>9, <1>10

LEMMA MadeIn == ASSUME TypeOK, NEW i \in Made PROVE proc[i] \in Process /\ i \in Ids /\ i \in Nat
BY DEF TypeOK, Made, Ids

LEMMA CreateInv ==
  ASSUME IInv, NEW pid \in Pids, NEW parent \in Alive \cup {Outside},
         NEW launcher \in BOOLEAN, NEW created \in BOOLEAN, NEW late \in {0, Slack},
         Create(pid, parent, launcher, created, late), root' \in 0 .. born + 1,
         root' = root \/ (root' = born + 1 /\ launcher = hasImage)
  PROVE  IInv'
<1> USE LineageAssumption
<1> DEFINE n == born + 1
<1>1. /\ n \in Ids /\ n \notin Made /\ Made' = Made \cup {n}
      /\ proc'[n] \in Process
      /\ proc'[n].pid = pid /\ proc'[n].parent = parent
      /\ proc'[n].birth = clock + late /\ proc'[n].death = 0
      /\ proc'[n].alive /\ ~proc'[n].ended
      /\ \A i \in Made : proc'[i] = proc[i]
      /\ proc' \in [Ids -> Process \cup {NoProc}]
      /\ \A i \in Ids : i \in Made' <=> i <= born'
  BY CreateStep
<1>2. clock \in Nat /\ clock' = clock + 1 /\ born \in Nat /\ born' = n
  BY DEF Create, Recorded, IInv, TypeOK
<1>3. TypeOK'
  <2>1. born' \in 0 .. MaxBorn
    BY <1>2 DEF Create, IInv, TypeOK
  <2>2. lost' \in 0 .. MaxLost
    BY DEF Create, Recorded, IInv, TypeOK
  <2>3. {hasGuids, hasImage}' \subseteq BOOLEAN
    BY DEF Create, Recorded, IInv, TypeOK
  <2> QED BY <1>1, <1>2, <2>1, <2>2, <2>3 DEF TypeOK
<1>4. \A i \in Made : i < n /\ proc[i] \in Process /\ i \in Nat
  BY <1>2, MadeIn DEF IInv, TypeOK, Ids
<1>5. ParentsComeFirst'
  <2>1. ASSUME NEW i \in Made', proc'[i].parent # Outside
        PROVE  /\ proc'[i].parent < i
               /\ \/ proc'[proc'[i].parent].alive
                  \/ proc'[i].birth <= proc'[proc'[i].parent].death + Slack
    <3>1. CASE i = n
      <4>1. parent \in Alive
        BY <2>1, <3>1, <1>1
      <4> QED BY <4>1, <3>1, <1>1, <1>4 DEF Alive
    <3>2. CASE i \in Made
      <4>1. proc[i].parent \in Ids /\ proc[i].parent < i
        BY <3>2, <2>1, <1>1, <1>4 DEF IInv, ParentsComeFirst, Process
      <4>2. proc[i].parent \in Made
        BY <4>1, <3>2, <1>4, <1>2 DEF IInv, TypeOK, Ids
      <4> QED BY <4>1, <4>2, <3>2, <2>1, <1>1 DEF IInv, ParentsComeFirst
    <3> QED BY <3>1, <3>2, <1>1
  <2> QED BY <2>1 DEF ParentsComeFirst, Outside
<1>6. TimesArePast'
  <2>1. ASSUME NEW i \in Made'
        PROVE  /\ proc'[i].birth <= clock' + Slack
               /\ proc'[i].death <= clock'
               /\ proc'[i].ended => ~proc'[i].alive
    <3>1. CASE i = n
      BY <3>1, <1>1, <1>2
    <3>2. CASE i \in Made
      <4>1. proc'[i] = proc[i] /\ proc[i].birth \in Nat /\ proc[i].death \in Nat
        BY <3>2, <1>1, <1>4 DEF Process
      <4> QED BY <4>1, <3>2, <1>2 DEF IInv, TimesArePast
    <3> QED BY <3>1, <3>2, <1>1
  <2> QED BY <2>1 DEF TimesArePast
<1>7. HoldersFollow'
  <2>1. ASSUME NEW i \in Made', NEW j \in Made', i < j, proc'[i].pid = proc'[j].pid
        PROVE  ~proc'[i].alive /\ (proc'[j].alive \/ proc'[i].death <= proc'[j].death)
    <3>1. i \in Made
      <4>1. j <= n /\ j \in Nat
        BY <1>1, <1>2, <1>4
      <4> QED BY <4>1, <2>1, <1>1, <1>2
    <3>2. CASE j = n
      BY <3>1, <3>2, <2>1, <1>1 DEF Create, Alive
    <3>3. CASE j \in Made
      BY <3>1, <3>3, <2>1, <1>1 DEF IInv, HoldersFollow
    <3> QED BY <3>2, <3>3, <1>1
  <2> QED BY <2>1 DEF HoldersFollow
<1>8. RootRunsLauncher'
  <2>1. hasImage' = hasImage
    BY DEF Create, Recorded
  <2>2. proc'[n].launcher = launcher
    BY <1>1 DEF Create, IInv, TypeOK
  <2>3. root # Outside => root \in Made
    BY DEF IInv, TypeOK, Outside, Ids
  <2> QED BY <2>1, <2>2, <2>3, <1>1 DEF IInv, RootRunsLauncher
<1> QED BY <1>3, <1>5, <1>6, <1>7, <1>8 DEF IInv

LEMMA ExitInv ==
  ASSUME IInv, NEW e \in Ids, NEW ended \in BOOLEAN, Exit(e, ended)
  PROVE  IInv'
<1> USE LineageAssumption
<1>1. e \in Made /\ proc[e] \in Process /\ proc[e].alive
  BY MadeIn DEF Exit, Alive, IInv
<1>2. /\ proc'[e] = [proc[e] EXCEPT !.alive = FALSE, !.ended = ended, !.death = clock]
      /\ \A i \in Ids : i # e => proc'[i] = proc[i]
  BY DEF Exit, IInv, TypeOK
<1>3. clock \in Nat /\ clock' = clock + 1 /\ born' = born /\ root' = root
  BY DEF Exit, Recorded, IInv, TypeOK
<1>4. /\ proc'[e] \in Process
      /\ ~proc'[e].alive /\ proc'[e].death = clock
      /\ proc'[e].pid = proc[e].pid /\ proc'[e].parent = proc[e].parent
      /\ proc'[e].birth = proc[e].birth
  BY ZenonT(30), <1>1, <1>2, <1>3 DEF Process
<1>5. proc' \in [Ids -> Process \cup {NoProc}]
  <2>1. \A i \in Ids : proc'[i] \in Process \cup {NoProc}
    BY <1>2, <1>4 DEF IInv, TypeOK
  <2>2. proc' = [i \in Ids |-> proc'[i]]
    BY DEF Exit, IInv, TypeOK
  <2> QED BY <2>1, <2>2
<1>6. Made' = Made
  <2>1. proc'[e] # NoProc
    BY <1>4 DEF Process, NoProc
  <2> QED BY <2>1, <1>1, <1>2 DEF Made
<1>7. TypeOK'
  <2>2. lost' \in 0 .. MaxLost
    BY DEF Exit, Recorded, IInv, TypeOK
  <2>3. {hasGuids, hasImage}' \subseteq BOOLEAN
    BY DEF Exit, Recorded, IInv, TypeOK
  <2> QED BY <1>3, <1>5, <1>6, <2>2, <2>3 DEF IInv, TypeOK
<1>8. \A i \in Made : proc[i] \in Process /\ i \in Nat /\ i \in Ids
  BY MadeIn DEF IInv
<1>9. ParentsComeFirst'
  <2>1. ASSUME NEW i \in Made, proc'[i].parent # Outside
        PROVE  /\ proc'[i].parent < i
               /\ \/ proc'[proc'[i].parent].alive
                  \/ proc'[i].birth <= proc'[proc'[i].parent].death + Slack
    <3>1. proc'[i].parent = proc[i].parent /\ proc'[i].birth = proc[i].birth
      BY <1>2, <1>4, <1>8
    <3>2. proc[i].parent < i /\ proc[i].parent \in Ids
      BY <2>1, <3>1, <1>8 DEF IInv, ParentsComeFirst, Process
    <3>3. CASE proc[i].parent = e
      BY <3>1, <3>2, <3>3, <1>4 DEF IInv, TimesArePast
    <3>4. CASE proc[i].parent # e
      <4>1. proc'[proc[i].parent] = proc[proc[i].parent]
        BY <3>2, <3>4, <1>2
      <4> QED BY <4>1, <3>1, <3>2, <2>1 DEF IInv, ParentsComeFirst
    <3> QED BY <3>3, <3>4
  <2> QED BY <2>1, <1>6 DEF ParentsComeFirst, Outside
<1>10. TimesArePast'
  <2>1. ASSUME NEW i \in Made
        PROVE  /\ proc'[i].birth <= clock' + Slack
               /\ proc'[i].death <= clock'
               /\ proc'[i].ended => ~proc'[i].alive
    <3>1. CASE i = e
      BY <3>1, <1>1, <1>3, <1>4 DEF IInv, TimesArePast, Process
    <3>2. CASE i # e
      BY <3>2, <1>2, <1>3, <1>8 DEF IInv, TimesArePast, Process
    <3> QED BY <3>1, <3>2
  <2> QED BY <2>1, <1>6 DEF TimesArePast
<1>11. HoldersFollow'
  <2>1. ASSUME NEW i \in Made, NEW j \in Made, i < j, proc'[i].pid = proc'[j].pid
        PROVE  ~proc'[i].alive /\ (proc'[j].alive \/ proc'[i].death <= proc'[j].death)
    <3>1. proc[i].pid = proc[j].pid
      BY <2>1, <1>2, <1>4, <1>8
    <3>2. i # e /\ ~proc[i].alive /\ proc'[i] = proc[i]
      BY <3>1, <2>1, <1>1, <1>2, <1>8 DEF IInv, HoldersFollow
    <3>3. CASE j = e
      BY <3>2, <3>3, <1>4 DEF IInv, TimesArePast
    <3>4. CASE j # e
      BY <3>1, <3>2, <3>4, <2>1, <1>2, <1>8 DEF IInv, HoldersFollow
    <3> QED BY <3>3, <3>4
  <2> QED BY <2>1, <1>6 DEF HoldersFollow
<1>12. RootRunsLauncher'
  <2>1. hasImage' = hasImage
    BY DEF Exit, Recorded
  <2>2. proc'[e].launcher = proc[e].launcher
    BY <1>1, <1>2 DEF Process
  <2>3. root # Outside => root \in Ids
    BY DEF IInv, TypeOK, Outside, Ids
  <2> QED BY <2>1, <2>2, <2>3, <1>2, <1>3 DEF IInv, RootRunsLauncher
<1> QED BY <1>7, <1>9, <1>10, <1>11, <1>12 DEF IInv

LEMMA NextInv == IInv /\ [Next]_vars => IInv'
<1> SUFFICES ASSUME IInv, [Next]_vars PROVE IInv'
  OBVIOUS
<1> USE LineageAssumption
<1>1. ASSUME NEW pid \in Pids, NEW created \in BOOLEAN, Launch(pid, created) PROVE IInv'
  <2>1. /\ Create(pid, Outside, hasImage, created, 0)
        /\ root' \in 0 .. born + 1 /\ root' = born + 1 /\ hasImage \in BOOLEAN
    BY <1>1 DEF Launch, IInv, TypeOK
  <2> QED BY <2>1, CreateInv
<1>2. ASSUME NEW pid \in Pids, NEW parent \in Alive \cup {Outside}, NEW launcher \in Launchers,
             NEW created \in BOOLEAN, NEW late \in Delays,
             Spawn(pid, parent, launcher, created, late)
      PROVE  IInv'
  <2>1. Create(pid, parent, launcher, created, late) /\ root' \in 0 .. born + 1 /\ root' = root
    BY <1>2 DEF Spawn, IInv, TypeOK
  <2>2. launcher \in BOOLEAN /\ late \in {0, Slack}
    BY DEF Launchers, Delays
  <2> QED BY <2>1, <2>2, CreateInv
<1>3. ASSUME NEW i \in Ids, NEW ended \in BOOLEAN, Exit(i, ended) PROVE IInv'
  BY <1>3, ExitInv
<1>4. CASE UNCHANGED vars
  BY <1>4 DEF vars, IInv, TypeOK, ParentsComeFirst, TimesArePast, HoldersFollow, RootRunsLauncher, Made
<1> QED BY <1>1, <1>2, <1>3, <1>4 DEF Next

LEMMA Invariance == Spec => []IInv
BY InitInv, NextInv, PTL DEF Spec

(* Every reachable state is well typed.                                    *)
THEOREM TypeCorrect == Spec => []TypeOK
BY Invariance, PTL DEF IInv

-----------------------------------------------------------------------------
(* The search: it finds the start, and the children of what it finds.      *)
LEMMA ReachStep ==
  ASSUME NEW nodes, NEW start \in SUBSET nodes, NEW child
  PROVE  /\ start \subseteq Reach(nodes, start, child)
         /\ Reach(nodes, start, child) \subseteq nodes
         /\ \A a \in Reach(nodes, start, child), b \in nodes :
              b \in child[a] => b \in Reach(nodes, start, child)
BY DEF Reach, Closed

(* It finds nothing outside a closed set that holds the start.             *)
LEMMA ReachLeast ==
  ASSUME NEW nodes, NEW start, NEW child, NEW S \in SUBSET nodes,
         start \subseteq S, Closed(S, child)
  PROVE  Reach(nodes, start, child) \subseteq S
BY DEF Reach

(* What is found is of the start, or a child of something found.           *)
LEMMA ReachParent ==
  ASSUME NEW nodes, NEW start \in SUBSET nodes, NEW child,
         \A a \in nodes : child[a] \subseteq nodes,
         NEW x \in Reach(nodes, start, child), x \notin start
  PROVE  \E a \in Reach(nodes, start, child) : x \in child[a]
<1> DEFINE R == Reach(nodes, start, child)
<1> SUFFICES ASSUME \A a \in R : x \notin child[a] PROVE FALSE
  OBVIOUS
<1>1. start \subseteq R /\ R \subseteq nodes /\ \A a \in R, b \in nodes : b \in child[a] => b \in R
  BY ReachStep
<1> HIDE DEF R
<1>2. Closed(R \ {x}, child)
  BY <1>1 DEF Closed
<1>3. start \subseteq R \ {x} /\ R \ {x} \in SUBSET nodes
  BY <1>1
<1>4. R \subseteq R \ {x}
  BY <1>2, <1>3, ReachLeast DEF R
<1> QED BY <1>4 DEF R

-----------------------------------------------------------------------------
LEMMA FamilyFacts ==
  ASSUME IInv, root # Outside
  PROVE  /\ root \in Made /\ root \in Family
         /\ Family \subseteq Made
         /\ \A a \in Family, b \in Made : proc[b].parent = a => b \in Family
         /\ \A b \in Family : b # root => proc[b].parent \in Family
<1>1. root \in Made
  <2>1. root \in Nat /\ root # 0 /\ root <= born /\ born <= MaxBorn /\ born \in Nat /\ MaxBorn \in Nat
    BY LineageAssumption DEF IInv, TypeOK, Outside
  <2>2. root \in Ids
    BY <2>1 DEF Ids
  <2> QED BY <2>1, <2>2 DEF IInv, TypeOK
<1>2. Made \subseteq Ids /\ root \in Ids /\ \A a \in Ids : TrueChildren[a] \subseteq Ids
  BY <1>1 DEF Made, TrueChildren
<1>3. /\ root \in Family /\ Family \subseteq Ids
      /\ \A a \in Family, b \in Ids : b \in TrueChildren[a] => b \in Family
  BY <1>2, ReachStep DEF Family
<1>4. \A b \in Family : b # root => \E a \in Family : b \in TrueChildren[a]
  BY <1>2, ReachParent DEF Family
<1>5. \A a \in Ids, b \in Ids : b \in TrueChildren[a] <=> b \in Made /\ proc[b].parent = a
  BY <1>2 DEF TrueChildren
<1>6. ASSUME NEW b \in Family, b # root PROVE b \in Made /\ proc[b].parent \in Family
  BY <1>3, <1>4, <1>5, <1>6
<1>7. Family \subseteq Made
  BY <1>1, <1>6
<1> QED BY <1>1, <1>2, <1>3, <1>5, <1>6, <1>7

(* When the telemetry tells the sample's process, the root is found.       *)
LEMMA RootFound ==
  ASSUME IInv, root # Outside, RootIsTold
  PROVE  RootGuids = {root}
<1>1. root \in OwnGuids
  BY DEF RootIsTold, OwnGuids, RootPid
<1> DEFINE byImage == {i \in OwnGuids : hasImage /\ proc[i].launcher}
<1>2. CASE hasImage /\ \A i \in Others : ~proc[i].launcher
  <2>1. byImage = {root}
    BY <1>1, <1>2 DEF Others, IInv, RootRunsLauncher
  <2> QED BY <2>1 DEF RootGuids
<1>3. CASE ~hasImage /\ ParentGuids = {root}
  BY <1>3 DEF RootGuids
<1>4. CASE OwnGuids = {root} /\ ParentGuids \subseteq {root}
  <2>1. byImage = {} \/ byImage = {root}
    BY <1>4
  <2>2. ParentGuids = {} \/ ParentGuids = {root}
    BY <1>4
  <2> QED BY <1>4, <2>1, <2>2 DEF RootGuids
<1> QED BY <1>2, <1>3, <1>4 DEF RootIsTold

LEMMA GuidsIn ==
  ASSUME IInv, root # Outside
  PROVE  /\ RootPid \in Pids /\ RootPid # Outside
         /\ RootGuids \subseteq Ids /\ Guids \subseteq Ids
         /\ \A a \in Ids : GuidChildren[a] \subseteq Creates /\ GuidChildren[a] \subseteq Ids
<1>1. RootPid \in Pids /\ RootPid # Outside
  BY FamilyFacts, MadeIn, LineageAssumption DEF RootPid, IInv, Process, Outside
<1>2. OwnGuids \subseteq Ids /\ Creates \subseteq Ids
  BY DEF OwnGuids, Creates, Made
<1>3. ParentGuids \subseteq Ids
  BY <1>1 DEF ParentGuids, PidOf
<1>4. RootGuids \subseteq Ids
  BY <1>2, <1>3 DEF RootGuids
<1>5. Guids \subseteq Ids
  BY DEF Guids, Reach
<1>6. \A a \in Ids : GuidChildren[a] \subseteq Creates
  BY DEF GuidChildren
<1> QED BY <1>1, <1>2, <1>4, <1>5, <1>6

(* Who is found by guid descends from the sample ...                       *)
LEMMA GuidsInFamily ==
  ASSUME IInv, root # Outside, RootIsTold
  PROVE  Guids \subseteq Family
<1>1. RootGuids \subseteq Family /\ Family \in SUBSET Ids
  BY RootFound, FamilyFacts DEF Made
<1>2. Closed(Family, GuidChildren)
  BY FamilyFacts DEF Closed, GuidChildren, Creates, Made
<1> QED BY <1>1, <1>2, ReachLeast DEF Guids

(* ... and all who do are found, when none of their events is lost.        *)
LEMMA FamilyInGuids ==
  ASSUME IInv, root # Outside, RootIsTold, hasGuids, Family \subseteq Creates
  PROVE  Family \subseteq Guids
<1> DEFINE S == {i \in Ids : i \in Family => i \in Guids}
<1>1. /\ root \in Guids
      /\ \A a \in Guids, b \in Ids : b \in GuidChildren[a] => b \in Guids
  BY RootFound, GuidsIn, ReachStep DEF Guids
<1>2. root \in S /\ S \in SUBSET Ids
  BY <1>1, FamilyFacts DEF Made
<1>3. Closed(S, TrueChildren)
  <2> SUFFICES ASSUME NEW a \in S, NEW b \in TrueChildren[a], b \in Family, b # root
               PROVE  b \in Guids
    BY <1>1, <1>2 DEF Closed, TrueChildren, Made
  <2>1. a \in Ids /\ b \in Made /\ b \in Ids /\ proc[b].parent = a
    BY DEF TrueChildren, Made
  <2>2. a \in Family
    BY <2>1, FamilyFacts
  <2>3. a \in Guids
    BY <2>2
  <2>4. b \in GuidChildren[a]
    BY <2>1 DEF GuidChildren
  <2> QED BY <1>1, <2>1, <2>3, <2>4
<1>4. Family \subseteq S
  <2> HIDE DEF S
  <2> QED BY <1>2, <1>3, ReachLeast DEF Family
<1> QED BY <1>4

LEMMA InvNoOutsider == IInv => NoOutsider
<1> SUFFICES ASSUME IInv, root # Outside, hasGuids, RootIsTold,
                    NEW i \in Made \ Family, ContainsEvent(i, TRUE)
             PROVE  FALSE
  BY DEF NoOutsider
<1>1. RootGuids = {root}
  BY RootFound
<1>2. root \in Guids
  BY <1>1, GuidsIn, ReachStep DEF Guids
<1> QED BY <1>2, GuidsInFamily DEF ContainsEvent

(* An event that carries the guid of a process which is not of the         *)
(* sample's tree is never put in scope, whatever pids were used again and  *)
(* whatever events were lost.                                              *)
THEOREM ScopeIsSound == Spec => []NoOutsider
BY Invariance, InvNoOutsider, PTL

-----------------------------------------------------------------------------
(* Without guids.                                                          *)
LEMMA Least ==
  ASSUME NEW S \in SUBSET Nat, S # {}
  PROVE  Earliest(S) \in S /\ \A u \in S : Earliest(S) <= u
<1> DEFINE R == OpToRel(<, Nat)
<1>1. IsWellFoundedOn(R, Nat)
  BY NatLessThanWellFounded
<1>2. \A x, y \in Nat : x < y => <<x, y>> \in R
  BY DEF OpToRel
<1>3. \E x \in S : \A y \in S : ~ (<<y, x>> \in R)
  <2> HIDE DEF R
  <2> QED BY <1>1, WFMin
<1>4. PICK x \in S : \A y \in S : ~ (<<y, x>> \in R)
  BY <1>3
<1>5. ASSUME NEW y \in S PROVE x <= y
  <2> HIDE DEF R
  <2>1. ~ (y < x)
    BY <1>2, <1>4
  <2> QED BY <2>1
<1> QED BY <1>5 DEF Earliest

(* The first creation of a pid, and the first end of one.                  *)
LEMMA FirstCreateIs ==
  ASSUME IInv, NEW i \in Creates, \A j \in Made : proc[j].pid = proc[i].pid => i <= j
  PROVE  FirstCreate(proc[i].pid) = i
<1> DEFINE S == {j \in Creates : proc[j].pid = proc[i].pid}
<1>1. S \in SUBSET Nat /\ i \in S /\ i \in Nat /\ S \subseteq Made
  BY MadeIn DEF Creates, IInv
<1>2. Earliest(S) \in S /\ Earliest(S) <= i
  BY <1>1, Least
<1>3. i <= Earliest(S) /\ Earliest(S) \in Nat
  BY <1>1, <1>2
<1>4. Earliest(S) = i
  BY <1>1, <1>2, <1>3
<1> QED BY <1>4 DEF FirstCreate

LEMMA FirstEndIs ==
  ASSUME IInv, NEW m \in Ends
  PROVE  /\ FirstEnd(proc[m].pid) \in Nat
         /\ FirstEnd(proc[m].pid) <= proc[m].death
         /\ \E k \in Ends : proc[k].pid = proc[m].pid /\ FirstEnd(proc[m].pid) = proc[k].death
<1> DEFINE S == {proc[i].death : i \in {j \in Ends : proc[j].pid = proc[m].pid}}
<1>1. S \in SUBSET Nat /\ proc[m].death \in S
  BY MadeIn DEF Ends, IInv, Process
<1>2. Earliest(S) \in S /\ Earliest(S) <= proc[m].death
  BY <1>1, Least
<1>3. FirstEnd(proc[m].pid) = Earliest(S)
  BY DEF FirstEnd
<1>4. Earliest(S) \in Nat
  BY <1>1, <1>2
<1>5. \E k \in Ends : proc[k].pid = proc[m].pid /\ Earliest(S) = proc[k].death
  BY <1>2
<1> QED BY <1>2, <1>3, <1>4, <1>5

(* A child of the first holder of a pid, and first holder of its own, is   *)
(* not too late.                                                           *)
LEMMA ChildIsInTime ==
  ASSUME IInv, NEW b \in Creates, NEW a \in Made, proc[b].parent = a, a # Outside,
         \A j \in Made : proc[j].pid = proc[a].pid => a <= j,
         \A j \in Made : proc[j].pid = proc[b].pid => b <= j
  PROVE  ~TooLate(proc[a].pid, proc[b].pid)
<1> SUFFICES ASSUME NEW i \in Ends, proc[i].pid = proc[a].pid
             PROVE  ~(proc[b].birth > FirstEnd(proc[a].pid) + Slack)
  BY FirstCreateIs DEF TooLate
<1>1. PICK k \in Ends : proc[k].pid = proc[a].pid /\ FirstEnd(proc[a].pid) = proc[k].death
  BY FirstEndIs
<1>2. k \in Made /\ b \in Made /\ ~proc[k].alive
  BY <1>1 DEF Ends, Creates, IInv, TimesArePast
<1>3. proc[a].death \in Nat /\ proc[k].death \in Nat /\ proc[b].birth \in Nat /\ Slack \in Nat
      /\ a \in Nat /\ k \in Nat
  BY <1>2, MadeIn, LineageAssumption DEF IInv, Process
<1>4. ~proc[a].alive /\ proc[a].death <= proc[k].death
  <2>1. CASE k = a
    BY <2>1, <1>2, <1>3
  <2>2. CASE k # a
    <3>1. a < k
      BY <2>2, <1>1, <1>2, <1>3
    <3> QED BY <3>1, <1>1, <1>2 DEF IInv, HoldersFollow
  <2> QED BY <2>1, <2>2
<1>5. proc[b].birth <= proc[a].death + Slack
  BY <1>2, <1>4 DEF IInv, ParentsComeFirst
<1> QED BY <1>1, <1>3, <1>4, <1>5

LEMMA FamilyInPids ==
  ASSUME IInv, root # Outside, Guids = {}, Family \subseteq Creates,
         \A i \in Family, j \in Made : proc[j].pid = proc[i].pid => i <= j
  PROVE  \A i \in Family : proc[i].pid \in LineagePids
<1> DEFINE S == {i \in Ids : i \in Family => proc[i].pid \in LineagePids}
<1>1. LineagePids = Reach(Pids, {RootPid}, PidChildren)
  BY DEF LineagePids
<1>2. /\ RootPid \in LineagePids
      /\ \A p \in LineagePids, c \in Pids : c \in PidChildren[p] => c \in LineagePids
      /\ LineagePids \subseteq Pids
  <2>1. {RootPid} \in SUBSET Pids
    BY GuidsIn
  <2>2. ASSUME NEW child
        PROVE  /\ {RootPid} \subseteq Reach(Pids, {RootPid}, child)
               /\ Reach(Pids, {RootPid}, child) \subseteq Pids
               /\ \A p \in Reach(Pids, {RootPid}, child), c \in Pids :
                    c \in child[p] => c \in Reach(Pids, {RootPid}, child)
    BY <2>1, ReachStep
  <2> QED BY <1>1, <2>2
<1>3. root \in S /\ S \in SUBSET Ids
  BY <1>2, FamilyFacts DEF RootPid, Made
<1>4. Closed(S, TrueChildren)
  <2> SUFFICES ASSUME NEW a \in S, NEW b \in TrueChildren[a], b \in Family, b # root
               PROVE  proc[b].pid \in LineagePids
    BY <1>2, <1>3 DEF Closed, TrueChildren, Made, RootPid
  <2>1. a \in Ids /\ b \in Made /\ proc[b].parent = a
    BY DEF TrueChildren
  <2>2. a \in Family /\ a \in Made /\ a # Outside
    BY <2>1, FamilyFacts DEF Ids, Outside
  <2>3. proc[a].pid \in LineagePids /\ proc[a].pid \in Pids /\ proc[b].pid \in Pids
    BY <2>1, <2>2, MadeIn DEF IInv, Process
  <2>4. ~TooLate(proc[a].pid, proc[b].pid)
    BY <2>1, <2>2, ChildIsInTime
  <2>5. proc[b].pid \in PidChildren[proc[a].pid]
    BY <2>1, <2>2, <2>3, <2>4 DEF PidChildren, PidOf
  <2> QED BY <1>2, <2>3, <2>5
<1>5. Family \subseteq S
  <2> HIDE DEF S
  <2> QED BY <1>3, <1>4, ReachLeast DEF Family
<1> QED BY <1>5, FamilyFacts DEF Made

LEMMA InvFamilyInScope == IInv => FamilyInScope
<1> SUFFICES ASSUME IInv, root # Outside, Family \subseteq Creates,
                    hasGuids \/ \A i \in Family, j \in Made : proc[j].pid = proc[i].pid => i <= j,
                    NEW i \in Family, NEW withGuid \in BOOLEAN,
                    withGuid => hasGuids, hasGuids => RootIsTold
             PROVE  ContainsEvent(i, withGuid)
  BY DEF FamilyInScope
<1>1. CASE hasGuids
  <2>1. i \in Guids
    BY <1>1, FamilyInGuids
  <2>2. proc[i].pid \in LineagePids
    BY <2>1 DEF LineagePids
  <2> QED BY <2>1, <2>2 DEF ContainsEvent
<1>2. CASE ~hasGuids
  <2>1. Guids = {}
    BY <1>2 DEF Guids
  <2> QED BY <2>1, <1>2, FamilyInPids DEF ContainsEvent
<1> QED BY <1>1, <1>2

(* When none of their creations is lost, all events of the sample's        *)
(* processes are in scope: with guids always, without them as long as no   *)
(* member's pid had an earlier holder.                                     *)
THEOREM ScopeIsComplete == Spec => []FamilyInScope
BY Invariance, InvFamilyInScope, PTL

LEMMA InvLaterHolders == IInv => LaterHoldersStayOut
<1> SUFFICES ASSUME IInv, root # Outside, ~hasGuids, NEW i \in Made \ Family,
                    \A j \in Made \ {i} : proc[j].pid # proc[i].pid,
                    NEW m \in Family \cap Ends,
                    PidOf(proc[i].parent) = proc[m].pid,
                    proc[i].birth > proc[m].death + Slack,
                    ContainsEvent(i, FALSE)
             PROVE  FALSE
  BY DEF LaterHoldersStayOut
<1> DEFINE S == Pids \ {proc[i].pid}
<1>1. LineagePids = Reach(Pids, {RootPid}, PidChildren) /\ proc[i].pid \in LineagePids
  BY DEF LineagePids, ContainsEvent, Guids
<1>2. RootPid \in S
  <2>1. root \in Made \ {i}
    BY FamilyFacts
  <2>2. RootPid # proc[i].pid
    BY <2>1 DEF RootPid
  <2> QED BY <2>2, GuidsIn
<1>3. Closed(S, PidChildren)
  <2> SUFFICES ASSUME NEW p \in S, proc[i].pid \in PidChildren[p] PROVE FALSE
    BY DEF Closed, PidChildren
  <2>1. /\ \E k \in Creates : proc[k].pid = proc[i].pid /\ PidOf(proc[k].parent) = p
        /\ ~TooLate(p, proc[i].pid)
    BY DEF PidChildren
  <2>2. i \in Creates /\ p = proc[m].pid
    BY <2>1 DEF Creates
  <2>3. FirstCreate(proc[i].pid) = i
    <3>1. \A j \in Made : proc[j].pid = proc[i].pid => i <= j
      BY MadeIn DEF IInv
    <3> QED BY <2>2, <3>1, FirstCreateIs
  <2>4. FirstEnd(p) \in Nat /\ FirstEnd(p) <= proc[m].death /\ proc[m].death \in Nat
        /\ proc[i].birth \in Nat /\ Slack \in Nat
    BY <2>2, FirstEndIs, MadeIn, LineageAssumption DEF IInv, Process, Ends
  <2>5. proc[i].birth > FirstEnd(p) + Slack
    BY <2>4
  <2>6. \E k \in Ends : proc[k].pid = p
    BY <2>2
  <2> QED BY <2>1, <2>3, <2>5, <2>6 DEF TooLate
<1>4. LineagePids \subseteq S
  <2> HIDE DEF S
  <2>1. {RootPid} \subseteq S /\ S \in SUBSET Pids
    BY <1>2 DEF S
  <2> QED BY <2>1, <1>1, <1>3, ReachLeast
<1> QED BY <1>1, <1>4

(* Without guids, the children of whoever got a member's pid afterwards    *)
(* stay out of scope.                                                      *)
THEOREM SuccessorsAreOut == Spec => []LaterHoldersStayOut
BY Invariance, InvLaterHolders, PTL
==============================================================================
