---------------------------- MODULE ConsoleProofs ----------------------------
(***************************************************************************)
(* Safety of the console for any numbers of request threads and sessions   *)
(* and any failure limit.  The second part is about its input channel, for *)
(* any numbers of senders, sessions, commands and faults and any size of   *)
(* the helper's stdin.                                                     *)
(***************************************************************************)
EXTENDS Console, ConsoleInput, SequenceTheorems, FiniteSetTheorems, TLAPS

(* _lock is held by exactly the thread that is in open() or close(), and   *)
(* what that thread does fits the session's state.                         *)
LockHolders ==
  /\ \A u \in Users : pc[u] # "idle" <=> lock = u
  /\ \A s \in Sessions : loop[s] = "stopping" <=> lock = s
  /\ \A u \in Users :
       /\ pc[u] = "deploying" =>
            ~open /\ helper \in {None} \cup orphans /\ session < MaxSessions
       /\ pc[u] = "screeninfo" =>
            /\ ~open /\ helper = session
            /\ session \in Sessions /\ loop[session] = "none"
       /\ pc[u] = "opening" =>
            /\ ~open /\ helper = session
            /\ session \in Sessions /\ loop[session] \notin {"none", "ended"}
       /\ pc[u] = "closing" => open
  /\ \A s \in Sessions : loop[s] = "stopping" => open

(* The helper that runs is the one _helper names, or was left by a thread  *)
(* start that failed; the one named belongs to the open session, to an     *)
(* open() or close() that is under way, or was left, too.                  *)
HelperIsNamed ==
  /\ alive \subseteq {helper} \cup orphans
  /\ lock = None /\ ~open => helper \in {None} \cup orphans

(* A loop that has not been started has no failures, and one that goes on  *)
(* has fewer than the limit; sessions not begun have no loop.              *)
LoopsInBounds ==
  \A s \in Sessions :
    /\ loop[s] = "none" => failures[s] = 0
    /\ loop[s] \in {"enter", "test", "capturing"} => failures[s] < MaxFailures
    /\ s > session => loop[s] = "none"

(* The last usage window is open while the console is, and no input is     *)
(* outside the windows that the report will ask about.                     *)
WindowsCoverInput ==
  /\ using = open
  /\ run = "none" => ~touched
  /\ touched /\ run \in {"running", "ending"} => using \/ closedIn

IInv ==
  /\ TypeOK
  /\ LockHolders
  /\ HelperIsNamed
  /\ LoopsInBounds
  /\ WindowsCoverInput
  /\ OpenIsWatched
  /\ TouchedIsTagged

-----------------------------------------------------------------------------
(* One lemma per action.  Where a proof does not mention LockHolders, the  *)
(* action's own guards say enough about who holds the lock.                *)
USE DEF None, Sessions, sessionVars, runVars

LEMMA OpenStartsIInv ==
  ASSUME IInv, NEW u \in Users, OpenStarts(u)
  PROVE  IInv'
<1>1. TypeOK' /\ LoopsInBounds'
  BY DEF IInv, TypeOK, LoopsInBounds, Goto, OpenStarts
<1>2. LockHolders'
  BY ConsoleAssumption DEF IInv, TypeOK, LockHolders, HelperIsNamed, Goto,
         OpenStarts
<1>3. HelperIsNamed'
  BY DEF IInv, HelperIsNamed, OpenStarts
<1>4. OpenIsWatched'
  BY DEF IInv, OpenIsWatched, OpenStarts
<1>5. WindowsCoverInput' /\ TouchedIsTagged'
  BY DEF IInv, WindowsCoverInput, TouchedIsTagged, OpenStarts
<1> QED
  BY <1>1, <1>2, <1>3, <1>4, <1>5 DEF IInv

LEMMA DeployFailsIInv ==
  ASSUME IInv, NEW u \in Users, DeployFails(u)
  PROVE  IInv'
<1>1. TypeOK' /\ LoopsInBounds'
  BY DEF IInv, TypeOK, LoopsInBounds, Goto, DeployFails
<1>2. LockHolders'
  BY ConsoleAssumption DEF IInv, TypeOK, LockHolders, Goto, DeployFails
<1>3. HelperIsNamed'
  BY DEF IInv, LockHolders, HelperIsNamed, DeployFails
<1>4. OpenIsWatched'
  BY DEF IInv, OpenIsWatched, DeployFails
<1>5. WindowsCoverInput' /\ TouchedIsTagged'
  BY DEF IInv, WindowsCoverInput, TouchedIsTagged, DeployFails
<1> QED
  BY <1>1, <1>2, <1>3, <1>4, <1>5 DEF IInv

LEMMA SpawnHelperIInv ==
  ASSUME IInv, NEW u \in Users, SpawnHelper(u)
  PROVE  IInv'
<1>1. TypeOK' /\ LoopsInBounds'
  BY ConsoleAssumption DEF IInv, TypeOK, LockHolders, LoopsInBounds, Goto,
         SpawnHelper
<1>2. LockHolders'
  BY ConsoleAssumption DEF IInv, TypeOK, LockHolders, LoopsInBounds, Goto,
         SpawnHelper
<1>3. HelperIsNamed'
  <2>1. alive \subseteq orphans /\ lock = u /\ u # None
    BY ConsoleAssumption DEF IInv, TypeOK, LockHolders, HelperIsNamed,
           SpawnHelper
  <2>2. lock' = u /\ orphans' = orphans /\ alive' = alive \cup {helper'}
    BY <2>1 DEF SpawnHelper
  <2> QED
    BY <2>1, <2>2 DEF HelperIsNamed
<1>4. OpenIsWatched'
  BY DEF IInv, LockHolders, OpenIsWatched, SpawnHelper
<1>5. WindowsCoverInput' /\ TouchedIsTagged'
  BY DEF IInv, WindowsCoverInput, TouchedIsTagged, SpawnHelper
<1> QED
  BY <1>1, <1>2, <1>3, <1>4, <1>5 DEF IInv

LEMMA ScreenInfoFailsIInv ==
  ASSUME IInv, NEW u \in Users, ScreenInfoFails(u)
  PROVE  IInv'
<1>1. TypeOK' /\ LoopsInBounds'
  BY ConsoleAssumption DEF IInv, TypeOK, LoopsInBounds, Goto, ScreenInfoFails
<1>2. LockHolders'
  BY ConsoleAssumption DEF IInv, TypeOK, LockHolders, Goto, ScreenInfoFails
<1>3. HelperIsNamed'
  BY DEF IInv, HelperIsNamed, ScreenInfoFails
<1>4. OpenIsWatched'
  BY DEF IInv, OpenIsWatched, ScreenInfoFails
<1>5. WindowsCoverInput' /\ TouchedIsTagged'
  BY DEF IInv, WindowsCoverInput, TouchedIsTagged, ScreenInfoFails
<1> QED
  BY <1>1, <1>2, <1>3, <1>4, <1>5 DEF IInv

LEMMA ReaderStartFailsIInv ==
  ASSUME IInv, NEW u \in Users, ReaderStartFails(u)
  PROVE  IInv'
<1>1. /\ session < MaxSessions /\ session \in Nat /\ ~open /\ lock = u
  BY DEF IInv, TypeOK, LockHolders, ReaderStartFails
<1>2. TypeOK' /\ LoopsInBounds'
  BY <1>1, ConsoleAssumption DEF IInv, TypeOK, LoopsInBounds, Goto,
         ReaderStartFails
<1>3. LockHolders'
  BY <1>1, ConsoleAssumption DEF IInv, TypeOK, LockHolders, Goto,
         ReaderStartFails
<1>4. HelperIsNamed'
  <2>1. alive \subseteq orphans
    BY DEF IInv, TypeOK, LockHolders, HelperIsNamed, ReaderStartFails
  <2> QED
    BY <2>1 DEF HelperIsNamed, ReaderStartFails
<1>5. OpenIsWatched'
  BY <1>1 DEF OpenIsWatched, ReaderStartFails
<1>6. WindowsCoverInput' /\ TouchedIsTagged'
  BY DEF IInv, WindowsCoverInput, TouchedIsTagged, ReaderStartFails
<1> QED
  BY <1>2, <1>3, <1>4, <1>5, <1>6 DEF IInv

LEMMA LoopStartsIInv ==
  ASSUME IInv, NEW u \in Users, LoopStarts(u)
  PROVE  IInv'
<1>1. /\ session \in Sessions /\ loop[session] = "none"
      /\ failures[session] = 0 /\ ~open /\ lock = u /\ helper = session
  BY DEF IInv, LockHolders, LoopsInBounds, LoopStarts
<1>2. TypeOK'
  BY <1>1 DEF IInv, TypeOK, Goto, LoopAt, LoopStarts
<1>3. LoopsInBounds'
  BY <1>1, ConsoleAssumption DEF IInv, LoopsInBounds, LoopAt, LoopStarts
<1>4. LockHolders'
  BY <1>1, ConsoleAssumption DEF IInv, TypeOK, LockHolders, Goto, LoopAt,
         LoopStarts
<1>5. HelperIsNamed'
  BY <1>1 DEF IInv, HelperIsNamed, LoopStarts
<1>6. OpenIsWatched'
  BY <1>1 DEF OpenIsWatched, LoopStarts
<1>7. WindowsCoverInput' /\ TouchedIsTagged'
  BY DEF IInv, WindowsCoverInput, TouchedIsTagged, LoopStarts
<1> QED
  BY <1>2, <1>3, <1>4, <1>5, <1>6, <1>7 DEF IInv

LEMMA LoopStartFailsIInv ==
  ASSUME IInv, NEW u \in Users, LoopStartFails(u)
  PROVE  IInv'
<1>1. helper \in Sessions /\ ~open /\ lock = u
  BY DEF IInv, LockHolders, LoopStartFails
<1>2. TypeOK' /\ LoopsInBounds'
  BY <1>1 DEF IInv, TypeOK, LoopsInBounds, Goto, LoopStartFails
<1>3. LockHolders'
  BY <1>1, ConsoleAssumption DEF IInv, TypeOK, LockHolders, Goto,
         LoopStartFails
<1>4. HelperIsNamed'
  BY DEF IInv, HelperIsNamed, LoopStartFails
<1>5. OpenIsWatched'
  BY <1>1 DEF OpenIsWatched, LoopStartFails
<1>6. WindowsCoverInput' /\ TouchedIsTagged'
  BY DEF IInv, WindowsCoverInput, TouchedIsTagged, LoopStartFails
<1> QED
  BY <1>2, <1>3, <1>4, <1>5, <1>6 DEF IInv

LEMMA OpenEndsIInv ==
  ASSUME IInv, NEW u \in Users, OpenEnds(u)
  PROVE  IInv'
<1>1. /\ session \in Sessions /\ loop[session] \notin {"none", "ended"}
      /\ ~open /\ lock = u
      /\ \A s \in Sessions : loop[s] # "stopping"
      /\ \A v \in Users : v # u => pc[v] = "idle"
  BY ConsoleAssumption DEF IInv, LockHolders, OpenEnds
<1>2. TypeOK' /\ LoopsInBounds'
  BY DEF IInv, TypeOK, LoopsInBounds, Goto, OpenEnds
<1>3. LockHolders'
  <2>1. lock' = None /\ loop' = loop /\ \A v \in Users : pc'[v] = "idle"
    BY <1>1 DEF IInv, TypeOK, Goto, OpenEnds
  <2> QED
    BY <1>1, <2>1, ConsoleAssumption DEF LockHolders
<1>4. HelperIsNamed'
  BY DEF IInv, HelperIsNamed, OpenEnds
<1>5. OpenIsWatched'
  BY <1>1 DEF OpenIsWatched, OpenEnds
<1>6. WindowsCoverInput' /\ TouchedIsTagged'
  BY DEF IInv, WindowsCoverInput, TouchedIsTagged, OpenEnds
<1> QED
  BY <1>2, <1>3, <1>4, <1>5, <1>6 DEF IInv

LEMMA CloseStartsIInv ==
  ASSUME IInv, NEW u \in Users, CloseStarts(u)
  PROVE  IInv'
<1>1. TypeOK' /\ LoopsInBounds'
  BY DEF IInv, TypeOK, LoopsInBounds, Goto, CloseStarts
<1>2. LockHolders'
  BY SMTT(30), ConsoleAssumption DEF IInv, TypeOK, LockHolders, Goto, CloseStarts
<1>3. HelperIsNamed'
  BY DEF IInv, HelperIsNamed, CloseStarts
<1>4. OpenIsWatched'
  BY DEF IInv, OpenIsWatched, CloseStarts
<1>5. WindowsCoverInput' /\ TouchedIsTagged'
  BY DEF IInv, WindowsCoverInput, TouchedIsTagged, CloseStarts
<1> QED
  BY <1>1, <1>2, <1>3, <1>4, <1>5 DEF IInv

LEMMA CloseEndsIInv ==
  ASSUME IInv, NEW u \in Users, CloseEnds(u)
  PROVE  IInv'
<1>1. /\ u \notin Sessions /\ u # None /\ lock = u
      /\ \A s \in Sessions : loop[s] # "stopping"
      /\ \A v \in Users : v # u => pc[v] = "idle"
  BY ConsoleAssumption DEF IInv, LockHolders, CloseEnds
<1>2. TypeOK'
  <2>1. closedIn' \in BOOLEAN
    BY ZenonT(20) DEF IInv, Closed, CloseEnds
  <2>2. pc' \in [Users -> {"idle", "deploying", "screeninfo", "opening",
                          "closing"}]
    BY DEF IInv, TypeOK, Goto, CloseEnds
  <2>3. /\ lock' = None /\ helper' \in 0 .. MaxSessions /\ alive' \subseteq Sessions
        /\ open' = FALSE /\ using' = FALSE
    BY ConsoleAssumption DEF IInv, TypeOK, Closed, CloseEnds
  <2> QED
    BY <2>1, <2>2, <2>3, Zenon DEF IInv, TypeOK, CloseEnds
<1>3. LoopsInBounds'
  BY DEF IInv, LoopsInBounds, CloseEnds
<1>4. LockHolders'
  <2>1. lock' = None /\ loop' = loop /\ \A v \in Users : pc'[v] = "idle"
    BY <1>1 DEF IInv, TypeOK, Closed, Goto, CloseEnds
  <2> QED
    BY <1>1, <2>1, ConsoleAssumption DEF LockHolders
<1>5. HelperIsNamed'
  BY DEF IInv, HelperIsNamed, Closed, CloseEnds
<1>6. OpenIsWatched'
  BY DEF OpenIsWatched, Closed, CloseEnds
<1>7. WindowsCoverInput' /\ TouchedIsTagged'
  BY DEF IInv, WindowsCoverInput, TouchedIsTagged, Closed, CloseEnds
<1> QED
  BY <1>2, <1>3, <1>4, <1>5, <1>6, <1>7 DEF IInv

LEMMA LoopEntersIInv ==
  ASSUME IInv, NEW s \in Sessions, LoopEnters(s)
  PROVE  IInv'
<1>1. TypeOK' /\ LoopsInBounds'
  BY DEF IInv, TypeOK, LoopsInBounds, LoopAt, LoopEnters
<1>2. LockHolders'
  BY DEF IInv, LockHolders, LoopAt, LoopEnters
<1>3. HelperIsNamed'
  BY DEF IInv, HelperIsNamed, LoopEnters
<1>4. OpenIsWatched'
  BY DEF IInv, OpenIsWatched, LoopAt, LoopEnters
<1>5. WindowsCoverInput' /\ TouchedIsTagged'
  BY DEF IInv, WindowsCoverInput, TouchedIsTagged, LoopEnters
<1> QED
  BY <1>1, <1>2, <1>3, <1>4, <1>5 DEF IInv

LEMMA LoopDiesIInv ==
  ASSUME IInv, NEW s \in Sessions, LoopDies(s)
  PROVE  IInv'
<1>1. TypeOK' /\ LoopsInBounds'
  BY DEF IInv, TypeOK, LoopsInBounds, LoopAt, LoopDies
<1>2. LockHolders'
  BY DEF IInv, LockHolders, LoopAt, LoopDies
<1>3. HelperIsNamed'
  BY DEF IInv, HelperIsNamed, LoopDies
<1>4. OpenIsWatched'
  BY DEF IInv, OpenIsWatched, LoopAt, LoopDies
<1>5. WindowsCoverInput' /\ TouchedIsTagged'
  BY DEF IInv, WindowsCoverInput, TouchedIsTagged, LoopDies
<1> QED
  BY <1>1, <1>2, <1>3, <1>4, <1>5 DEF IInv

LEMMA LoopTestsIInv ==
  ASSUME IInv, NEW s \in Sessions, LoopTests(s)
  PROVE  IInv'
<1>1. TypeOK' /\ LoopsInBounds'
  BY DEF IInv, TypeOK, LoopsInBounds, LoopAt, LoopTests
<1>2. LockHolders'
  BY DEF IInv, LockHolders, LoopAt, LoopTests
<1>3. HelperIsNamed'
  BY DEF IInv, HelperIsNamed, LoopTests
<1>4. OpenIsWatched'
  BY DEF IInv, OpenIsWatched, LoopAt, LoopTests
<1>5. WindowsCoverInput' /\ TouchedIsTagged'
  BY DEF IInv, WindowsCoverInput, TouchedIsTagged, LoopTests
<1> QED
  BY <1>1, <1>2, <1>3, <1>4, <1>5 DEF IInv

LEMMA LoopCapturesIInv ==
  ASSUME IInv, NEW s \in Sessions, LoopCaptures(s)
  PROVE  IInv'
<1>1. TypeOK' /\ LoopsInBounds'
  BY ConsoleAssumption DEF IInv, TypeOK, LoopsInBounds, LoopAt, LoopCaptures
<1>2. LockHolders'
  BY DEF IInv, LockHolders, LoopAt, LoopCaptures
<1>3. HelperIsNamed'
  BY DEF IInv, HelperIsNamed, LoopCaptures
<1>4. OpenIsWatched'
  BY DEF IInv, OpenIsWatched, LoopAt, LoopCaptures
<1>5. WindowsCoverInput' /\ TouchedIsTagged'
  BY DEF IInv, WindowsCoverInput, TouchedIsTagged, LoopCaptures
<1> QED
  BY <1>1, <1>2, <1>3, <1>4, <1>5 DEF IInv

LEMMA LoopFailsIInv ==
  ASSUME IInv, NEW s \in Sessions, LoopFails(s)
  PROVE  IInv'
<1>1. TypeOK' /\ LoopsInBounds'
  BY ConsoleAssumption DEF IInv, TypeOK, LoopsInBounds, LoopAt, LoopFails
<1>2. LockHolders'
  BY DEF IInv, LockHolders, LoopAt, LoopFails
<1>3. HelperIsNamed'
  BY DEF IInv, HelperIsNamed, LoopFails
<1>4. OpenIsWatched'
  BY DEF IInv, OpenIsWatched, LoopAt, LoopFails
<1>5. WindowsCoverInput' /\ TouchedIsTagged'
  BY DEF IInv, WindowsCoverInput, TouchedIsTagged, LoopFails
<1> QED
  BY <1>1, <1>2, <1>3, <1>4, <1>5 DEF IInv

LEMMA LoopLeavesIInv ==
  ASSUME IInv, NEW s \in Sessions, LoopLeaves(s)
  PROVE  IInv'
<1>1. TypeOK' /\ LoopsInBounds'
  BY DEF IInv, TypeOK, LoopsInBounds, LoopAt, Over, LoopLeaves
<1>2. LockHolders'
  <2>1. /\ lock' = lock /\ open' = open /\ helper' = helper /\ pc' = pc
        /\ session' = session /\ orphans' = orphans
        /\ \A r \in Sessions : r # s => loop'[r] = loop[r]
        /\ loop[s] = "leaving" /\ loop'[s] \in {"closing", "lost", "ended"}
        /\ (\E u \in Users : pc[u] = "opening") /\ s = session =>
             loop'[s] \in {"closing", "lost"}
    BY DEF IInv, TypeOK, LoopAt, Over, LoopLeaves
  <2> QED
    BY <2>1 DEF IInv, LockHolders
<1>3. HelperIsNamed'
  BY DEF IInv, HelperIsNamed, LoopLeaves
<1>4. OpenIsWatched'
  BY DEF IInv, OpenIsWatched, LoopAt, LoopLeaves
<1>5. WindowsCoverInput' /\ TouchedIsTagged'
  BY DEF IInv, WindowsCoverInput, TouchedIsTagged, LoopLeaves
<1> QED
  BY <1>1, <1>2, <1>3, <1>4, <1>5 DEF IInv

LEMMA LoopClosesIInv ==
  ASSUME IInv, NEW s \in Sessions, LoopCloses(s)
  PROVE  IInv'
<1>1. /\ s \notin Users /\ s # None
      /\ \A r \in Sessions : loop[r] # "stopping"
      /\ \A u \in Users : pc[u] = "idle"
  BY ConsoleAssumption DEF IInv, LockHolders, LoopCloses
<1>2. TypeOK' /\ LoopsInBounds'
  BY DEF IInv, TypeOK, LoopsInBounds, LoopAt, LoopCloses
<1>3. LockHolders'
  <2>1. /\ lock' = s /\ open' /\ pc' = pc
        /\ \A r \in Sessions : loop'[r] = IF r = s THEN "stopping" ELSE loop[r]
    BY DEF IInv, TypeOK, LoopAt, LoopCloses
  <2> QED
    BY <1>1, <2>1 DEF LockHolders
<1>4. HelperIsNamed'
  BY <1>1 DEF IInv, HelperIsNamed, LoopCloses
<1>5. OpenIsWatched'
  BY DEF IInv, OpenIsWatched, LoopAt, LoopCloses
<1>6. WindowsCoverInput' /\ TouchedIsTagged'
  BY DEF IInv, WindowsCoverInput, TouchedIsTagged, LoopCloses
<1> QED
  BY <1>2, <1>3, <1>4, <1>5, <1>6 DEF IInv

LEMMA LoopFindsItClosedIInv ==
  ASSUME IInv, NEW s \in Sessions, LoopFindsItClosed(s)
  PROVE  IInv'
<1>1. TypeOK' /\ LoopsInBounds'
  BY DEF IInv, TypeOK, LoopsInBounds, LoopAt, LoopFindsItClosed
<1>2. LockHolders'
  BY ConsoleAssumption DEF IInv, LockHolders, LoopAt, LoopFindsItClosed
<1>3. HelperIsNamed'
  BY DEF IInv, HelperIsNamed, LoopFindsItClosed
<1>4. OpenIsWatched'
  BY DEF IInv, OpenIsWatched, LoopFindsItClosed
<1>5. WindowsCoverInput' /\ TouchedIsTagged'
  BY DEF IInv, WindowsCoverInput, TouchedIsTagged, LoopFindsItClosed
<1> QED
  BY <1>1, <1>2, <1>3, <1>4, <1>5 DEF IInv

LEMMA LoopCloseEndsIInv ==
  ASSUME IInv, NEW s \in Sessions, LoopCloseEnds(s)
  PROVE  IInv'
<1>1. /\ s \notin Users /\ s # None /\ lock = s
      /\ \A r \in Sessions : r # s => loop[r] # "stopping"
      /\ \A u \in Users : pc[u] = "idle"
  BY ConsoleAssumption DEF IInv, LockHolders, LoopCloseEnds
<1>2. TypeOK'
  <2>1. closedIn' \in BOOLEAN
    BY ZenonT(20) DEF IInv, Closed, LoopCloseEnds
  <2>2. loop' \in [Sessions -> {"none", "enter", "test", "capturing", "leaving",
                               "closing", "stopping", "ended", "lost"}]
    BY DEF IInv, TypeOK, LoopAt, LoopCloseEnds
  <2>3. /\ lock' = None /\ helper' \in 0 .. MaxSessions /\ alive' \subseteq Sessions
        /\ open' = FALSE /\ using' = FALSE
    BY ConsoleAssumption DEF IInv, TypeOK, Closed, LoopCloseEnds
  <2> QED
    BY <2>1, <2>2, <2>3, Zenon DEF IInv, TypeOK, LoopCloseEnds
<1>3. LoopsInBounds'
  BY DEF IInv, LoopsInBounds, LoopAt, LoopCloseEnds
<1>4. LockHolders'
  <2>1. /\ lock' = None /\ pc' = pc
        /\ \A r \in Sessions : loop'[r] = IF r = s THEN "ended" ELSE loop[r]
    BY DEF IInv, TypeOK, Closed, LoopAt, LoopCloseEnds
  <2> QED
    BY <1>1, <2>1, ConsoleAssumption DEF LockHolders
<1>5. HelperIsNamed'
  BY DEF IInv, HelperIsNamed, Closed, LoopCloseEnds
<1>6. OpenIsWatched'
  BY DEF OpenIsWatched, Closed, LoopCloseEnds
<1>7. WindowsCoverInput' /\ TouchedIsTagged'
  BY DEF IInv, WindowsCoverInput, TouchedIsTagged, Closed, LoopCloseEnds
<1> QED
  BY <1>2, <1>3, <1>4, <1>5, <1>6, <1>7 DEF IInv

LEMMA HelperDiesIInv ==
  ASSUME IInv, NEW s \in Sessions, HelperDies(s)
  PROVE  IInv'
<1>1. TypeOK' /\ LoopsInBounds'
  BY DEF IInv, TypeOK, LoopsInBounds, HelperDies
<1>2. LockHolders'
  BY DEF IInv, LockHolders, HelperDies
<1>3. HelperIsNamed'
  BY DEF IInv, HelperIsNamed, HelperDies
<1>4. OpenIsWatched'
  BY DEF IInv, OpenIsWatched, HelperDies
<1>5. WindowsCoverInput' /\ TouchedIsTagged'
  BY DEF IInv, WindowsCoverInput, TouchedIsTagged, HelperDies
<1> QED
  BY <1>1, <1>2, <1>3, <1>4, <1>5 DEF IInv

LEMMA InputLandsIInv ==
  ASSUME IInv, NEW s \in Sessions, InputLands(s)
  PROVE  IInv'
<1>1. TypeOK' /\ LoopsInBounds'
  BY DEF IInv, TypeOK, LoopsInBounds, InputLands
<1>2. LockHolders'
  BY DEF IInv, LockHolders, InputLands
<1>3. HelperIsNamed'
  BY DEF IInv, HelperIsNamed, InputLands
<1>4. OpenIsWatched'
  BY DEF IInv, OpenIsWatched, InputLands
<1>5. WindowsCoverInput' /\ TouchedIsTagged'
  BY DEF IInv, WindowsCoverInput, TouchedIsTagged, InputLands
<1> QED
  BY <1>1, <1>2, <1>3, <1>4, <1>5 DEF IInv

(* The VM and the run on it touch neither threads nor helpers. *)
LEMMA RunIInv ==
  ASSUME IInv, VMGoesDown \/ RunStarts \/ RunStopsVM \/ RunReports
  PROVE  IInv'
<1> USE DEF VMGoesDown, RunStarts, RunStopsVM, RunReports
<1>1. TypeOK' /\ LoopsInBounds'
  BY ZenonT(30) DEF IInv, TypeOK, LoopsInBounds
<1>2. LockHolders' /\ HelperIsNamed' /\ OpenIsWatched'
  BY DEF IInv, LockHolders, HelperIsNamed, OpenIsWatched
<1>3. WindowsCoverInput' /\ TouchedIsTagged'
  BY DEF IInv, TypeOK, WindowsCoverInput, TouchedIsTagged
<1> QED
  BY <1>1, <1>2, <1>3 DEF IInv

-----------------------------------------------------------------------------
LEMMA InitIInv == Init => IInv
<1> SUFFICES ASSUME Init PROVE IInv
  OBVIOUS
<1>1. TypeOK
  <2>1. /\ lock = None /\ helper \in 0 .. MaxSessions /\ session \in 0 .. MaxSessions
        /\ loop = [s \in Sessions |-> "none"]
        /\ failures \in [Sessions -> 0 .. MaxFailures]
        /\ pc = [u \in Users |-> "idle"]
    BY ConsoleAssumption DEF Init
  <2> QED
    BY <2>1, Zenon DEF Init, TypeOK
<1>2. LockHolders /\ HelperIsNamed /\ LoopsInBounds
  BY ConsoleAssumption DEF Init, LockHolders, HelperIsNamed, LoopsInBounds
<1>3. WindowsCoverInput /\ OpenIsWatched /\ TouchedIsTagged
  BY DEF Init, WindowsCoverInput, OpenIsWatched, TouchedIsTagged
<1> QED
  BY <1>1, <1>2, <1>3 DEF IInv

LEMMA StutterIInv == IInv /\ UNCHANGED vars => IInv'
  BY DEF IInv, vars, TypeOK, LockHolders, HelperIsNamed, LoopsInBounds,
         WindowsCoverInput, OpenIsWatched, TouchedIsTagged

LEMMA Invariance == Spec => []IInv
<1>1. IInv /\ [Next]_vars => IInv'
  <2> SUFFICES ASSUME IInv, [Next]_vars PROVE IInv'
    OBVIOUS
  <2>1. ASSUME NEW u \in Users, OpenStarts(u) \/ CloseStarts(u) \/ UserStep(u)
        PROVE  IInv'
    BY <2>1, OpenStartsIInv, DeployFailsIInv, SpawnHelperIInv,
       ReaderStartFailsIInv, ScreenInfoFailsIInv, LoopStartsIInv,
       LoopStartFailsIInv, OpenEndsIInv, CloseStartsIInv, CloseEndsIInv
    DEF UserStep
  <2>2. ASSUME NEW s \in Sessions, LoopStep(s) \/ HelperDies(s) \/ InputLands(s)
        PROVE  IInv'
    BY <2>2, LoopEntersIInv, LoopDiesIInv, LoopTestsIInv, LoopCapturesIInv,
       LoopFailsIInv, LoopLeavesIInv, LoopClosesIInv, LoopFindsItClosedIInv, LoopCloseEndsIInv,
       HelperDiesIInv, InputLandsIInv
    DEF LoopStep
  <2>3. CASE VMGoesDown \/ RunStarts \/ RunStopsVM \/ RunReports
    BY <2>3, RunIInv
  <2>4. CASE UNCHANGED vars
    BY <2>4, StutterIInv
  <2> QED
    BY <2>1, <2>2, <2>3, <2>4 DEF Next
<1> QED
  BY InitIInv, <1>1, PTL DEF Spec

-----------------------------------------------------------------------------
(* Every reachable state is well typed: no session is begun and no loop    *)
(* counts its failures beyond the limit.                                   *)
THEOREM TypeCorrect == Spec => []TypeOK
<1>1. IInv => TypeOK
  BY DEF IInv
<1> QED
  BY <1>1, Invariance, PTL

(* open(), close() and the loops' own close() leave no helper process      *)
(* behind, for any number of request threads and of sessions, but that of  *)
(* an open() which ended as one of its threads did not start.              *)
THEOREM NoHelperIsLeft == Spec => []NoStrayHelper
<1>1. IInv => NoStrayHelper
  BY ConsoleAssumption DEF IInv, TypeOK, HelperIsNamed, NoStrayHelper
<1> QED
  BY <1>1, Invariance, PTL

(* While the console is open the loop of its own session is there to look  *)
(* at the VM, although old loops share the stop event and close consoles,  *)
(* unless it died as it began or was over before _open was set.            *)
THEOREM OpenConsoleIsWatched == Spec => []OpenIsWatched
<1>1. IInv => OpenIsWatched
  BY DEF IInv
<1> QED
  BY <1>1, Invariance, PTL

(* used_between() finds every run that a console user's input has reached, *)
(* also when the console was closed before the report was built.           *)
THEOREM InputIsTagged == Spec => []TouchedIsTagged
<1>1. IInv => TouchedIsTagged
  BY DEF IInv
<1> QED
  BY <1>1, Invariance, PTL

HIDE DEF None, Sessions, sessionVars, runVars

-----------------------------------------------------------------------------
(* THE INPUT CHANNEL                                                       *)
(*                                                                         *)
(* The inductive invariant says who has the console and the last helper    *)
(* (Roles), that only that helper lives (OneHelper), that commands lie     *)
(* ahead in the order of their numbers (InOrder), how many tries each has  *)
(* left (TwoTries), and where its acknowledgement is (AcksInPlace).        *)
States == {"none", "starting", "idle", "first", "second", "dead"}
Links == {"no", "up", "broken"}
Acks == [cmd : Commands \cup {0}, ok : BOOLEAN]

Live(h) == process[h].state \notin {"none", "dead"}
Stdin(h) == process[h].stdin
Stdout(h) == process[h].stdout

(* Who has the console, the helper and a queue.                            *)
Roles ==
  /\ written + Underway <= MaxCommands
  /\ stage[Opener] # "idle" <=> console = "opening"
  /\ IF console = "closed" THEN current = 0 ELSE current = spawned /\ spawned \in Helpers
  /\ \A t \in Threads :
       /\ stage[t] \in {"write", "written", "wait"} => uses[t] \in Helpers
       /\ stage[t] = "wait" => queue[t] \in Helpers /\ uses[t] <= queue[t]

(* Only the helper that was spawned last can be alive, and only a living   *)
(* helper has commands.                                                    *)
OneHelper ==
  \A h \in Helpers :
    /\ h > spawned => process[h] = NoProcess /\ acks[h] = <<>>
    /\ h <= spawned => process[h].state # "none"
    /\ Live(h) => h = spawned /\ console # "closed"
    /\ ~Live(h) => Stdin(h) = <<>>
    /\ Calling(h) => process[h].at \in Commands

(* Stdin ascends, above the command the helper is at, and that one is not  *)
(* below the last command that was handed to the guest's server.           *)
InOrder ==
  /\ latest <= written
  /\ \A h \in Helpers :
       /\ \A i \in DOMAIN Stdin(h) : latest < Stdin(h)[i] /\ Stdin(h)[i] <= written
       /\ \A i, j \in DOMAIN Stdin(h) : i < j => Stdin(h)[i] < Stdin(h)[j]
       /\ Calling(h) =>
            /\ latest <= process[h].at /\ process[h].at <= written
            /\ \A i \in DOMAIN Stdin(h) : process[h].at < Stdin(h)[i]

(* A command has two tries.  One that lies ahead is not adrift, and one    *)
(* that is ahead or adrift has not handed the command over yet.            *)
Ahead(c, try) ==
  \/ c > written
  \/ \E h \in Helpers :
       \/ \E i \in DOMAIN Stdin(h) : Stdin(h)[i] = c
       \/ /\ Calling(h) /\ process[h].at = c
          /\ process[h].state = "first" \/ try = "second"

Pending(c, try) == <<c, try>> \in adrift \/ Ahead(c, try)

Tries == {"first", "second"}

TwoTries ==
  \A c \in Commands :
    /\ \A try \in Tries : Ahead(c, try) => <<c, try>> \notin adrift
    /\ handed[c] <= 2
    /\ \A try \in Tries : Pending(c, try) => handed[c] <= 1
    /\ Pending(c, "first") /\ Pending(c, "second") => handed[c] = 0

(* In a session that has not gone astray there is at most one command on   *)
(* its way, and it is that of the thread in flight: in stdin, in a call,   *)
(* acknowledged in the pipe, in the queue, or gone with its helper.        *)
NoAck(q) == acks[q] = <<>>
NoOut(q) == \A i \in DOMAIN Stdout(q) : Stdout(q)[i].cmd = 0
NoLine(q) == Stdin(q) = <<>>
Fits(ack, c) == ack.cmd = c /\ (ack.ok => handed[c] > 0)

Nothing(q) == NoLine(q) /\ ~Calling(q) /\ NoOut(q) /\ NoAck(q)

InStdin(q, c) ==
  Len(Stdin(q)) = 1 /\ Stdin(q)[1] = c /\ ~Calling(q) /\ NoOut(q) /\ NoAck(q)

InCall(q, c) == NoLine(q) /\ Calling(q) /\ process[q].at = c /\ NoOut(q) /\ NoAck(q)

InStdout(q, c) ==
  /\ NoLine(q) /\ ~Calling(q) /\ NoAck(q)
  /\ \E i \in DOMAIN Stdout(q) :
       /\ Fits(Stdout(q)[i], c)
       /\ \A j \in DOMAIN Stdout(q) \ {i} : Stdout(q)[j].cmd = 0

Queued(q, c) == Len(acks[q]) = 1 /\ Fits(acks[q][1], c)

OnItsWay(q, c) ==
  \/ Nothing(q) \/ InStdin(q, c) \/ InCall(q, c) \/ InStdout(q, c)
  \/ NoLine(q) /\ ~Calling(q) /\ NoOut(q) /\ Queued(q, c)

InPlace(q) ==
  /\ InFlight(q) = {} => Nothing(q)
  /\ \A t \in InFlight(q), c \in Commands : cmd[t] = c => OnItsWay(q, c)

HasWritten == \A t \in Threads : stage[t] \in {"written", "wait"} => cmd[t] \in Commands

Awaited ==
  \A t \in Threads, q \in Helpers, c \in Commands :
    stage[t] = "wait" /\ queue[t] = q /\ cmd[t] = c /\ q \notin astray =>
      uses[t] = q /\ (NoAck(q) \/ Queued(q, c))

AcksInPlace ==
  /\ HasWritten
  /\ \A q \in Helpers : q = spawned /\ q \notin astray => InPlace(q)
  /\ Awaited

InputIInv == InputTypeOK /\ Roles /\ OneHelper /\ InOrder /\ TwoTries /\ AcksInPlace

-----------------------------------------------------------------------------
USE DEF Threads

LEMMA CommandsFact ==
  /\ Commands \subseteq Nat /\ 0 \notin Commands
  /\ \A n \in Nat : n + 1 <= MaxCommands => n + 1 \in Commands
BY InputAssumption DEF Commands

LEMMA NumberFact ==
  ASSUME NEW c \in Commands \cup {0}
  PROVE  c \in Nat
BY CommandsFact

LEMMA InputParameters ==
  StdinCap \in Nat \ {0} /\ MaxHelpers \in Nat \ {0} /\ MaxCommands \in Nat \ {0}
BY InputAssumption

(* What a process record is, field by field.                               *)
LEMMA ProcessFields ==
  ASSUME NEW r \in Process
  PROVE  /\ r.state \in States /\ r.link \in Links /\ r.at \in Commands \cup {0}
         /\ r.stdin \in Seq(Commands) /\ r.stdout \in Seq(Acks)
         /\ r = [state |-> r.state, link |-> r.link, at |-> r.at,
                 stdin |-> r.stdin, stdout |-> r.stdout]
BY DEF Process, States, Links, Acks

(* Helper h changes to these fields, and no other helper changes.          *)
Becomes(h, s, l, a, i, o) ==
  /\ process' \in [Helpers -> Process]
  /\ process'[h].state = s /\ process'[h].link = l /\ process'[h].at = a
  /\ process'[h].stdin = i /\ process'[h].stdout = o
  /\ \A g \in Helpers : g # h => process'[g] = process[g]

LEMMA FieldsNow ==
  ASSUME InputTypeOK, NEW h \in Helpers
  PROVE  /\ process[h] \in Process
         /\ process[h].state \in States /\ process[h].link \in Links
         /\ process[h].at \in Commands \cup {0}
         /\ Stdin(h) \in Seq(Commands) /\ Stdout(h) \in Seq(Acks)
BY ProcessFields DEF InputTypeOK, Stdin, Stdout

-----------------------------------------------------------------------------
(* What each action does to the helpers. *)

LEMMA DeadEffect ==
  ASSUME InputTypeOK, NEW h \in Helpers, Dead(h)
  PROVE  Becomes(h, "dead", "no", 0, <<>>, Stdout(h))
<1> DEFINE r == [NoProcess EXCEPT !.state = "dead", !.stdout = process[h].stdout]
<1>1. process' = [process EXCEPT ![h] = r]
  BY DEF Dead
<1>2. /\ r.state = "dead" /\ r.link = "no" /\ r.at = 0
      /\ r.stdin = <<>> /\ r.stdout = Stdout(h)
  BY DEF NoProcess, Stdout
<1>3. r \in Process
  <2>1. process[h].stdout \in Seq(Acks) /\ <<>> \in Seq(Commands)
    BY FieldsNow DEF Stdout
  <2> QED BY <2>1 DEF NoProcess, Process, Acks
<1> HIDE DEF r
<1> QED BY <1>1, <1>2, <1>3 DEF InputTypeOK, Becomes

LEMMA WriteEffect ==
  ASSUME InputTypeOK, NEW t \in Threads, Write(t), uses[t] \in Helpers, written < MaxCommands
  PROVE  Becomes(uses[t], process[uses[t]].state, process[uses[t]].link,
           process[uses[t]].at, Append(Stdin(uses[t]), written + 1), Stdout(uses[t]))
<1> DEFINE p == process[uses[t]]
           r == [p EXCEPT !.stdin = Append(p.stdin, written + 1)]
<1>1. process' = [process EXCEPT ![uses[t]] = r]
  BY DEF Write
<1>2. p \in Process
  BY FieldsNow
<1>4. Append(p.stdin, written + 1) \in Seq(Commands)
  <2>1. written + 1 \in Commands
    BY CommandsFact, InputParameters DEF InputTypeOK
  <2>2. p.stdin \in Seq(Commands)
    BY FieldsNow DEF Stdin
  <2> QED BY <2>1, <2>2, AppendProperties
<1> HIDE DEF p
<1>3. /\ r \in Process
      /\ r.state = p.state /\ r.link = p.link /\ r.at = p.at
      /\ r.stdin = Append(p.stdin, written + 1) /\ r.stdout = p.stdout
  BY <1>2, <1>4 DEF Process
<1> HIDE DEF r
<1> QED BY <1>1, <1>3 DEF p, InputTypeOK, Becomes, Stdin, Stdout

LEMMA SpawnEffect ==
  ASSUME InputTypeOK, Spawn, spawned < MaxHelpers
  PROVE  LET h == spawned + 1
         IN  h \in Helpers /\ Becomes(h, "starting", process[h].link, process[h].at,
                                      Stdin(h), Stdout(h))
<1> DEFINE h == spawned + 1
           p == process[h]
           r == [p EXCEPT !.state = "starting"]
<1>1. h \in Helpers
  BY InputParameters DEF InputTypeOK, Helpers
<1>2. p \in Process
  BY <1>1, FieldsNow
<1>3. process' = [process EXCEPT ![h] = r]
  BY DEF Spawn
<1> HIDE DEF p
<1>4. /\ r \in Process
      /\ r.state = "starting" /\ r.link = p.link /\ r.at = p.at
      /\ r.stdin = p.stdin /\ r.stdout = p.stdout
  BY <1>2 DEF Process
<1> HIDE DEF r
<1> QED BY <1>1, <1>3, <1>4 DEF p, InputTypeOK, Becomes, Stdin, Stdout

LEMMA ReadEffect ==
  ASSUME InputTypeOK, NEW h \in Helpers, Read(h)
  PROVE  /\ Stdout(h) # <<>>
         /\ Becomes(h, process[h].state, process[h].link, process[h].at,
                    Stdin(h), Tail(Stdout(h)))
<1> DEFINE p == process[h]
           r == [p EXCEPT !.stdout = Tail(p.stdout)]
<1>1. process' = [process EXCEPT ![h] = r]
  BY DEF Read
<1>2. p \in Process /\ p.stdout # <<>> /\ Tail(p.stdout) \in Seq(Acks)
  BY FieldsNow DEF Read, Stdout
<1> HIDE DEF p
<1>3. /\ r \in Process
      /\ r.state = p.state /\ r.link = p.link /\ r.at = p.at
      /\ r.stdin = p.stdin /\ r.stdout = Tail(p.stdout)
  BY <1>2 DEF Process, Acks
<1> HIDE DEF r
<1> QED BY <1>1, <1>2, <1>3 DEF p, InputTypeOK, Becomes, Stdin, Stdout

(* An acknowledgement is written.                                          *)
LEMMA SaysFact ==
  ASSUME InputTypeOK, NEW h \in Helpers, NEW c \in Commands \cup {0}, NEW b \in BOOLEAN
  PROVE  /\ Ack(c, b) \in Acks /\ Ack(c, b).cmd = c /\ Ack(c, b).ok = b
         /\ Says(h, Ack(c, b)) \in Seq(Acks)
         /\ Len(Says(h, Ack(c, b))) = Len(Stdout(h)) + 1
         /\ \A i \in 1 .. Len(Stdout(h)) : Says(h, Ack(c, b))[i] = Stdout(h)[i]
         /\ Says(h, Ack(c, b))[Len(Stdout(h)) + 1] = Ack(c, b)
<1>1. Ack(c, b) \in Acks /\ Ack(c, b).cmd = c /\ Ack(c, b).ok = b
  BY DEF Ack, Acks
<1>2. Stdout(h) \in Seq(Acks)
  BY FieldsNow
<1> HIDE DEF Ack
<1> QED BY <1>1, <1>2, AppendProperties DEF Says, Stdout

LEMMA StartsEffect ==
  ASSUME InputTypeOK, NEW h \in Helpers, Starts(h)
  PROVE  \E l \in Links, o \in {Stdout(h), Says(h, Ack(0, FALSE))} :
            Becomes(h, "idle", l, process[h].at, Stdin(h), o)
<1> DEFINE p == process[h]
           r == [p EXCEPT !.state = "idle", !.link = "up"]
           f == [p EXCEPT !.state = "idle", !.stdout = Says(h, Ack(0, FALSE))]
<1>1. process' = [process EXCEPT ![h] = r] \/ process' = [process EXCEPT ![h] = f]
  BY DEF Starts
<1>2. p \in Process /\ Says(h, Ack(0, FALSE)) \in Seq(Acks)
  BY FieldsNow, SaysFact
<1> HIDE DEF p, Ack, Says
<1>3. /\ r \in Process
      /\ r.state = "idle" /\ r.link = "up" /\ r.at = p.at
      /\ r.stdin = p.stdin /\ r.stdout = p.stdout
  BY <1>2 DEF Process
<1>4. /\ f \in Process
      /\ f.state = "idle" /\ f.link = p.link /\ f.at = p.at
      /\ f.stdin = p.stdin /\ f.stdout = Says(h, Ack(0, FALSE))
  BY <1>2 DEF Process, Acks
<1>5. p.link \in Links /\ "up" \in Links
  BY <1>2, ProcessFields DEF Links
<1> HIDE DEF r, f
<1>6. CASE process' = [process EXCEPT ![h] = r]
  <2>1. Becomes(h, "idle", "up", process[h].at, Stdin(h), Stdout(h))
    BY <1>3, <1>6 DEF p, InputTypeOK, Becomes, Stdin, Stdout
  <2> QED BY <1>5, <2>1
<1>7. CASE process' = [process EXCEPT ![h] = f]
  <2>1. Becomes(h, "idle", p.link, process[h].at, Stdin(h), Says(h, Ack(0, FALSE)))
    BY <1>4, <1>7 DEF p, InputTypeOK, Becomes, Stdin, Stdout
  <2> QED BY <1>5, <2>1
<1> QED BY <1>1, <1>6, <1>7

LEMMA TakeLineEffect ==
  ASSUME InputTypeOK, NEW h \in Helpers, TakeLine(h)
  PROVE  LET c == Head(Stdin(h))
             rest == Tail(Stdin(h))
         IN  /\ process[h].state = "idle" /\ Stdin(h) # <<>>
             /\ c \in Commands
             /\ \E l \in Links :
                  \/ Becomes(h, "first", l, c, rest, Stdout(h))
                  \/ Becomes(h, "idle", l, process[h].at, rest, Says(h, Ack(c, FALSE)))
<1> DEFINE p == process[h]
           c == Head(p.stdin)
           l == IF p.link = "no" THEN "up" ELSE p.link
           rest == [p EXCEPT !.stdin = Tail(p.stdin)]
           r == [rest EXCEPT !.state = "first", !.at = c, !.link = l]
           f == [rest EXCEPT !.stdout = Says(h, Ack(c, FALSE))]
<1>1. p \in Process /\ p.state = "idle" /\ p.stdin # <<>> /\ p.stdin \in Seq(Commands)
  BY FieldsNow DEF TakeLine, Stdin
<1>2. c \in Commands /\ Tail(p.stdin) \in Seq(Commands)
  BY <1>1
<1>3. Says(h, Ack(c, FALSE)) \in Seq(Acks)
  BY <1>2, SaysFact
<1>4. process' = [process EXCEPT ![h] = r] \/ process' = [process EXCEPT ![h] = f]
  BY <1>1 DEF TakeLine, Process
<1> HIDE DEF p, c, Ack, Says
<1>5. p.link \in Links /\ l \in Links
  BY <1>1, ProcessFields DEF Links
<1> HIDE DEF l
<1>6. /\ r \in Process
      /\ r.state = "first" /\ r.link = l /\ r.at = c
      /\ r.stdin = Tail(p.stdin) /\ r.stdout = p.stdout
  BY <1>1, <1>2, <1>5 DEF Process, Links
<1>7. /\ f \in Process
      /\ f.state = "idle" /\ f.link = p.link /\ f.at = p.at
      /\ f.stdin = Tail(p.stdin) /\ f.stdout = Says(h, Ack(c, FALSE))
  BY <1>1, <1>2, <1>3 DEF Process, Acks
<1> HIDE DEF r, f
<1>8. CASE process' = [process EXCEPT ![h] = r]
  <2>1. Becomes(h, "first", l, c, Tail(Stdin(h)), Stdout(h))
    BY <1>6, <1>8 DEF p, InputTypeOK, Becomes, Stdin, Stdout
  <2> QED BY <1>1, <1>2, <1>5, <2>1 DEF c, p, Stdin
<1>9. CASE process' = [process EXCEPT ![h] = f]
  <2>1. Becomes(h, "idle", p.link, process[h].at, Tail(Stdin(h)), Says(h, Ack(c, FALSE)))
    BY <1>7, <1>9 DEF p, InputTypeOK, Becomes, Stdin, Stdout
  <2> QED BY <1>1, <1>2, <1>5, <2>1 DEF c, p, Stdin
<1> QED BY <1>4, <1>8, <1>9

(* A call is over, and its acknowledgement is written.                     *)
LEMMA AnswerEffect ==
  ASSUME InputTypeOK, NEW h \in Helpers, NEW b \in BOOLEAN, NEW l \in Links,
         process' = [process EXCEPT ![h] = [process[h] EXCEPT
           !.state = "idle", !.link = l, !.at = 0,
           !.stdout = Says(h, Ack(process[h].at, b))]]
  PROVE  Becomes(h, "idle", l, 0, Stdin(h), Says(h, Ack(process[h].at, b)))
<1> DEFINE p == process[h]
           r == [p EXCEPT !.state = "idle", !.link = l, !.at = 0,
                          !.stdout = Says(h, Ack(p.at, b))]
<1>1. process' = [process EXCEPT ![h] = r]
  OBVIOUS
<1>2. p \in Process /\ Says(h, Ack(p.at, b)) \in Seq(Acks)
  BY FieldsNow, SaysFact
<1> HIDE DEF p, Ack, Says
<1>3. /\ r \in Process
      /\ r.state = "idle" /\ r.link = l /\ r.at = 0
      /\ r.stdin = p.stdin /\ r.stdout = Says(h, Ack(p.at, b))
  BY <1>2 DEF Process, Acks, Links
<1> HIDE DEF r
<1> QED BY <1>1, <1>3 DEF p, InputTypeOK, Becomes, Stdin, Stdout

LEMMA CallEndsEffect ==
  ASSUME InputTypeOK, NEW h \in Helpers, CallEnds(h)
  PROVE  \E l \in Links :
            Becomes(h, "idle", l, 0, Stdin(h), Says(h, Ack(process[h].at, TRUE)))
<1>1. process' = [process EXCEPT ![h] = [process[h] EXCEPT
           !.state = "idle", !.link = process[h].link, !.at = 0,
           !.stdout = Says(h, Ack(process[h].at, TRUE))]]
  BY FieldsNow DEF CallEnds, InputTypeOK, Process
<1> QED BY <1>1, FieldsNow, AnswerEffect

LEMMA ReportsEffect ==
  ASSUME InputTypeOK, NEW h \in Helpers, NEW l \in Links, Reports(h, l)
  PROVE  Becomes(h, "idle", l, 0, Stdin(h), Says(h, Ack(process[h].at, FALSE)))
<1>1. process' = [process EXCEPT ![h] = [process[h] EXCEPT
           !.state = "idle", !.link = l, !.at = 0,
           !.stdout = Says(h, Ack(process[h].at, FALSE))]]
  BY DEF Reports
<1> QED BY <1>1, AnswerEffect

LEMMA CallFailsEffect ==
  ASSUME InputTypeOK, NEW h \in Helpers, CallFails(h)
  PROVE  \/ \E l \in Links :
              Becomes(h, "idle", l, 0, Stdin(h), Says(h, Ack(process[h].at, FALSE)))
         \/ /\ process[h].state = "first"
            /\ \E l \in Links :
                 Becomes(h, "second", l, process[h].at, Stdin(h), Stdout(h))
<1>1. "up" \in Links /\ "broken" \in Links
  BY DEF Links
<1>2. CASE Reports(h, "up") \/ Reports(h, "broken")
  BY <1>1, <1>2, ReportsEffect
<1>3. CASE process[h].state = "first"
           /\ process' = [process EXCEPT ![h].state = "second", ![h].link = "up"]
  <2> DEFINE p == process[h]
             r == [p EXCEPT !.state = "second", !.link = "up"]
  <2>1. process' = [process EXCEPT ![h] = r]
    BY <1>3
  <2>2. p \in Process
    BY FieldsNow
  <2> HIDE DEF p
  <2>3. /\ r \in Process
        /\ r.state = "second" /\ r.link = "up" /\ r.at = p.at
        /\ r.stdin = p.stdin /\ r.stdout = p.stdout
    BY <2>2 DEF Process
  <2> HIDE DEF r
  <2>4. Becomes(h, "second", "up", process[h].at, Stdin(h), Stdout(h))
    BY <2>1, <2>3 DEF p, InputTypeOK, Becomes, Stdin, Stdout
  <2> QED BY <1>1, <1>3, <2>4
<1> QED BY <1>2, <1>3 DEF CallFails

-----------------------------------------------------------------------------
(* Types and roles *)

Going == {t \in Threads : stage[t] \in {"checked", "write"}}

LEMMA UnderwayFact ==
  IsFiniteSet(Going) /\ Underway = Cardinality(Going) /\ Underway \in Nat
<1>1. IsFiniteSet(Threads)
  BY FS_AddElement, InputAssumption
<1>2. IsFiniteSet(Going)
  BY <1>1, FS_Subset DEF Going
<1> QED BY <1>2, FS_CardinalityType DEF Going, Underway

(* The number of commands still to be written follows one thread's step.   *)
LEMMA UnderwayStep ==
  ASSUME InputTypeOK, NEW t \in Threads, NEW x, stage' = [stage EXCEPT ![t] = x]
  PROVE  LET was == stage[t] \in {"checked", "write"}
             is == x \in {"checked", "write"}
         IN  /\ is /\ ~was => Underway' = Underway + 1
             /\ was /\ ~is => Underway' = Underway - 1 /\ Underway >= 1
             /\ (was <=> is) => Underway' = Underway
<1>1. IsFiniteSet(Going) /\ Underway = Cardinality(Going) /\ Underway \in Nat
  BY UnderwayFact
<1>2. Underway' = Cardinality(Going')
  BY DEF Underway, Going
<1>3. Going' = IF x \in {"checked", "write"} THEN Going \cup {t} ELSE Going \ {t}
  BY DEF Going, InputTypeOK
<1>4. t \in Going <=> stage[t] \in {"checked", "write"}
  BY DEF Going
<1>5. /\ Cardinality(Going \cup {t}) = IF t \in Going THEN Underway ELSE Underway + 1
      /\ Cardinality(Going \ {t}) = IF t \in Going THEN Underway - 1 ELSE Underway
      /\ Cardinality(Going \ {t}) \in Nat
  BY <1>1, FS_AddElement, FS_RemoveElement, FS_CardinalityType
<1> QED BY <1>1, <1>2, <1>3, <1>4, <1>5

LEMMA UnderwaySame ==
  ASSUME stage' = stage
  PROVE  Underway' = Underway
BY DEF Underway

LEMMA Room ==
  ASSUME InputTypeOK, Roles, NEW t \in Threads, stage[t] \in {"checked", "write"}
  PROVE  written < MaxCommands
<1>1. Cardinality(Going \ {t}) = Underway - 1 /\ Cardinality(Going \ {t}) \in Nat
  BY UnderwayFact, FS_RemoveElement, FS_CardinalityType DEF Going
<1> QED BY <1>1, InputParameters, UnderwayFact DEF Roles, InputTypeOK

LEMMA OpenerFact == Opener \in Threads /\ Opener \notin Senders
BY InputAssumption DEF Opener

USE DEF channel, threadVars, guestVars, serverVars

ServerTyped ==
  pipe \in [cmd : Commands \cup {0}, late : BOOLEAN] /\ newest \in 0 .. MaxCommands

LEMMA Counters ==
  ASSUME InputTypeOK
  PROVE  spawned \in Nat /\ spawned <= MaxHelpers /\ written \in Nat /\ written <= MaxCommands
BY InputParameters DEF InputTypeOK

LEMMA Wider ==
  ASSUME NEW a \in Nat, NEW b \in Nat, a <= b, NEW f \in [Threads -> 0 .. a]
  PROVE  f \in [Threads -> 0 .. b]
<1>1. \A t \in Threads : f[t] \in 0 .. b
  OBVIOUS
<1> QED BY <1>1

LEMMA OpenType ==
  ASSUME InputIInv, Open
  PROVE  InputTypeOK' /\ Roles'
<1>1. process' \in [Helpers -> Process] /\ spawned + 1 \in Helpers
  BY SpawnEffect DEF InputIInv, Open, Becomes
<1>2. uses' \in [Threads -> 0 .. spawned'] /\ queue' \in [Threads -> 0 .. spawned']
  BY Counters, Wider DEF InputIInv, InputTypeOK, Open, Spawn
<1>3. /\ spawned' \in 0 .. MaxHelpers /\ current' = spawned'
      /\ stage' \in [Threads -> {"idle", "checked", "write", "written", "wait"}]
  <2>1. spawned' \in 0 .. MaxHelpers /\ current' = spawned'
    BY Counters, InputParameters DEF InputIInv, Open, Spawn
  <2>2. stage' \in [Threads -> {"idle", "checked", "write", "written", "wait"}]
    BY DEF InputIInv, InputTypeOK, Open
  <2> QED BY <2>1, <2>2
<1>4. InputTypeOK'
  BY <1>1, <1>2, <1>3 DEF InputIInv, InputTypeOK, Open, Spawn
<1>5. Underway' = Underway + 1 /\ stage[Opener] = "idle"
  BY OpenerFact, UnderwayStep DEF InputIInv, Roles, Open
<1>6. written' + Underway' <= MaxCommands
  BY <1>5, InputParameters, UnderwayFact DEF InputIInv, InputTypeOK, Open
<1>7. Roles'
  BY <1>1, <1>6, OpenerFact DEF InputIInv, InputTypeOK, Roles, Open, Spawn
<1> QED BY <1>4, <1>7

LEMMA CloseType ==
  ASSUME InputIInv, Close
  PROVE  InputTypeOK' /\ Roles' /\ current = spawned /\ spawned \in Helpers
<1>1. current = spawned /\ spawned \in Helpers
  BY DEF InputIInv, Roles, Close
<1>2. process' \in [Helpers -> Process]
  BY <1>1, DeadEffect DEF InputIInv, Close, Becomes
<1>3. adrift' \subseteq Commands \X {"first", "second"}
  BY <1>1 DEF InputIInv, InputTypeOK, OneHelper, Close, Dead, Call, Calling
<1>4. InputTypeOK'
  BY <1>2, <1>3 DEF InputIInv, InputTypeOK, Close
<1>5. Roles'
  BY UnderwaySame DEF InputIInv, Roles, Close
<1> QED BY <1>1, <1>4, <1>5

LEMMA ProcessDiesType ==
  ASSUME InputIInv, NEW h \in Helpers, ProcessDies(h)
  PROVE  InputTypeOK' /\ Roles'
<1>2. process' \in [Helpers -> Process]
  BY DeadEffect DEF InputIInv, ProcessDies, Becomes
<1>3. adrift' \subseteq Commands \X {"first", "second"}
  BY DEF InputIInv, InputTypeOK, OneHelper, ProcessDies, Dead, Call, Calling
<1>6. faults' \in 0 .. MaxFaults
  BY InputAssumption DEF InputIInv, InputTypeOK, ProcessDies, Fault
<1>4. InputTypeOK'
  BY <1>2, <1>3, <1>6 DEF InputIInv, InputTypeOK, ProcessDies
<1>5. Roles'
  BY UnderwaySame DEF InputIInv, Roles, ProcessDies
<1> QED BY <1>4, <1>5

LEMMA InputType ==
  ASSUME InputIInv, NEW u \in Senders, Input(u)
  PROVE  InputTypeOK' /\ Roles'
<1>1. InputTypeOK'
  BY DEF InputIInv, InputTypeOK, Input
<1>2. Underway' = Underway + 1
  BY UnderwayStep DEF InputIInv, Input
<1>3. written' + Underway' <= MaxCommands
  BY <1>2, InputParameters, UnderwayFact DEF InputIInv, InputTypeOK, Input
<1>4. Roles'
  BY <1>3, OpenerFact DEF InputIInv, InputTypeOK, Roles, Input
<1> QED BY <1>1, <1>4

LEMMA GrabType ==
  ASSUME InputIInv, NEW t \in Threads, Grab(t)
  PROVE  InputTypeOK' /\ Roles'
<1>1. current = spawned /\ spawned \in Helpers
  BY DEF InputIInv, Roles, Grab, Running
<1>2. uses' \in [Threads -> 0 .. spawned]
  BY <1>1, Counters DEF InputIInv, InputTypeOK, Grab
<1>3. InputTypeOK'
  BY <1>2 DEF InputIInv, InputTypeOK, Grab
<1>4. Underway' = Underway
  BY UnderwayStep DEF InputIInv, Grab
<1>5. Roles'
  BY <1>1, <1>4 DEF InputIInv, InputTypeOK, Roles, Grab
<1> QED BY <1>3, <1>5

LEMMA WriteType ==
  ASSUME InputIInv, NEW t \in Threads, Write(t)
  PROVE  InputTypeOK' /\ Roles' /\ uses[t] \in Helpers /\ written < MaxCommands
<1>1. uses[t] \in Helpers /\ written < MaxCommands
  BY Room DEF InputIInv, Roles, Write
<1>2. process' \in [Helpers -> Process]
  BY <1>1, WriteEffect DEF InputIInv, Becomes
<1>3. written \in Nat /\ written + 1 \in Nat /\ written + 1 \in 0 .. MaxCommands
  BY <1>1, Counters, InputParameters DEF InputIInv
<1>4. cmd' \in [Threads -> 0 .. written + 1]
  <2>1. cmd \in [Threads -> 0 .. written + 1]
    BY <1>3, Wider DEF InputIInv, InputTypeOK
  <2> QED BY <1>3, <2>1 DEF Write
<1>5. latest' \in 0 .. written + 1
  BY <1>3 DEF InputIInv, InputTypeOK, Write
<1>6. astray' \subseteq Helpers
  BY <1>1 DEF InputIInv, InputTypeOK, Write
<1>7. InputTypeOK'
  BY <1>2, <1>3, <1>4, <1>5, <1>6 DEF InputIInv, InputTypeOK, Write
<1>8. Underway' = Underway - 1
  <2>1. stage' = [stage EXCEPT ![t] = "written"] /\ stage[t] = "write"
    BY DEF Write
  <2>2. "written" \notin {"checked", "write"} /\ ("write" \in {"checked", "write"} <=> TRUE)
    OBVIOUS
  <2> QED BY <2>1, <2>2, UnderwayStep DEF InputIInv
<1>9. written' + Underway' <= MaxCommands
  BY <1>8, Counters, InputParameters, UnderwayFact DEF InputIInv, Roles, Write
<1>10. Roles'
  BY <1>1, <1>9 DEF InputIInv, InputTypeOK, Roles, Write
<1> QED BY <1>1, <1>7, <1>10

LEMMA WaitType ==
  ASSUME InputIInv, NEW t \in Threads, Wait(t)
  PROVE  InputTypeOK' /\ Roles' /\ uses[t] \in Helpers /\ uses[t] <= spawned /\ spawned \in Helpers
<1>1. uses[t] \in Helpers /\ uses[t] <= spawned /\ spawned \in Helpers
  <2>1. uses[t] \in Helpers /\ uses[t] \in 0 .. spawned /\ spawned \in Nat /\ spawned <= MaxHelpers
    BY Counters DEF InputIInv, InputTypeOK, Roles, Wait
  <2> QED BY <2>1, InputParameters DEF Helpers
<1>2. queue' \in [Threads -> 0 .. spawned] /\ astray' \subseteq Helpers
  <2>1. spawned \in 0 .. spawned
    BY <1>1, InputParameters DEF Helpers
  <2> QED BY <1>1, <2>1 DEF InputIInv, InputTypeOK, Wait
<1>3. InputTypeOK'
  BY <1>2 DEF InputIInv, InputTypeOK, Wait
<1>4. Underway' = Underway
  <2>1. stage' = [stage EXCEPT ![t] = "wait"] /\ stage[t] = "written"
    BY DEF Wait
  <2>2. "wait" \notin {"checked", "write"} /\ ("written" \in {"checked", "write"} <=> FALSE)
    OBVIOUS
  <2> QED BY <2>1, <2>2, UnderwayStep DEF InputIInv
<1>5. Roles'
  BY <1>1, <1>4 DEF InputIInv, InputTypeOK, Roles, Wait
<1> QED BY <1>1, <1>3, <1>5

(* A request ends: nothing else happens, or open() kills its helper.       *)
Kept(t) ==
  /\ UNCHANGED <<current, process, adrift>>
  /\ console' = IF t = Opener THEN "open" ELSE console

Killed ==
  spawned \in Helpers /\ console' = "closed" /\ current' = 0 /\ Dead(spawned)

LEMMA LeavesCases ==
  ASSUME InputIInv, NEW t \in Threads, stage[t] # "idle", Returns(t) \/ Raises(t)
  PROVE  Leaves(t) /\ (Kept(t) \/ (t = Opener /\ Killed))
<1>1. CASE Returns(t)
  <2>1. Leaves(t) /\ Kept(t)
    BY <1>1 DEF Returns, Kept
  <2> QED BY <2>1
<1>2. CASE Raises(t) /\ t # Opener
  <2>1. Leaves(t) /\ Kept(t)
    BY <1>2 DEF Raises, Kept
  <2> QED BY <2>1
<1>3. CASE Raises(t) /\ t = Opener
  <2>1. current = spawned /\ spawned \in Helpers
    BY <1>3 DEF InputIInv, Roles
  <2> QED BY <1>3, <2>1 DEF Raises, Killed
<1> QED BY <1>1, <1>2, <1>3

LEMMA DeadAdrift ==
  ASSUME InputIInv, NEW h \in Helpers, Dead(h)
  PROVE  adrift' \subseteq Commands \X {"first", "second"}
BY DEF InputIInv, InputTypeOK, OneHelper, Dead, Call, Calling

LEMMA LeavesType ==
  ASSUME InputIInv, NEW t \in Threads, stage[t] # "idle", Returns(t) \/ Raises(t),
         UNCHANGED <<spawned, written, handed, latest, serverVars, faults>>,
         acks' \in [Helpers -> Seq([cmd : Commands \cup {0}, ok : BOOLEAN])],
         astray' \subseteq Helpers
  PROVE  InputTypeOK' /\ Roles'
<1>1. Leaves(t) /\ (Kept(t) \/ (t = Opener /\ Killed))
  BY LeavesCases
<1>2. /\ process' \in [Helpers -> Process]
      /\ adrift' \subseteq Commands \X {"first", "second"}
      /\ console' \in {"closed", "opening", "open"} /\ current' \in {0, spawned}
  <2>1. CASE Kept(t)
    BY <2>1 DEF Kept, InputIInv, InputTypeOK
  <2>2. CASE t = Opener /\ Killed
    BY <2>2, DeadEffect, DeadAdrift DEF InputIInv, Killed, Becomes
  <2> QED BY <1>1, <2>1, <2>2
<1>3. /\ stage' \in [Threads -> {"idle", "checked", "write", "written", "wait"}]
      /\ uses' \in [Threads -> 0 .. spawned] /\ queue' \in [Threads -> 0 .. spawned]
      /\ cmd' \in [Threads -> 0 .. written]
  BY <1>1, Counters DEF InputIInv, InputTypeOK, Leaves
<1>4. InputTypeOK'
  BY <1>2, <1>3 DEF InputIInv, InputTypeOK
<1>5. written' + Underway' <= MaxCommands
  <2>1. stage' = [stage EXCEPT ![t] = "idle"] /\ "idle" \notin {"checked", "write"}
    BY <1>1 DEF Leaves
  <2>2. Underway' = Underway \/ Underway' = Underway - 1
    BY <2>1, UnderwayStep DEF InputIInv
  <2> QED BY <2>2, Counters, InputParameters, UnderwayFact DEF InputIInv, Roles
<1>6. stage'[Opener] # "idle" <=> console' = "opening"
  BY <1>1, OpenerFact DEF InputIInv, InputTypeOK, Roles, Leaves, Kept, Killed
<1>7. IF console' = "closed" THEN current' = 0 ELSE current' = spawned' /\ spawned' \in Helpers
  BY <1>1, OpenerFact DEF InputIInv, InputTypeOK, Roles, Kept, Killed
<1>8. \A u \in Threads :
        /\ stage'[u] \in {"write", "written", "wait"} => uses'[u] \in Helpers
        /\ stage'[u] = "wait" => queue'[u] \in Helpers /\ uses'[u] <= queue'[u]
  BY <1>1 DEF InputIInv, InputTypeOK, Roles, Leaves
<1> QED BY <1>4, <1>5, <1>6, <1>7, <1>8 DEF Roles

LEMMA NoHelperRunsType ==
  ASSUME InputIInv, NEW t \in Threads, NoHelperRuns(t)
  PROVE  InputTypeOK' /\ Roles'
BY LeavesType DEF InputIInv, InputTypeOK, NoHelperRuns

LEMMA TakeType ==
  ASSUME InputIInv, NEW t \in Threads, Take(t)
  PROVE  InputTypeOK' /\ Roles' /\ queue[t] \in Helpers
<1>1. queue[t] \in Helpers
  BY DEF InputIInv, Roles, Take
<1>2. acks' \in [Helpers -> Seq([cmd : Commands \cup {0}, ok : BOOLEAN])]
  <2>1. acks[queue[t]] \in Seq(Acks) /\ acks[queue[t]] # <<>>
    BY <1>1 DEF InputIInv, InputTypeOK, Take, Acks
  <2>2. Tail(acks[queue[t]]) \in Seq(Acks)
    BY <2>1
  <2> QED BY <1>1, <2>2 DEF InputIInv, InputTypeOK, Take, Acks
<1> QED BY <1>1, <1>2, LeavesType DEF InputIInv, InputTypeOK, Take

LEMMA TimesOutType ==
  ASSUME InputIInv, NEW t \in Threads, TimesOut(t)
  PROVE  InputTypeOK' /\ Roles' /\ queue[t] \in Helpers
<1>1. queue[t] \in Helpers
  BY DEF InputIInv, Roles, TimesOut
<1> QED BY <1>1, LeavesType DEF InputIInv, InputTypeOK, TimesOut

LEMMA HelperType ==
  ASSUME InputIInv, UNCHANGED <<console, spawned, current, threadVars>>,
         process' \in [Helpers -> Process],
         acks' \in [Helpers -> Seq([cmd : Commands \cup {0}, ok : BOOLEAN])],
         adrift' \subseteq Commands \X {"first", "second"}, handed' \in [Commands -> Nat],
         latest' \in 0 .. written, ServerTyped',
         astray' \subseteq Helpers, faults' \in 0 .. MaxFaults
  PROVE  InputTypeOK' /\ Roles'
<1>1. InputTypeOK'
  BY DEF InputIInv, InputTypeOK, ServerTyped
<1>2. Roles'
  BY UnderwaySame DEF InputIInv, Roles
<1> QED BY <1>1, <1>2

LEMMA FaultType ==
  ASSUME InputTypeOK, Fault \/ UNCHANGED faults
  PROVE  faults' \in 0 .. MaxFaults
BY InputAssumption DEF InputTypeOK, Fault

LEMMA ReadType ==
  ASSUME InputIInv, NEW h \in Helpers, Read(h)
  PROVE  InputTypeOK' /\ Roles' /\ spawned \in Helpers
<1>1. process[h] # NoProcess
  BY DEF Read, NoProcess
<1>2. spawned \in Helpers
  BY <1>1, InputParameters, Counters DEF InputIInv, OneHelper, Helpers
<1>3. process' \in [Helpers -> Process] /\ Stdout(h) # <<>>
  BY ReadEffect DEF InputIInv, Becomes
<1>4. acks' \in [Helpers -> Seq([cmd : Commands \cup {0}, ok : BOOLEAN])]
  <2> DEFINE a == Head(Stdout(h))
  <2>1. a \in Acks
    BY <1>3, FieldsNow DEF InputIInv
  <2>2. acks[spawned] \in Seq(Acks)
    BY <1>2 DEF InputIInv, InputTypeOK, Acks
  <2>3. Append(acks[spawned], a) \in Seq(Acks)
    BY <2>1, <2>2, AppendProperties
  <2>4. acks' = [acks EXCEPT ![spawned] = Append(acks[spawned], a)]
    BY DEF Read, Stdout
  <2> QED BY <2>3, <2>4 DEF InputIInv, InputTypeOK, Acks
<1>5. astray' \subseteq Helpers
  BY <1>2 DEF InputIInv, InputTypeOK, Read
<1> QED BY <1>2, <1>3, <1>4, <1>5, HelperType DEF ServerTyped, InputIInv, InputTypeOK, Read

LEMMA StartsType ==
  ASSUME InputIInv, NEW h \in Helpers, Starts(h)
  PROVE  InputTypeOK' /\ Roles'
<1>1. process' \in [Helpers -> Process]
  BY StartsEffect DEF InputIInv, Becomes
<1>2. faults' \in 0 .. MaxFaults
  BY FaultType DEF InputIInv, Starts
<1> QED BY <1>1, <1>2, HelperType DEF ServerTyped, InputIInv, InputTypeOK, Starts

LEMMA TakeLineType ==
  ASSUME InputIInv, NEW h \in Helpers, TakeLine(h)
  PROVE  InputTypeOK' /\ Roles'
<1>1. process' \in [Helpers -> Process]
  BY TakeLineEffect DEF InputIInv, Becomes
<1>2. faults' \in 0 .. MaxFaults
  BY FaultType DEF InputIInv, TakeLine
<1> QED BY <1>1, <1>2, HelperType DEF ServerTyped, InputIInv, InputTypeOK, TakeLine

(* What a call has in its hands.                                           *)
LEMMA CallFact ==
  ASSUME InputIInv, NEW h \in Helpers, Calling(h)
  PROVE  /\ process[h].at \in Commands /\ process[h].at \in 0 .. written
         /\ latest <= process[h].at /\ process[h].at <= written
         /\ h = spawned /\ console # "closed"
         /\ Call(h) = <<process[h].at, process[h].state>>
         /\ process[h].state \in {"first", "second"}
<1>1. process[h].at \in Commands /\ process[h].at <= written /\ latest <= process[h].at
  BY DEF InputIInv, OneHelper, InOrder
<1>2. Live(h) /\ process[h].state \in {"first", "second"}
  BY DEF Calling, Live
<1>3. h = spawned /\ console # "closed"
  BY <1>2 DEF InputIInv, OneHelper
<1>4. process[h].at \in 0 .. written
  <2>1. process[h].at \in Nat /\ written \in Nat
    BY <1>1, NumberFact, Counters DEF InputIInv
  <2> QED BY <1>1, <2>1
<1>5. Call(h) = <<process[h].at, process[h].state>>
  BY DEF Call
<1> QED BY <1>1, <1>2, <1>3, <1>4, <1>5

LEMMA HandFact ==
  ASSUME InputIInv, NEW c \in Commands, Hand(c)
  PROVE  handed' \in [Commands -> Nat] /\ latest' = c /\ ServerTyped'
BY DEF InputIInv, InputTypeOK, ServerTyped, Hand

LEMMA CallEndsType ==
  ASSUME InputIInv, NEW h \in Helpers, CallEnds(h)
  PROVE  InputTypeOK' /\ Roles'
<1>1. process' \in [Helpers -> Process]
  BY CallEndsEffect DEF InputIInv, Becomes
<1>2. handed' \in [Commands -> Nat] /\ latest' \in 0 .. written /\ ServerTyped'
  BY CallFact, HandFact DEF CallEnds
<1> QED BY <1>1, <1>2, HelperType DEF InputIInv, InputTypeOK, CallEnds

(* How a call throws: with a fault or not, the command has been handed to  *)
(* the server, the guest still has the call, or neither.                   *)
LEMMA ThrowsCases ==
  ASSUME InputIInv, NEW h \in Helpers, Throws(h)
  PROVE  /\ Calling(h) /\ faults' \in 0 .. MaxFaults
         /\ \/ UNCHANGED guestVars
            \/ Hand(process[h].at) /\ UNCHANGED adrift
            \/ adrift' = adrift \cup {Call(h)} /\ UNCHANGED <<handed, latest, serverVars>>
BY FaultType DEF InputIInv, Throws

LEMMA CallFailsType ==
  ASSUME InputIInv, NEW h \in Helpers, CallFails(h)
  PROVE  InputTypeOK' /\ Roles'
<1>1. process' \in [Helpers -> Process]
  BY CallFailsEffect DEF InputIInv, Becomes
<1>2. Throws(h)
  BY DEF CallFails
<1>3. Calling(h) /\ faults' \in 0 .. MaxFaults
  BY <1>2, ThrowsCases
<1>4. /\ handed' \in [Commands -> Nat] /\ latest' \in 0 .. written /\ ServerTyped'
      /\ adrift' \subseteq Commands \X {"first", "second"}
  <2>1. CASE UNCHANGED guestVars
    BY <2>1 DEF InputIInv, InputTypeOK, ServerTyped
  <2>2. CASE Hand(process[h].at) /\ UNCHANGED adrift
    BY <1>3, <2>2, CallFact, HandFact DEF InputIInv, InputTypeOK
  <2>3. CASE adrift' = adrift \cup {Call(h)} /\ UNCHANGED <<handed, latest, serverVars>>
    <3>1. Call(h) \in Commands \X {"first", "second"}
      BY <1>3, CallFact
    <3> QED BY <2>3, <3>1 DEF InputIInv, InputTypeOK, ServerTyped
  <2> QED BY <1>2, ThrowsCases, <2>1, <2>2, <2>3
<1> QED BY <1>1, <1>3, <1>4, HelperType DEF InputIInv, InputTypeOK, CallFails

LEMMA LandsType ==
  ASSUME InputIInv, NEW call \in adrift, Lands(call)
  PROVE  InputTypeOK' /\ Roles'
<1>1. handed' \in [Commands -> Nat] /\ adrift' \subseteq Commands \X {"first", "second"}
  BY DEF InputIInv, InputTypeOK, Lands
<1>2. ServerTyped'
  BY DEF InputIInv, InputTypeOK, ServerTyped, Lands
<1> QED BY <1>1, <1>2, HelperType DEF InputIInv, InputTypeOK, Lands

LEMMA ServerType ==
  ASSUME InputIInv, ServerTypes \/ ServerSwallows
  PROVE  InputTypeOK' /\ Roles'
<1>1. pipe.cmd \in 0 .. MaxCommands
  BY CommandsFact, InputParameters DEF InputIInv, InputTypeOK, Commands
<1>2. ServerTyped'
  <2>1. Empty \in [cmd : Commands \cup {0}, late : BOOLEAN]
    BY DEF Empty
  <2>2. newest' \in 0 .. MaxCommands
    BY <1>1 DEF InputIInv, InputTypeOK, ServerTypes, ServerSwallows
  <2> QED BY <2>1, <2>2 DEF ServerTyped, ServerTypes, ServerSwallows
<1> QED
  BY <1>2, HelperType DEF InputIInv, InputTypeOK, ServerTypes, ServerSwallows

-----------------------------------------------------------------------------
(* One helper.  The lemmas group the actions by what they do to helpers:   *)
(* nothing, a step of a living helper, its death, or the start of one.     *)
QueuesToCome == \A h \in Helpers : h > spawned => acks'[h] = acks[h]

LEMMA QuietOne ==
  ASSUME InputIInv, UNCHANGED <<process, spawned>>, QueuesToCome,
         console' = "closed" => console = "closed"
  PROVE  OneHelper'
BY DEF InputIInv, OneHelper, QueuesToCome, Live, Stdin, Calling

LEMMA LivingOne ==
  ASSUME InputIInv, NEW h \in Helpers, Live(h),
         NEW s \in {"starting", "idle", "first", "second"}, NEW l, NEW a, NEW i, NEW o,
         Becomes(h, s, l, a, i, o), s \in {"first", "second"} => a \in Commands,
         UNCHANGED <<console, spawned, acks>>
  PROVE  OneHelper'
<1>1. h = spawned /\ console # "closed" /\ h \in Nat
  BY Counters DEF InputIInv, OneHelper
<1> SUFFICES ASSUME NEW g \in Helpers
             PROVE  /\ g > spawned => process'[g] = NoProcess /\ acks[g] = <<>>
                    /\ g <= spawned => process'[g].state # "none"
                    /\ Live(g)' => g = spawned /\ console # "closed"
                    /\ ~Live(g)' => Stdin(g)' = <<>>
                    /\ Calling(g)' => process'[g].at \in Commands
  BY DEF OneHelper
<1>2. CASE g = h
  BY <1>1, <1>2 DEF Becomes, Live, Calling
<1>3. CASE g # h
  BY <1>3 DEF InputIInv, OneHelper, Becomes, Live, Calling, Stdin
<1> QED BY <1>2, <1>3

LEMMA DeadOne ==
  ASSUME InputIInv, NEW h \in Helpers, h <= spawned, Dead(h), spawned' = spawned, QueuesToCome,
         console' = "closed" => console = "closed" \/ h = spawned
  PROVE  OneHelper'
<1>1. Becomes(h, "dead", "no", 0, <<>>, Stdout(h))
  BY DeadEffect DEF InputIInv
<1> SUFFICES ASSUME NEW g \in Helpers
             PROVE  /\ g > spawned => process'[g] = NoProcess /\ acks'[g] = <<>>
                    /\ g <= spawned => process'[g].state # "none"
                    /\ Live(g)' => g = spawned /\ console' # "closed"
                    /\ ~Live(g)' => Stdin(g)' = <<>>
                    /\ Calling(g)' => process'[g].at \in Commands
  BY DEF OneHelper
<1>2. CASE g = h
  <2>1. process'[g].state = "dead" /\ process'[g].stdin = <<>>
    BY <1>1, <1>2 DEF Becomes
  <2>2. ~(g > spawned)
    BY <1>2, Counters DEF InputIInv, Helpers
  <2> QED BY <2>1, <2>2 DEF Live, Calling, Stdin
<1>3. CASE g # h
  BY <1>1, <1>3 DEF InputIInv, OneHelper, QueuesToCome, Becomes, Live, Calling, Stdin
<1> QED BY <1>2, <1>3

LEMMA LiveSpawned ==
  ASSUME InputIInv, NEW h \in Helpers, process[h].state # "none"
  PROVE  h \in Nat /\ h <= spawned
<1>1. process[h] # NoProcess
  BY DEF NoProcess
<1>2. h \in Nat /\ spawned \in Nat
  BY Counters, InputParameters DEF InputIInv, Helpers
<1> QED BY <1>1, <1>2 DEF InputIInv, OneHelper

LEMMA OpenOne ==
  ASSUME InputIInv, Open
  PROVE  OneHelper'
<1> DEFINE n == spawned + 1
<1>1. spawned < MaxHelpers /\ console = "closed" /\ console' = "opening"
      /\ spawned' = n /\ acks' = acks /\ spawned \in Nat
  BY Counters DEF InputIInv, Open, Spawn
<1>2. n \in Helpers /\ Becomes(n, "starting", process[n].link, process[n].at,
                               Stdin(n), Stdout(n))
  BY SpawnEffect DEF InputIInv, Open
<1>3. process[n] = NoProcess
  BY <1>1, <1>2 DEF InputIInv, OneHelper
<1>4. Stdin(n) = <<>>
  BY <1>3 DEF NoProcess, Stdin
<1> HIDE DEF n
<1> SUFFICES ASSUME NEW g \in Helpers
             PROVE  /\ g > n => process'[g] = NoProcess /\ acks[g] = <<>>
                    /\ g <= n => process'[g].state # "none"
                    /\ Live(g)' => g = n /\ console' # "closed"
                    /\ ~Live(g)' => Stdin(g)' = <<>>
                    /\ Calling(g)' => process'[g].at \in Commands
  BY <1>1 DEF OneHelper
<1>5. g \in Nat /\ n = spawned + 1
  BY InputParameters DEF Helpers, n
<1>6. CASE g = n
  BY <1>1, <1>2, <1>4, <1>5, <1>6 DEF Becomes, Live, Calling, Stdin
<1>7. CASE g # n
  <2>1. process'[g] = process[g]
    BY <1>2, <1>7 DEF Becomes
  <2>2. ~Live(g)
    BY <1>1 DEF InputIInv, OneHelper
  <2>3. (g > n => g > spawned) /\ (g <= n => g <= spawned)
    BY <1>1, <1>5, <1>7
  <2> QED BY <2>1, <2>2, <2>3 DEF InputIInv, OneHelper, Live, Calling, Stdin
<1> QED BY <1>6, <1>7

LEMMA WriteOne ==
  ASSUME InputIInv, NEW t \in Threads, Write(t)
  PROVE  OneHelper' /\ Live(uses[t]) /\ uses[t] = spawned
<1>1. uses[t] \in Helpers /\ written < MaxCommands /\ uses[t] \in 0 .. spawned
  BY WriteType DEF InputIInv, InputTypeOK
<1>2. Live(uses[t])
  <2>1. process[uses[t]].state # "dead"
    BY DEF Write, Running
  <2>2. uses[t] <= spawned
    BY <1>1, Counters DEF InputIInv
  <2> QED BY <1>1, <2>1, <2>2 DEF InputIInv, OneHelper, Live
<1>3. process[uses[t]].state \in {"starting", "idle", "first", "second"}
  BY <1>1, <1>2, FieldsNow DEF InputIInv, Live, States
<1>4. process[uses[t]].state \in {"first", "second"} => process[uses[t]].at \in Commands
  BY <1>1 DEF InputIInv, OneHelper, Calling
<1>5. Becomes(uses[t], process[uses[t]].state, process[uses[t]].link,
        process[uses[t]].at, Append(Stdin(uses[t]), written + 1), Stdout(uses[t]))
  BY <1>1, WriteEffect DEF InputIInv
<1>6. OneHelper'
  BY <1>1, <1>2, <1>3, <1>4, <1>5, LivingOne DEF Write
<1> QED BY <1>1, <1>2, <1>6 DEF InputIInv, OneHelper

(* What Kept and Killed, a request's end, mean for the helpers.            *)
LEMMA LeavesOne ==
  ASSUME InputIInv, NEW t \in Threads, stage[t] # "idle", Returns(t) \/ Raises(t),
         spawned' = spawned, QueuesToCome
  PROVE  OneHelper'
<1>1. Kept(t) \/ (t = Opener /\ Killed)
  BY LeavesCases
<1>2. CASE Kept(t)
  BY <1>2, QuietOne DEF Kept
<1>3. CASE Killed
  <2>1. spawned \in Helpers /\ spawned <= spawned /\ Dead(spawned)
    BY <1>3, Counters DEF InputIInv, Killed
  <2> QED BY <1>3, <2>1, DeadOne
<1> QED BY <1>1, <1>2, <1>3

LEMMA TakeOne ==
  ASSUME InputIInv, NEW t \in Threads, Take(t)
  PROVE  OneHelper'
<1>1. queue[t] \in Helpers /\ queue[t] \in 0 .. spawned
  BY TakeType DEF InputIInv, InputTypeOK
<1>2. QueuesToCome
  BY <1>1, Counters DEF InputIInv, InputTypeOK, Take, QueuesToCome
<1> QED BY <1>2, LeavesOne DEF Take

LEMMA ReadOne ==
  ASSUME InputIInv, NEW h \in Helpers, Read(h)
  PROVE  OneHelper'
<1>1. Becomes(h, process[h].state, process[h].link, process[h].at, Stdin(h), Tail(Stdout(h)))
  BY ReadEffect DEF InputIInv
<1>2. process[h] # NoProcess
  BY DEF Read, NoProcess
<1>3. QueuesToCome /\ UNCHANGED <<console, spawned>>
  BY Counters, ReadType DEF InputIInv, InputTypeOK, Read, QueuesToCome
<1> SUFFICES ASSUME NEW g \in Helpers
             PROVE  /\ g > spawned => process'[g] = NoProcess /\ acks'[g] = <<>>
                    /\ g <= spawned => process'[g].state # "none"
                    /\ Live(g)' => g = spawned /\ console # "closed"
                    /\ ~Live(g)' => Stdin(g)' = <<>>
                    /\ Calling(g)' => process'[g].at \in Commands
  BY <1>3 DEF OneHelper
<1>4. CASE g = h
  BY <1>1, <1>2, <1>4 DEF InputIInv, OneHelper, Becomes, Live, Calling, Stdin
<1>5. CASE g # h
  BY <1>1, <1>3, <1>5 DEF InputIInv, OneHelper, QueuesToCome, Becomes, Live, Calling, Stdin
<1> QED BY <1>4, <1>5

LEMMA StartsOne ==
  ASSUME InputIInv, NEW h \in Helpers, Starts(h)
  PROVE  OneHelper'
<1>1. Live(h)
  BY DEF Starts, Live
<1> QED BY <1>1, StartsEffect, LivingOne DEF InputIInv, Starts

LEMMA TakeLineOne ==
  ASSUME InputIInv, NEW h \in Helpers, TakeLine(h)
  PROVE  OneHelper'
<1>1. Live(h)
  BY DEF TakeLine, Live
<1> QED BY <1>1, TakeLineEffect, LivingOne DEF InputIInv, TakeLine

LEMMA CallEndsOne ==
  ASSUME InputIInv, NEW h \in Helpers, CallEnds(h)
  PROVE  OneHelper'
<1>1. Live(h)
  BY DEF CallEnds, Live, Calling
<1> QED BY <1>1, CallEndsEffect, LivingOne DEF InputIInv, CallEnds

LEMMA CallFailsOne ==
  ASSUME InputIInv, NEW h \in Helpers, CallFails(h)
  PROVE  OneHelper'
<1>1. Live(h) /\ process[h].at \in Commands
  BY CallFact DEF CallFails, Throws, Live, Calling
<1> QED BY <1>1, CallFailsEffect, LivingOne DEF InputIInv, CallFails

LEMMA CloseKills ==
  ASSUME InputIInv, Close
  PROVE  Killed
BY CloseType DEF Close, Killed

LEMMA KilledOne ==
  ASSUME InputIInv, Killed, spawned' = spawned, QueuesToCome
  PROVE  OneHelper'
<1>1. spawned <= spawned
  BY Counters DEF InputIInv
<1> QED BY <1>1, DeadOne DEF Killed

LEMMA ProcessDiesOne ==
  ASSUME InputIInv, NEW h \in Helpers, ProcessDies(h)
  PROVE  OneHelper'
<1>1. h <= spawned
  BY LiveSpawned DEF ProcessDies
<1> QED BY <1>1, DeadOne DEF ProcessDies, QueuesToCome

-----------------------------------------------------------------------------
(* The lines of the helpers.  A step adds a command to stdin (Write), takes*)
(* one from it (TakeLine), ends a call, or leaves them or drops them.      *)
NoNewLines ==
  \A h \in Helpers :
    /\ Stdin(h)' = Stdin(h) \/ Stdin(h)' = <<>>
    /\ Calling(h)' => Calling(h) /\ process'[h].at = process[h].at

LEMMA OrderKept ==
  ASSUME InputIInv, NoNewLines, written' = written, latest' = latest
  PROVE  InOrder'
<1> SUFFICES ASSUME NEW h \in Helpers
             PROVE  /\ \A i \in DOMAIN Stdin(h)' : latest < Stdin(h)'[i] /\ Stdin(h)'[i] <= written
                    /\ \A i, j \in DOMAIN Stdin(h)' : i < j => Stdin(h)'[i] < Stdin(h)'[j]
                    /\ Calling(h)' =>
                         /\ latest <= process'[h].at /\ process'[h].at <= written
                         /\ \A i \in DOMAIN Stdin(h)' : process'[h].at < Stdin(h)'[i]
  BY DEF InputIInv, InOrder
<1>1. CASE Stdin(h)' = Stdin(h)
  BY <1>1 DEF InputIInv, InOrder, NoNewLines
<1>2. CASE Stdin(h)' = <<>>
  <2>1. DOMAIN Stdin(h)' = {}
    BY <1>2
  <2> QED BY <2>1 DEF InputIInv, InOrder, NoNewLines
<1> QED BY <1>1, <1>2 DEF NoNewLines

(* The guest types the command of a call that is under way, and the call   *)
(* is over, or goes into its second try.                                   *)
LEMMA OrderTyped ==
  ASSUME InputIInv, NEW h \in Helpers, Calling(h), NoNewLines, written' = written,
         latest' = process[h].at
  PROVE  InOrder'
<1>1. h = spawned /\ latest' <= written
  BY CallFact
<1> SUFFICES ASSUME NEW g \in Helpers
             PROVE  /\ \A i \in DOMAIN Stdin(g)' : latest' < Stdin(g)'[i] /\ Stdin(g)'[i] <= written
                    /\ \A i, j \in DOMAIN Stdin(g)' : i < j => Stdin(g)'[i] < Stdin(g)'[j]
                    /\ Calling(g)' =>
                         /\ latest' <= process'[g].at /\ process'[g].at <= written
                         /\ \A i \in DOMAIN Stdin(g)' : process'[g].at < Stdin(g)'[i]
  BY <1>1 DEF InOrder
<1>2. CASE Stdin(g)' = <<>> \/ g # h
  <2>1. DOMAIN Stdin(g)' = {}
    <3>1. g # h => Stdin(g) = <<>>
      BY <1>1 DEF InputIInv, OneHelper
    <3> QED BY <1>2, <3>1 DEF NoNewLines
  <2>2. Calling(g)' => g = h /\ process'[g].at = process[h].at
    BY <1>1, CallFact DEF NoNewLines
  <2>3. process[h].at \in Nat
    BY CallFact, CommandsFact
  <2> QED BY <1>1, <2>1, <2>2, <2>3
<1>3. CASE g = h /\ Stdin(g)' = Stdin(g)
  <2>1. process[h].at \in Nat
    BY CallFact, CommandsFact
  <2> QED BY <1>1, <1>3, <2>1 DEF InputIInv, InOrder, NoNewLines
<1> QED BY <1>2, <1>3 DEF NoNewLines

(* Which actions add no line.                                              *)
LEMMA SameNoNewLines ==
  ASSUME process' = process
  PROVE  NoNewLines
BY DEF NoNewLines, Stdin, Calling

LEMMA DeadNoNewLines ==
  ASSUME InputIInv, NEW h \in Helpers, Dead(h)
  PROVE  /\ NoNewLines /\ Stdin(h)' = <<>> /\ ~Calling(h)'
         /\ \A g \in Helpers : g # h => process'[g] = process[g]
BY DeadEffect DEF InputIInv, Becomes, NoNewLines, Stdin, Calling

LEMMA LeavesNoNewLines ==
  ASSUME InputIInv, NEW t \in Threads, stage[t] # "idle", Returns(t) \/ Raises(t)
  PROVE  NoNewLines
BY LeavesCases, SameNoNewLines, DeadNoNewLines DEF Kept, Killed

LEMMA OpenNoNewLines ==
  ASSUME InputIInv, Open
  PROVE  /\ NoNewLines /\ \A h \in Helpers : Stdin(h)' = Stdin(h) /\ ~Calling(h)'
         /\ Stdin(spawned + 1) = <<>> /\ Stdout(spawned + 1) = <<>>
<1>1. LET n == spawned + 1
      IN  n \in Helpers /\ Becomes(n, "starting", process[n].link, process[n].at,
                                   Stdin(n), Stdout(n))
  BY SpawnEffect DEF InputIInv, Open
<1>2. \A h \in Helpers : ~Calling(h)
  BY DEF InputIInv, OneHelper, Open, Live, Calling
<1>3. process[spawned + 1] = NoProcess
  BY <1>1, Counters DEF InputIInv, OneHelper
<1> QED BY <1>1, <1>2, <1>3 DEF Becomes, NoNewLines, Stdin, Stdout, Calling, NoProcess

LEMMA ReadNoNewLines ==
  ASSUME InputIInv, NEW h \in Helpers, Read(h)
  PROVE  NoNewLines /\ \A g \in Helpers : Stdin(g)' = Stdin(g) /\ (Calling(g)' <=> Calling(g))
                                     /\ process'[g].state = process[g].state
                                     /\ process'[g].at = process[g].at
BY ReadEffect DEF InputIInv, Becomes, NoNewLines, Stdin, Calling

LEMMA StartsNoNewLines ==
  ASSUME InputIInv, NEW h \in Helpers, Starts(h)
  PROVE  NoNewLines /\ ~Calling(h)
<1>1. ~Calling(h)
  BY DEF Starts, Calling
<1> QED BY <1>1, StartsEffect DEF InputIInv, Becomes, NoNewLines, Stdin, Calling

LEMMA CallEndsNoNewLines ==
  ASSUME InputIInv, NEW h \in Helpers, CallEnds(h)
  PROVE  /\ NoNewLines /\ Stdin(h)' = Stdin(h) /\ ~Calling(h)'
         /\ process'[h].state \notin {"first", "second"}
BY CallEndsEffect DEF InputIInv, Becomes, NoNewLines, Stdin, Calling

LEMMA CallFailsNoNewLines ==
  ASSUME InputIInv, NEW h \in Helpers, CallFails(h)
  PROVE  /\ NoNewLines /\ Stdin(h)' = Stdin(h)
         /\ process'[h].state # process[h].state /\ process'[h].state # "first"
<1>1. Calling(h)
  BY DEF CallFails, Throws
<1>2. process[h].state \in {"first", "second"}
  BY <1>1 DEF Calling
<1> QED BY <1>1, <1>2, CallFailsEffect DEF InputIInv, Becomes, NoNewLines, Stdin, Calling

LEMMA WriteOrder ==
  ASSUME InputIInv, NEW t \in Threads, Write(t)
  PROVE  InOrder'
<1> DEFINE h == uses[t]
           n == written + 1
<1>1. h \in Helpers /\ written < MaxCommands /\ written \in Nat /\ latest' = latest /\ written' = n
  BY WriteType, Counters DEF InputIInv, Write
<1>2. Becomes(h, process[h].state, process[h].link, process[h].at,
              Append(Stdin(h), n), Stdout(h))
  BY <1>1, WriteEffect DEF InputIInv
<1>3. latest <= written /\ latest \in Nat
  BY <1>1 DEF InputIInv, InputTypeOK
<1> HIDE DEF h
<1> SUFFICES ASSUME NEW g \in Helpers
             PROVE  /\ \A i \in DOMAIN Stdin(g)' : latest < Stdin(g)'[i] /\ Stdin(g)'[i] <= n
                    /\ \A i, j \in DOMAIN Stdin(g)' : i < j => Stdin(g)'[i] < Stdin(g)'[j]
                    /\ Calling(g)' =>
                         /\ latest <= process'[g].at /\ process'[g].at <= n
                         /\ \A i \in DOMAIN Stdin(g)' : process'[g].at < Stdin(g)'[i]
  BY <1>1, <1>3 DEF InOrder
<1>4. /\ Stdin(g) \in Seq(Commands) /\ process[g].at \in Nat
      /\ \A i \in DOMAIN Stdin(g) : Stdin(g)[i] \in Nat
  <2>1. Stdin(g) \in Seq(Commands) /\ process[g].at \in Commands \cup {0}
    BY FieldsNow DEF InputIInv
  <2>2. \A i \in DOMAIN Stdin(g) : Stdin(g)[i] \in Commands
    BY <2>1
  <2>3. Commands \subseteq Nat
    BY CommandsFact
  <2>4. process[g].at \in Nat
    BY <2>1, NumberFact
  <2>5. \A i \in DOMAIN Stdin(g) : Stdin(g)[i] \in Nat
    BY <2>2, <2>3
  <2> QED BY <2>1, <2>4, <2>5
<1>5. /\ \A i \in DOMAIN Stdin(g) : latest < Stdin(g)[i] /\ Stdin(g)[i] <= written
      /\ \A i, j \in DOMAIN Stdin(g) : i < j => Stdin(g)[i] < Stdin(g)[j]
      /\ Calling(g) =>
           /\ latest <= process[g].at /\ process[g].at <= written
           /\ \A i \in DOMAIN Stdin(g) : process[g].at < Stdin(g)[i]
  BY DEF InputIInv, InOrder
<1>6. CASE g = h
  <2>1. Stdin(g)' = Append(Stdin(g), n) /\ process'[g].at = process[g].at
        /\ (Calling(g)' <=> Calling(g))
    BY <1>2, <1>6 DEF Becomes, Stdin, Calling
  <2>2. /\ DOMAIN Stdin(g)' = 1 .. Len(Stdin(g)) + 1 /\ DOMAIN Stdin(g) = 1 .. Len(Stdin(g))
        /\ Len(Stdin(g)) \in Nat
        /\ \A i \in 1 .. Len(Stdin(g)) : Stdin(g)'[i] = Stdin(g)[i]
        /\ Stdin(g)'[Len(Stdin(g)) + 1] = n
    <3>1. Append(Stdin(g), n) \in Seq(Nat) /\ Stdin(g) \in Seq(Nat)
      BY <1>1, <1>4, CommandsFact
    <3> QED BY <1>1, <1>4, <2>1, <3>1, AppendProperties
  <2> HIDE DEF n
  <2>3. n = written + 1
    BY DEF n
  <2> QED BY <1>1, <1>3, <1>4, <1>5, <2>1, <2>2, <2>3
<1>7. CASE g # h
  <2>1. process'[g] = process[g]
    BY <1>2, <1>7 DEF Becomes
  <2>2. Stdin(g)' = Stdin(g) /\ (Calling(g)' <=> Calling(g))
    BY <2>1 DEF Stdin, Calling
  <2> QED BY <1>1, <1>4, <1>5, <2>1, <2>2
<1> QED BY <1>6, <1>7

LEMMA TakeLineOrder ==
  ASSUME InputIInv, NEW h \in Helpers, TakeLine(h)
  PROVE  InOrder'
<1> DEFINE c == Head(Stdin(h))
<1>1. /\ Stdin(h) # <<>> /\ latest' = latest /\ written' = written /\ ~Calling(h)
      /\ Stdin(h)' = Tail(Stdin(h)) /\ (Calling(h)' => process'[h].at = c)
      /\ \A g \in Helpers : g # h => process'[g] = process[g]
  BY TakeLineEffect DEF InputIInv, TakeLine, Becomes, Stdin, Calling
<1> SUFFICES ASSUME NEW g \in Helpers
             PROVE  /\ \A i \in DOMAIN Stdin(g)' : latest < Stdin(g)'[i] /\ Stdin(g)'[i] <= written
                    /\ \A i, j \in DOMAIN Stdin(g)' : i < j => Stdin(g)'[i] < Stdin(g)'[j]
                    /\ Calling(g)' =>
                         /\ latest <= process'[g].at /\ process'[g].at <= written
                         /\ \A i \in DOMAIN Stdin(g)' : process'[g].at < Stdin(g)'[i]
  BY <1>1 DEF InputIInv, InOrder
<1>2. /\ \A i \in DOMAIN Stdin(g) : latest < Stdin(g)[i] /\ Stdin(g)[i] <= written
      /\ \A i, j \in DOMAIN Stdin(g) : i < j => Stdin(g)[i] < Stdin(g)[j]
  BY DEF InputIInv, InOrder
<1>3. CASE g = h
  <2>1. Stdin(h) \in Seq(Commands)
    BY FieldsNow DEF InputIInv
  <2>2. /\ DOMAIN Stdin(h) = 1 .. Len(Stdin(h)) /\ Len(Stdin(h)) \in Nat /\ Len(Stdin(h)) > 0
        /\ DOMAIN Stdin(h)' = 1 .. Len(Stdin(h)) - 1
        /\ \A i \in 1 .. Len(Stdin(h)) - 1 : Stdin(h)'[i] = Stdin(h)[i + 1]
        /\ c = Stdin(h)[1]
    <3>1. /\ DOMAIN Stdin(h) = 1 .. Len(Stdin(h)) /\ Len(Stdin(h)) \in Nat /\ Len(Stdin(h)) > 0
          /\ c = Stdin(h)[1]
      BY <1>1, <2>1
    <3>2. /\ Tail(Stdin(h)) \in Seq(Commands) /\ Len(Tail(Stdin(h))) = Len(Stdin(h)) - 1
          /\ \A i \in 1 .. Len(Tail(Stdin(h))) : Tail(Stdin(h))[i] = Stdin(h)[i + 1]
      BY <1>1, <2>1, HeadTailProperties
    <3>3. DOMAIN Tail(Stdin(h)) = 1 .. Len(Tail(Stdin(h)))
      BY <3>2
    <3> QED BY <1>1, <3>1, <3>2, <3>3
  <2>3. \A i \in 1 .. Len(Stdin(h)) : Stdin(h)[i] \in Nat
    <3>1. \A i \in 1 .. Len(Stdin(h)) : Stdin(h)[i] \in Commands
      BY <2>1, <2>2
    <3> QED BY <3>1, CommandsFact
  <2>4. latest \in Nat /\ written \in Nat
    BY Counters DEF InputIInv, InputTypeOK
  <2>5. \A i \in 1 .. Len(Stdin(h)) - 1 : i + 1 \in 1 .. Len(Stdin(h)) /\ 1 < i + 1
    BY <2>2
  <2>6. 1 \in DOMAIN Stdin(h)
    BY <2>2
  <2> HIDE DEF c
  <2>7. \A i \in DOMAIN Stdin(h)' : latest < Stdin(h)'[i] /\ Stdin(h)'[i] <= written /\ c < Stdin(h)'[i]
    BY <1>2, <1>3, <2>2, <2>5, <2>6
  <2>8. \A i, j \in DOMAIN Stdin(h)' : i < j => Stdin(h)'[i] < Stdin(h)'[j]
    BY <1>2, <1>3, <2>2, <2>5
  <2>9. latest <= c /\ c <= written
    BY <1>2, <1>3, <2>2, <2>3, <2>4, <2>6
  <2> QED BY <1>1, <1>3, <2>7, <2>8, <2>9
<1>4. CASE g # h
  <2>1. Stdin(g)' = Stdin(g) /\ (Calling(g)' <=> Calling(g)) /\ process'[g] = process[g]
    BY <1>1, <1>4 DEF Stdin, Calling
  <2> QED BY <1>2, <2>1 DEF InputIInv, InOrder
<1> QED BY <1>3, <1>4

-----------------------------------------------------------------------------
(* The tries of a command.                                                 *)
NothingAhead ==
  \A c \in Commands, try \in Tries : Ahead(c, try)' => Ahead(c, try)

LEMMA TriesKept ==
  ASSUME InputIInv, NothingAhead, handed' = handed, adrift' = adrift
  PROVE  TwoTries'
<1> SUFFICES ASSUME NEW c \in Commands
             PROVE  /\ \A try \in Tries : Ahead(c, try)' => <<c, try>> \notin adrift
                    /\ handed[c] <= 2
                    /\ \A try \in Tries : Pending(c, try)' => handed[c] <= 1
                    /\ Pending(c, "first")' /\ Pending(c, "second")' => handed[c] = 0
  BY DEF TwoTries
<1>1. \A try \in Tries : Ahead(c, try)' => Ahead(c, try)
  BY DEF NothingAhead
<1>2. \A try \in Tries : Pending(c, try)' => Pending(c, try)
  BY <1>1 DEF Pending
<1>3. "first" \in Tries /\ "second" \in Tries
  BY DEF Tries
<1> QED BY <1>1, <1>2, <1>3 DEF InputIInv, TwoTries

(* A try is over: it is neither ahead nor adrift any more when it has      *)
(* handed the command over.                                                *)
LEMMA TryOver ==
  ASSUME InputIInv, NEW c0 \in Commands, NEW s0 \in Tries, Pending(c0, s0), NothingAhead,
         ~Ahead(c0, s0)',
         \/ handed' = handed /\ (adrift' = adrift \/ adrift' = adrift \cup {<<c0, s0>>})
         \/ handed' = [handed EXCEPT ![c0] = @ + 1] /\ adrift' = adrift \ {<<c0, s0>>}
  PROVE  TwoTries'
<1> SUFFICES ASSUME NEW c \in Commands
             PROVE  /\ \A try \in Tries : Ahead(c, try)' => <<c, try>> \notin adrift'
                    /\ handed'[c] <= 2
                    /\ \A try \in Tries : Pending(c, try)' => handed'[c] <= 1
                    /\ Pending(c, "first")' /\ Pending(c, "second")' => handed'[c] = 0
  BY DEF TwoTries
<1>1. /\ \A try \in Tries : Ahead(c, try) => <<c, try>> \notin adrift
      /\ handed[c] <= 2
      /\ \A try \in Tries : Pending(c, try) => handed[c] <= 1
      /\ Pending(c, "first") /\ Pending(c, "second") => handed[c] = 0
  BY DEF InputIInv, TwoTries
<1>2. /\ \A try \in Tries : Ahead(c, try)' => Ahead(c, try)
      /\ \A try \in Tries : c = c0 /\ try = s0 => ~Ahead(c, try)'
  BY DEF NothingAhead
<1>3. \A try \in Tries : <<c, try>> \in adrift' => <<c, try>> \in adrift \/ (c = c0 /\ try = s0)
  OBVIOUS
<1>4. \A try \in Tries : Ahead(c, try)' => <<c, try>> \notin adrift'
  BY <1>1, <1>2, <1>3
<1>5. \A try \in Tries : Pending(c, try)' => Pending(c, try)
  BY <1>2, <1>3 DEF Pending
<1>6. handed[c] \in Nat /\ "first" \in Tries /\ "second" \in Tries
  BY DEF InputIInv, InputTypeOK, Tries
<1>7. CASE handed'[c] = handed[c]
  BY <1>1, <1>4, <1>5, <1>6, <1>7
<1>8. CASE c = c0 /\ handed'[c] = handed[c] + 1 /\ adrift' = adrift \ {<<c0, s0>>}
  <2>1. ~Pending(c, s0)'
    BY <1>2, <1>8 DEF Pending
  <2>2. CASE s0 = "first"
    BY <1>1, <1>4, <1>5, <1>6, <1>8, <2>1, <2>2 DEF Tries
  <2>3. CASE s0 = "second"
    BY <1>1, <1>4, <1>5, <1>6, <1>8, <2>1, <2>3 DEF Tries
  <2> QED BY <2>2, <2>3 DEF Tries
<1> QED BY <1>7, <1>8 DEF InputIInv, InputTypeOK

(* The same for a call of helper h.                                        *)
LEMMA CallTry ==
  ASSUME InputIInv, NEW h \in Helpers, Calling(h), NEW c0, NEW s0,
         c0 = process[h].at, s0 = process[h].state
  PROVE  /\ c0 \in Commands /\ s0 \in Tries /\ Call(h) = <<c0, s0>>
         /\ Pending(c0, s0) /\ <<c0, s0>> \notin adrift
<1>1. c0 \in Commands /\ s0 \in Tries /\ Call(h) = <<c0, s0>>
  BY CallFact DEF Tries
<1>2. Ahead(c0, s0)
  BY <1>1 DEF Ahead, Tries
<1> QED BY <1>1, <1>2 DEF InputIInv, TwoTries, Pending

(* The lines decide what is ahead.                                         *)
LEMMA SameLinesAhead ==
  ASSUME written' = written,
         \A g \in Helpers : /\ Stdin(g)' = Stdin(g) \/ Stdin(g)' = <<>>
                            /\ Calling(g)' => /\ Calling(g)
                                              /\ process'[g].at = process[g].at
                                              /\ \/ process'[g].state = process[g].state
                                                 \/ process'[g].state = "second"
  PROVE  NothingAhead
<1> SUFFICES ASSUME NEW c \in Commands, NEW try \in Tries, Ahead(c, try)'
             PROVE  Ahead(c, try)
  BY DEF NothingAhead
<1>1. CASE c > written
  BY <1>1 DEF Ahead
<1>2. CASE \E g \in Helpers : \E i \in DOMAIN Stdin(g)' : Stdin(g)'[i] = c
  <2>1. PICK g \in Helpers : \E i \in DOMAIN Stdin(g)' : Stdin(g)'[i] = c
    BY <1>2
  <2>2. Stdin(g)' # <<>>
    BY <2>1
  <2> QED BY <2>1, <2>2 DEF Ahead
<1>3. CASE \E g \in Helpers : /\ Calling(g)' /\ process'[g].at = c
                              /\ process'[g].state = "first" \/ try = "second"
  <2>1. PICK g \in Helpers : /\ Calling(g)' /\ process'[g].at = c
                             /\ process'[g].state = "first" \/ try = "second"
    BY <1>3
  <2>2. Calling(g) /\ process[g].at = c /\ (process[g].state = "first" \/ try = "second")
    BY <2>1
  <2> QED BY <2>2 DEF Ahead
<1> QED BY <1>1, <1>2, <1>3 DEF Ahead

(* Nothing is ahead once the only living helper is gone.                   *)
LEMMA DeadTries ==
  ASSUME InputIInv, NEW h \in Helpers, Dead(h), UNCHANGED <<written, handed, latest>>
  PROVE  TwoTries'
<1>1. /\ Stdin(h)' = <<>> /\ ~Calling(h)'
      /\ \A g \in Helpers : g # h => process'[g] = process[g]
  BY DeadNoNewLines
<1>2. NothingAhead
  <2>1. \A g \in Helpers : g # h => /\ Stdin(g)' = Stdin(g) /\ (Calling(g)' <=> Calling(g))
                                    /\ process'[g].at = process[g].at
                                    /\ process'[g].state = process[g].state
    BY <1>1 DEF Stdin, Calling
  <2> QED BY <1>1, <2>1, SameLinesAhead
<1>3. CASE Calling(h)
  <2>1. \A g \in Helpers : Stdin(g)' = <<>> /\ ~Calling(g)'
    <3>1. \A g \in Helpers : g # h => ~Live(g)
      BY <1>3, CallFact DEF InputIInv, OneHelper
    <3> QED BY <1>1, <3>1 DEF InputIInv, OneHelper, Live, Calling, Stdin
  <2>2. PICK c0, s0 : c0 = process[h].at /\ s0 = process[h].state
    OBVIOUS
  <2>3. c0 \in Nat /\ written \in Nat /\ c0 <= written
    BY <1>3, <2>2, CallFact, CommandsFact, Counters DEF InputIInv
  <2>4. \A i \in DOMAIN <<>> : FALSE
    OBVIOUS
  <2>5. ~Ahead(c0, s0)'
    BY <2>1, <2>3, <2>4 DEF Ahead
  <2>6. adrift' = adrift \cup {Call(h)}
    BY <1>3 DEF Dead
  <2> QED BY <1>2, <1>3, <2>2, <2>5, <2>6, CallTry, TryOver
<1>4. CASE ~Calling(h)
  BY <1>2, <1>4, TriesKept DEF Dead
<1> QED BY <1>3, <1>4

LEMMA QuietTries ==
  ASSUME InputIInv, UNCHANGED <<process, written, handed, adrift>>
  PROVE  TwoTries'
<1>1. NothingAhead
  BY SameLinesAhead DEF Stdin, Calling
<1> QED BY <1>1, TriesKept

LEMMA LeavesTries ==
  ASSUME InputIInv, NEW t \in Threads, stage[t] # "idle", Returns(t) \/ Raises(t),
         UNCHANGED <<written, handed, latest>>
  PROVE  TwoTries'
BY LeavesCases, QuietTries, DeadTries DEF Kept, Killed

LEMMA OpenTries ==
  ASSUME InputIInv, Open
  PROVE  TwoTries'
<1>1. NothingAhead
  BY OpenNoNewLines, SameLinesAhead DEF Open
<1> QED BY <1>1, TriesKept DEF Open

LEMMA WriteTries ==
  ASSUME InputIInv, NEW t \in Threads, Write(t)
  PROVE  TwoTries'
<1>0. PICK h, n : h = uses[t] /\ n = written + 1
  OBVIOUS
<1>1. h \in Helpers /\ written < MaxCommands /\ written \in Nat /\ written' = n /\ n = written + 1
  BY <1>0, WriteType, Counters DEF InputIInv, Write
<1>2. Becomes(h, process[h].state, process[h].link, process[h].at,
              Append(Stdin(h), n), Stdout(h))
  BY <1>0, <1>1, WriteEffect DEF InputIInv
<1>3. /\ Stdin(h)' = Append(Stdin(h), n)
      /\ \A g \in Helpers : /\ g # h => Stdin(g)' = Stdin(g)
                            /\ Calling(g)' <=> Calling(g)
                            /\ process'[g].at = process[g].at
                            /\ process'[g].state = process[g].state
  BY <1>2 DEF Becomes, Stdin, Calling
<1>4. Stdin(h) \in Seq(Commands)
  BY <1>1, FieldsNow DEF InputIInv
<1>5. NothingAhead
  <2> SUFFICES ASSUME NEW c \in Commands, NEW try \in Tries, Ahead(c, try)'
               PROVE  Ahead(c, try)
    BY DEF NothingAhead
  <2>1. CASE c > written'
    BY <1>1, <2>1, CommandsFact DEF Ahead
  <2>2. CASE \E g \in Helpers : \E i \in DOMAIN Stdin(g)' : Stdin(g)'[i] = c
    <3>1. PICK g \in Helpers : \E i \in DOMAIN Stdin(g)' : Stdin(g)'[i] = c
      BY <2>2
    <3>2. CASE g # h
      BY <1>3, <3>1, <3>2 DEF Ahead
    <3>3. CASE g = h
      <4>1. PICK i \in DOMAIN Append(Stdin(h), n) : Append(Stdin(h), n)[i] = c
        BY <1>3, <3>1, <3>3
      <4>2. (i \in DOMAIN Stdin(h) /\ Stdin(h)[i] = c) \/ c = n
        BY <1>4, <4>1
      <4>3. c = n => c > written
        BY <1>1
      <4> QED BY <1>1, <4>2, <4>3 DEF Ahead
    <3> QED BY <3>2, <3>3
  <2>3. CASE \E g \in Helpers : /\ Calling(g)' /\ process'[g].at = c
                                /\ process'[g].state = "first" \/ try = "second"
    BY <1>3, <2>3 DEF Ahead
  <2> QED BY <2>1, <2>2, <2>3 DEF Ahead
<1> QED BY <1>5, TriesKept DEF Write

LEMMA TakeLineTries ==
  ASSUME InputIInv, NEW h \in Helpers, TakeLine(h)
  PROVE  TwoTries'
<1> DEFINE c0 == Head(Stdin(h))
<1>1. /\ Stdin(h) # <<>> /\ written' = written /\ ~Calling(h)
      /\ Stdin(h)' = Tail(Stdin(h)) /\ (Calling(h)' => process'[h].at = c0)
      /\ \A g \in Helpers : g # h => process'[g] = process[g]
  BY TakeLineEffect DEF InputIInv, TakeLine, Becomes, Stdin, Calling
<1>2. \A g \in Helpers : g # h => /\ Stdin(g)' = Stdin(g) /\ (Calling(g)' <=> Calling(g))
                                  /\ process'[g].at = process[g].at
                                  /\ process'[g].state = process[g].state
  BY <1>1 DEF Stdin, Calling
<1>3. Stdin(h) \in Seq(Commands)
  BY FieldsNow DEF InputIInv
<1>4. /\ c0 = Stdin(h)[1] /\ 1 \in DOMAIN Stdin(h)
      /\ \A i \in DOMAIN Stdin(h)' : i + 1 \in DOMAIN Stdin(h) /\ Stdin(h)'[i] = Stdin(h)[i + 1]
  <2>1. /\ DOMAIN Stdin(h) = 1 .. Len(Stdin(h)) /\ Len(Stdin(h)) \in Nat /\ Len(Stdin(h)) > 0
        /\ c0 = Stdin(h)[1]
    BY <1>1, <1>3
  <2>2. /\ Tail(Stdin(h)) \in Seq(Commands) /\ Len(Tail(Stdin(h))) = Len(Stdin(h)) - 1
        /\ \A i \in 1 .. Len(Tail(Stdin(h))) : Tail(Stdin(h))[i] = Stdin(h)[i + 1]
    BY <1>1, <1>3, HeadTailProperties
  <2>3. DOMAIN Tail(Stdin(h)) = 1 .. Len(Tail(Stdin(h)))
    BY <2>2
  <2> QED BY <1>1, <2>1, <2>2, <2>3
<1> HIDE DEF c0
<1>5. NothingAhead
  <2> SUFFICES ASSUME NEW c \in Commands, NEW try \in Tries, Ahead(c, try)'
               PROVE  Ahead(c, try)
    BY DEF NothingAhead
  <2>1. CASE c > written'
    BY <1>1, <2>1 DEF Ahead
  <2>2. CASE \E g \in Helpers : \E i \in DOMAIN Stdin(g)' : Stdin(g)'[i] = c
    BY <1>2, <1>4, <2>2 DEF Ahead
  <2>3. CASE \E g \in Helpers : /\ Calling(g)' /\ process'[g].at = c
                                /\ process'[g].state = "first" \/ try = "second"
    BY <1>1, <1>2, <1>4, <2>3 DEF Ahead
  <2> QED BY <2>1, <2>2, <2>3 DEF Ahead
<1> QED BY <1>5, TriesKept DEF TakeLine

LEMMA ReadTries ==
  ASSUME InputIInv, NEW h \in Helpers, Read(h)
  PROVE  TwoTries'
<1>1. NothingAhead
  BY ReadNoNewLines, SameLinesAhead DEF Read
<1> QED BY <1>1, TriesKept DEF Read

LEMMA StartsTries ==
  ASSUME InputIInv, NEW h \in Helpers, Starts(h)
  PROVE  TwoTries'
<1>1. NothingAhead
  <2>1. /\ process'[h].state = "idle" /\ Stdin(h)' = Stdin(h)
        /\ \A g \in Helpers : g # h => process'[g] = process[g]
    BY StartsEffect DEF InputIInv, Becomes, Stdin
  <2>2. \A g \in Helpers : /\ Stdin(g)' = Stdin(g)
                           /\ Calling(g)' => Calling(g) /\ process'[g] = process[g]
    BY <2>1 DEF Stdin, Calling
  <2> QED BY <2>2, SameLinesAhead DEF Starts
<1> QED BY <1>1, TriesKept DEF Starts

(* The try of a call that ends or fails is over.                           *)
LEMMA CallOver ==
  ASSUME InputIInv, NEW h \in Helpers, Calling(h), written' = written,
         NEW c0, NEW s0, c0 = process[h].at, s0 = process[h].state,
         Stdin(h)' = Stdin(h), Calling(h)' => process'[h].at = process[h].at,
         Calling(h)' => process'[h].state = "second" /\ process[h].state = "first",
         \A g \in Helpers : g # h => process'[g] = process[g]
  PROVE  NothingAhead /\ ~Ahead(c0, s0)'
<1>1. \A g \in Helpers : g # h => /\ Stdin(g)' = Stdin(g) /\ (Calling(g)' <=> Calling(g))
                                  /\ process'[g].at = process[g].at
                                  /\ process'[g].state = process[g].state
  BY DEF Stdin, Calling
<1>2. NothingAhead
  BY <1>1, SameLinesAhead
<1>3. h = spawned /\ c0 \in Nat /\ written \in Nat /\ c0 <= written
  BY CallFact, CommandsFact, Counters DEF InputIInv
<1>4. \A g \in Helpers : g # h => Stdin(g) = <<>> /\ ~Calling(g)
  BY <1>3 DEF InputIInv, OneHelper, Live, Calling
<1>5. \A i \in DOMAIN Stdin(h) : Stdin(h)[i] # c0
  BY <1>3 DEF InputIInv, InOrder
<1>6. \A g \in Helpers : \A i \in DOMAIN Stdin(g)' : Stdin(g)'[i] # c0
  <2>1. DOMAIN <<>> = {}
    OBVIOUS
  <2> QED BY <1>1, <1>4, <1>5, <2>1
<1>7. ~(c0 > written)
  BY <1>3
<1>8. ~Ahead(c0, s0)'
  BY <1>1, <1>4, <1>6, <1>7 DEF Ahead
<1> QED BY <1>2, <1>8

LEMMA CallEndsTries ==
  ASSUME InputIInv, NEW h \in Helpers, CallEnds(h)
  PROVE  TwoTries'
<1>1. Calling(h) /\ written' = written /\ Hand(process[h].at) /\ UNCHANGED adrift
  BY DEF CallEnds
<1>2. /\ Stdin(h)' = Stdin(h) /\ ~Calling(h)'
      /\ \A g \in Helpers : g # h => process'[g] = process[g]
  BY CallEndsEffect DEF InputIInv, Becomes, Stdin, Calling
<1>3. PICK c0, s0 : c0 = process[h].at /\ s0 = process[h].state
  OBVIOUS
<1>4. c0 \in Commands /\ s0 \in Tries /\ Pending(c0, s0) /\ <<c0, s0>> \notin adrift
  BY <1>1, <1>3, CallTry
<1>5. NothingAhead /\ ~Ahead(c0, s0)'
  BY <1>1, <1>2, <1>3, CallOver
<1>6. handed' = [handed EXCEPT ![c0] = @ + 1] /\ adrift' = adrift \ {<<c0, s0>>}
  BY <1>1, <1>3, <1>4 DEF Hand
<1> QED BY <1>4, <1>5, <1>6, TryOver

LEMMA CallFailsTries ==
  ASSUME InputIInv, NEW h \in Helpers, CallFails(h)
  PROVE  TwoTries'
<1>1. Calling(h) /\ written' = written /\ Throws(h)
  BY DEF CallFails, Throws
<1>2. /\ Stdin(h)' = Stdin(h)
      /\ Calling(h)' => /\ process'[h].at = process[h].at
                        /\ process'[h].state = "second" /\ process[h].state = "first"
      /\ \A g \in Helpers : g # h => process'[g] = process[g]
  BY CallFailsEffect DEF InputIInv, Becomes, Stdin, Calling
<1>3. PICK c0, s0 : c0 = process[h].at /\ s0 = process[h].state
  OBVIOUS
<1>4. /\ c0 \in Commands /\ s0 \in Tries /\ Pending(c0, s0) /\ <<c0, s0>> \notin adrift
      /\ Call(h) = <<c0, s0>>
  BY <1>1, <1>3, CallTry
<1>5. NothingAhead /\ ~Ahead(c0, s0)'
  BY <1>1, <1>2, <1>3, CallOver
<1>6. \/ handed' = handed /\ (adrift' = adrift \/ adrift' = adrift \cup {<<c0, s0>>})
      \/ handed' = [handed EXCEPT ![c0] = @ + 1] /\ adrift' = adrift \ {<<c0, s0>>}
  BY <1>1, <1>3, <1>4, ThrowsCases DEF Hand
<1> QED BY <1>4, <1>5, <1>6, TryOver

LEMMA LandsTries ==
  ASSUME InputIInv, NEW call \in adrift, Lands(call)
  PROVE  TwoTries'
<1>1. PICK c0 \in Commands, s0 \in Tries : call = <<c0, s0>>
  BY DEF InputIInv, InputTypeOK, Tries
<1>2. NothingAhead
  BY SameLinesAhead DEF Lands, Stdin, Calling
<1>3. Pending(c0, s0) /\ ~Ahead(c0, s0)
  BY <1>1 DEF InputIInv, TwoTries, Pending
<1>4. handed' = [handed EXCEPT ![c0] = @ + 1] /\ adrift' = adrift \ {<<c0, s0>>}
  BY <1>1 DEF Lands
<1> QED BY <1>2, <1>3, <1>4, TryOver DEF NothingAhead

-----------------------------------------------------------------------------
(* The place of the acknowledgements.  A helper is calm in a step when     *)
(* nothing happens to it, or it dies.                                      *)
Calm(q) ==
  \/ process'[q] = process[q]
  \/ Stdin(q)' = <<>> /\ ~Calling(q)' /\ Stdout(q)' = Stdout(q)

Grows == \A c \in Commands : handed[c] > 0 => handed'[c] > 0

Carries(q) ==
  /\ Nothing(q) => Nothing(q)'
  /\ \A c \in Commands : OnItsWay(q, c) => OnItsWay(q, c)'

LEMMA CalmCarries ==
  ASSUME NEW q \in Helpers, Calm(q), Grows, acks'[q] = acks[q]
  PROVE  /\ Carries(q) /\ (NoAck(q) => NoAck(q)')
         /\ \A c \in Commands : Queued(q, c) => Queued(q, c)'
<1>1. /\ NoAck(q)' <=> NoAck(q)
      /\ Stdout(q)' = Stdout(q) /\ (NoOut(q)' <=> NoOut(q))
  BY DEF Calm, NoAck, NoOut, Stdout
<1>2. /\ NoLine(q) => NoLine(q)'
      /\ ~Calling(q) => ~Calling(q)'
      /\ \/ Stdin(q)' = Stdin(q) /\ (Calling(q)' <=> Calling(q)) /\ process'[q] = process[q]
         \/ NoLine(q)' /\ ~Calling(q)'
  BY DEF Calm, NoLine, Stdin, Calling
<1>3. \A ack : \A c \in Commands : Fits(ack, c) => Fits(ack, c)'
  BY DEF Grows, Fits
<1>4. \A c \in Commands : Queued(q, c) => Queued(q, c)'
  BY <1>3 DEF Queued
<1>5. \A c \in Commands : InStdout(q, c) => InStdout(q, c)'
  BY <1>1, <1>2, <1>3 DEF InStdout
<1>6. Nothing(q) => Nothing(q)'
  BY <1>1, <1>2 DEF Nothing
<1>7. \A c \in Commands : InStdin(q, c) => InStdin(q, c)' \/ Nothing(q)'
  BY <1>1, <1>2 DEF InStdin, Nothing
<1>8. \A c \in Commands : InCall(q, c) => InCall(q, c)' \/ Nothing(q)'
  BY <1>1, <1>2 DEF InCall, Nothing
<1>9. \A c \in Commands : OnItsWay(q, c) => OnItsWay(q, c)'
  BY <1>1, <1>2, <1>4, <1>5, <1>6, <1>7, <1>8 DEF OnItsWay
<1> QED BY <1>1, <1>4, <1>6, <1>9 DEF Carries

LEMMA DeadCalm ==
  ASSUME InputIInv, NEW h \in Helpers, Dead(h)
  PROVE  \A q \in Helpers : Calm(q)
BY DeadEffect DEF InputIInv, Becomes, Calm, Stdin, Stdout, Calling

LEMMA LeavesCalm ==
  ASSUME InputIInv, NEW t \in Threads, stage[t] # "idle", Returns(t) \/ Raises(t)
  PROVE  \A q \in Helpers : Calm(q)
<1>1. CASE Kept(t)
  BY <1>1 DEF Kept, Calm
<1>2. CASE Killed
  BY <1>2, DeadCalm DEF Killed
<1> QED BY <1>1, <1>2, LeavesCases

(* A step of a helper.                                                     *)
LEMMA HelperPlace ==
  ASSUME InputIInv, UNCHANGED <<spawned, threadVars, acks, astray>>, Grows,
         \A q \in Helpers : q = spawned => Carries(q)
  PROVE  AcksInPlace'
<1>1. HasWritten'
  BY DEF InputIInv, AcksInPlace, HasWritten
<1>2. ASSUME NEW q \in Helpers, q = spawned, q \notin astray
      PROVE  InPlace(q)'
  <2>1. InPlace(q) /\ Carries(q) /\ InFlight(q)' = InFlight(q)
    BY <1>2 DEF InputIInv, AcksInPlace, InFlight
  <2> QED BY <2>1 DEF InPlace, Carries
<1>3. ASSUME NEW t \in Threads, NEW q \in Helpers, NEW c \in Commands,
             stage[t] = "wait", queue[t] = q, cmd[t] = c, q \notin astray
      PROVE  uses[t] = q /\ (NoAck(q)' \/ Queued(q, c)')
  <2>1. uses[t] = q /\ (NoAck(q) \/ Queued(q, c))
    BY <1>3 DEF InputIInv, AcksInPlace, Awaited
  <2> QED BY <2>1 DEF NoAck, Queued, Fits, Grows
<1> QED BY <1>1, <1>2, <1>3 DEF AcksInPlace, Awaited

(* A step of thread t, which is not in flight after it.                    *)
LEMMA ThreadPlace ==
  ASSUME InputIInv, NEW t \in Threads, spawned' = spawned, handed' = handed,
         astray \subseteq astray', stage'[t] \notin {"written", "wait"},
         \A u \in Threads : u # t =>
            stage'[u] = stage[u] /\ uses'[u] = uses[u] /\ queue'[u] = queue[u] /\ cmd'[u] = cmd[u],
         \A q \in Helpers : Calm(q),
         \A q \in Helpers : q = spawned /\ q \notin astray' =>
            acks'[q] = acks[q] /\ t \notin InFlight(q),
         \A q \in Helpers : q \notin astray' => acks'[q] = acks[q] \/ NoAck(q)'
  PROVE  AcksInPlace'
<1>0. Grows
  BY DEF Grows
<1>1. HasWritten'
  BY DEF InputIInv, AcksInPlace, HasWritten
<1>2. ASSUME NEW q \in Helpers, q = spawned, q \notin astray'
      PROVE  InPlace(q)'
  <2>1. InPlace(q) /\ Carries(q) /\ InFlight(q)' = InFlight(q) /\ t \notin InFlight(q)
    BY <1>0, <1>2, CalmCarries DEF InputIInv, AcksInPlace, InFlight
  <2>2. \A u \in InFlight(q) : cmd'[u] = cmd[u]
    BY <2>1 DEF InFlight
  <2> QED BY <2>1, <2>2 DEF InPlace, Carries
<1>3. ASSUME NEW u \in Threads, NEW q \in Helpers, NEW c \in Commands,
             stage'[u] = "wait", queue'[u] = q, cmd'[u] = c, q \notin astray'
      PROVE  uses'[u] = q /\ (NoAck(q)' \/ Queued(q, c)')
  <2>1. u # t
    BY <1>3
  <2>2. uses[u] = q /\ (NoAck(q) \/ Queued(q, c))
    BY <1>3, <2>1 DEF InputIInv, AcksInPlace, Awaited
  <2> QED BY <1>0, <1>3, <2>1, <2>2, CalmCarries
<1> QED BY <1>1, <1>2, <1>3 DEF AcksInPlace, Awaited

LEMMA OpenPlace ==
  ASSUME InputIInv, Open
  PROVE  AcksInPlace'
<1>1. PICK n \in Helpers : n = spawned + 1 /\ Becomes(n, "starting", process[n].link,
                              process[n].at, Stdin(n), Stdout(n))
  BY SpawnEffect DEF InputIInv, Open
<1>2. /\ spawned' = n /\ acks' = acks /\ handed' = handed /\ astray' = astray
      /\ stage' = [stage EXCEPT ![Opener] = "checked"]
      /\ UNCHANGED <<uses, queue, cmd>> /\ spawned \in Nat /\ n > spawned
  BY <1>1, Counters DEF InputIInv, Open, Spawn
<1>3. Stdin(n) = <<>> /\ Stdout(n) = <<>> /\ acks[n] = <<>>
  BY <1>1, <1>2 DEF InputIInv, OneHelper, NoProcess, Stdin, Stdout
<1>4. \A t \in Threads : stage'[t] = stage[t] \/ stage'[t] \notin {"written", "wait"}
  BY <1>2 DEF InputIInv, InputTypeOK
<1>5. HasWritten'
  BY <1>2, <1>4 DEF InputIInv, AcksInPlace, HasWritten
<1>6. InPlace(n)'
  <2>1. Nothing(n)'
    <3>1. \A i \in DOMAIN <<>> : FALSE
      OBVIOUS
    <3>2. Stdin(n)' = <<>> /\ ~Calling(n)' /\ Stdout(n)' = <<>> /\ acks'[n] = <<>>
      BY <1>1, <1>2, <1>3 DEF Becomes, Stdin, Stdout, Calling
    <3> QED BY <3>1, <3>2 DEF Nothing, NoLine, NoOut, NoAck
  <2>2. InFlight(n)' = {}
    <3>1. \A t \in Threads : uses[t] \in 0 .. spawned
      BY DEF InputIInv, InputTypeOK
    <3>2. \A t \in Threads : uses[t] # n
      BY <1>2, <3>1
    <3> QED BY <1>2, <3>2 DEF InFlight
  <2> QED BY <2>1, <2>2 DEF InPlace
<1>7. ASSUME NEW t \in Threads, NEW q \in Helpers, NEW c \in Commands,
             stage'[t] = "wait", queue[t] = q, cmd[t] = c, q \notin astray
      PROVE  uses[t] = q /\ (NoAck(q)' \/ Queued(q, c)')
  <2>1. uses[t] = q /\ (NoAck(q) \/ Queued(q, c))
    BY <1>4, <1>7 DEF InputIInv, AcksInPlace, Awaited
  <2> QED BY <1>2, <2>1 DEF NoAck, Queued, Fits
<1> QED BY <1>2, <1>5, <1>6, <1>7 DEF AcksInPlace, Awaited

LEMMA KilledPlace ==
  ASSUME InputIInv, NEW h \in Helpers, Dead(h),
         UNCHANGED <<spawned, threadVars, acks, astray, handed>>
  PROVE  AcksInPlace'
BY DeadCalm, CalmCarries, HelperPlace DEF Grows

LEMMA InputPlace ==
  ASSUME InputIInv, NEW u \in Senders, Input(u)
  PROVE  AcksInPlace'
<1>1. \A q \in Helpers : Calm(q) /\ u \notin InFlight(q)
  BY DEF Input, Calm, InFlight
<1> QED BY <1>1, ThreadPlace DEF InputIInv, InputTypeOK, Input

LEMMA GrabPlace ==
  ASSUME InputIInv, NEW t \in Threads, Grab(t)
  PROVE  AcksInPlace'
<1>1. \A q \in Helpers : Calm(q) /\ t \notin InFlight(q)
  BY DEF Grab, Calm, InFlight
<1> QED BY <1>1, ThreadPlace DEF InputIInv, InputTypeOK, Grab

LEMMA NoHelperRunsPlace ==
  ASSUME InputIInv, NEW t \in Threads, NoHelperRuns(t)
  PROVE  AcksInPlace'
<1>1. \A q \in Helpers : t \notin InFlight(q)
  BY DEF NoHelperRuns, InFlight
<1>2. stage[t] # "idle" /\ (Returns(t) \/ Raises(t))
  BY DEF NoHelperRuns
<1>3. Leaves(t) /\ \A q \in Helpers : Calm(q)
  BY <1>2, LeavesCases, LeavesCalm
<1> QED BY <1>1, <1>3, ThreadPlace DEF InputIInv, InputTypeOK, NoHelperRuns, Leaves

LEMMA WritePlace ==
  ASSUME InputIInv, NEW t \in Threads, Write(t)
  PROVE  AcksInPlace'
<1>0. PICK h \in Helpers, n \in Commands : h = uses[t] /\ n = written + 1
  <2>1. uses[t] \in Helpers /\ written < MaxCommands /\ written \in Nat
    BY WriteType, Counters DEF InputIInv
  <2>2. written + 1 \in Commands
    BY <2>1, InputParameters, CommandsFact
  <2> QED BY <2>1, <2>2
<1>1. /\ stage' = [stage EXCEPT ![t] = "written"] /\ stage[t] = "write"
      /\ cmd' = [cmd EXCEPT ![t] = n] /\ h = spawned
      /\ UNCHANGED <<spawned, acks, uses, queue, handed>>
      /\ astray' = IF InFlight(h) = {} THEN astray ELSE astray \cup {h}
  BY <1>0, WriteOne DEF Write
<1>2. Becomes(h, process[h].state, process[h].link, process[h].at,
              Append(Stdin(h), n), Stdout(h))
  BY <1>0, WriteEffect, WriteType DEF InputIInv
<1>3. \A u \in Threads : u # t => stage'[u] = stage[u] /\ cmd'[u] = cmd[u]
  BY <1>1 DEF InputIInv, InputTypeOK
<1>4. stage'[t] = "written" /\ cmd'[t] = n
  BY <1>1 DEF InputIInv, InputTypeOK
<1>5. HasWritten'
  BY <1>3, <1>4 DEF InputIInv, AcksInPlace, HasWritten
<1>6. ASSUME h \notin astray'
      PROVE  InPlace(h)'
  <2>1. InFlight(h) = {} /\ Nothing(h)
    BY <1>1, <1>6 DEF InputIInv, AcksInPlace, InPlace
  <2>2. InFlight(h)' = {t}
    BY <1>0, <1>1, <1>3, <1>4, <2>1 DEF InFlight
  <2>3. InStdin(h, n)'
    <3>1. Stdin(h)' = Append(Stdin(h), n) /\ Stdin(h) = <<>>
      BY <1>2, <2>1 DEF Becomes, Nothing, NoLine, Stdin
    <3>2. Len(Stdin(h)') = 1 /\ Stdin(h)'[1] = n
      BY <3>1
    <3>3. ~Calling(h)' /\ NoOut(h)' /\ NoAck(h)'
      BY <1>1, <1>2, <2>1 DEF Becomes, Nothing, Calling, NoOut, NoAck, Stdout
    <3> QED BY <3>2, <3>3 DEF InStdin
  <2> QED BY <1>4, <2>2, <2>3 DEF InPlace, OnItsWay
<1>7. ASSUME NEW u \in Threads, NEW q \in Helpers, NEW c \in Commands,
             stage'[u] = "wait", queue[u] = q, cmd'[u] = c, q \notin astray'
      PROVE  uses[u] = q /\ (NoAck(q)' \/ Queued(q, c)')
  <2>1. u # t
    BY <1>4, <1>7
  <2>2. uses[u] = q /\ (NoAck(q) \/ Queued(q, c))
    BY <1>1, <1>3, <1>7, <2>1 DEF InputIInv, AcksInPlace, Awaited
  <2> QED BY <1>1, <2>2 DEF NoAck, Queued, Fits
<1> QED BY <1>1, <1>5, <1>6, <1>7 DEF AcksInPlace, Awaited

LEMMA WaitPlace ==
  ASSUME InputIInv, NEW t \in Threads, Wait(t)
  PROVE  AcksInPlace'
<1>0. PICK h \in Helpers : h = spawned
  BY WaitType
<1>1. /\ stage' = [stage EXCEPT ![t] = "wait"] /\ stage[t] = "written"
      /\ queue' = [queue EXCEPT ![t] = h]
      /\ UNCHANGED <<spawned, process, acks, uses, cmd, handed>>
      /\ astray' = IF uses[t] = h THEN astray ELSE astray \cup {h}
  BY <1>0 DEF Wait
<1>2. \A u \in Threads : /\ u # t => stage'[u] = stage[u] /\ queue'[u] = queue[u]
                         /\ stage'[t] = "wait" /\ queue'[t] = h
  BY <1>1 DEF InputIInv, InputTypeOK
<1>3. HasWritten'
  BY <1>1, <1>2 DEF InputIInv, AcksInPlace, HasWritten
<1>4. \A q \in Helpers : InFlight(q)' = InFlight(q)
  BY <1>1, <1>2 DEF InFlight
<1>5. Grows /\ \A q \in Helpers : Calm(q)
  BY <1>1 DEF Grows, Calm
<1>6. ASSUME NEW q \in Helpers, q = spawned, q \notin astray'
      PROVE  InPlace(q)'
  <2>1. InPlace(q) /\ Carries(q)
    BY <1>1, <1>5, <1>6, CalmCarries DEF InputIInv, AcksInPlace
  <2> QED BY <1>1, <1>4, <2>1 DEF InPlace, Carries
<1>7. ASSUME NEW u \in Threads, NEW q \in Helpers, NEW c \in Commands,
             stage'[u] = "wait", queue'[u] = q, cmd[u] = c, q \notin astray'
      PROVE  uses[u] = q /\ (NoAck(q)' \/ Queued(q, c)')
  <2>1. uses[u] = q /\ (NoAck(q) \/ Queued(q, c))
    <3>1. CASE u # t
      BY <1>1, <1>2, <1>7, <3>1 DEF InputIInv, AcksInPlace, Awaited
    <3>2. CASE u = t
      <4>1. q = h /\ uses[t] = h /\ h \notin astray
        BY <1>1, <1>2, <1>7, <3>2
      <4>2. t \in InFlight(h) /\ InPlace(h)
        BY <1>0, <1>1, <4>1 DEF InputIInv, AcksInPlace, InFlight
      <4>3. OnItsWay(h, c)
        BY <1>7, <3>2, <4>2 DEF InPlace
      <4> QED BY <3>2, <4>1, <4>3 DEF OnItsWay, Nothing, InStdin, InCall, InStdout
    <3> QED BY <3>1, <3>2
  <2> QED BY <1>1, <1>5, <2>1, CalmCarries
<1> QED BY <1>1, <1>3, <1>6, <1>7 DEF AcksInPlace, Awaited

(* A thread that waits on another queue than the last one is not in flight *)
(* on the last helper.                                                     *)
LEMMA WaitsElsewhere ==
  ASSUME InputIInv, NEW t \in Threads, stage[t] = "wait", queue[t] # spawned
  PROVE  t \notin InFlight(spawned)
<1>1. queue[t] \in 0 .. spawned /\ uses[t] \in 0 .. spawned /\ uses[t] <= queue[t] /\ spawned \in Nat
  BY Counters DEF InputIInv, InputTypeOK, Roles
<1> QED BY <1>1 DEF InFlight

LEMMA TimesOutPlace ==
  ASSUME InputIInv, NEW t \in Threads, TimesOut(t)
  PROVE  AcksInPlace'
<1>1. /\ stage[t] = "wait" /\ acks' = acks /\ astray' = astray \cup {queue[t]}
      /\ UNCHANGED <<spawned, handed>> /\ (Returns(t) \/ Raises(t))
  BY DEF TimesOut
<1>2. Leaves(t) /\ \A q \in Helpers : Calm(q)
  BY <1>1, LeavesCases, LeavesCalm
<1>3. \A q \in Helpers : q = spawned /\ q \notin astray' => t \notin InFlight(q)
  BY <1>1, WaitsElsewhere
<1> QED BY <1>1, <1>2, <1>3, ThreadPlace DEF InputIInv, InputTypeOK, Leaves

LEMMA OneLine ==
  ASSUME NEW S, NEW s \in Seq(S), Len(s) = 1
  PROVE  Tail(s) = <<>>
<1>1. PICK b : b = Tail(s)
  OBVIOUS
<1>2. b \in Seq(S) /\ Len(b) = Len(s) - 1
  BY <1>1, HeadTailProperties
<1>3. Len(b) = 0
  BY <1>2
<1>4. b # <<>> => Len(b) # 0
  BY <1>2, EmptySeq
<1> QED BY <1>1, <1>3, <1>4

LEMMA TakePlace ==
  ASSUME InputIInv, NEW t \in Threads, Take(t)
  PROVE  AcksInPlace'
<1>0. PICK a \in Helpers, c0 \in Commands : a = queue[t] /\ c0 = cmd[t]
  BY TakeType DEF InputIInv, AcksInPlace, HasWritten, Take
<1>1. /\ stage[t] = "wait" /\ acks[a] # <<>> /\ acks' = [acks EXCEPT ![a] = Tail(acks[a])]
      /\ UNCHANGED <<spawned, handed, astray>> /\ (Returns(t) \/ Raises(t))
  BY <1>0 DEF Take
<1>2. Leaves(t) /\ \A q \in Helpers : Calm(q)
  BY <1>1, LeavesCases, LeavesCalm
<1>3. a \notin astray => uses[t] = a /\ Queued(a, c0)
  BY <1>0, <1>1 DEF InputIInv, AcksInPlace, Awaited, NoAck
<1>4. a \notin astray => acks'[a] = <<>>
  <2>1. acks[a] \in Seq(Acks) /\ acks \in [Helpers -> Seq(Acks)]
    BY DEF InputIInv, InputTypeOK, Acks
  <2>2. a \notin astray => Tail(acks[a]) = <<>>
    <3>1. a \notin astray => Len(acks[a]) = 1
      BY <1>3 DEF Queued
    <3> QED BY <2>1, <3>1, OneLine
  <2> QED BY <1>1, <2>1, <2>2
<1>5. \A q \in Helpers : q # a => acks'[q] = acks[q]
  BY <1>1 DEF InputIInv, InputTypeOK
<1>6. \A q \in Helpers : q \notin astray' => acks'[q] = acks[q] \/ NoAck(q)'
  BY <1>1, <1>4, <1>5 DEF NoAck
<1>7. CASE a # spawned \/ a \in astray
  <2>1. \A q \in Helpers : q = spawned /\ q \notin astray' =>
          acks'[q] = acks[q] /\ t \notin InFlight(q)
    BY <1>0, <1>1, <1>5, <1>7, WaitsElsewhere
  <2> QED BY <1>1, <1>2, <1>6, <2>1, ThreadPlace DEF InputIInv, InputTypeOK, Leaves
<1>8. CASE a = spawned /\ a \notin astray
  <2>1. uses[t] = a /\ Queued(a, c0) /\ t \in InFlight(a)
    BY <1>1, <1>3, <1>8 DEF InFlight
  <2>2. NoLine(a) /\ ~Calling(a) /\ NoOut(a)
    <3>1. OnItsWay(a, c0)
      BY <1>0, <1>8, <2>1 DEF InputIInv, AcksInPlace, InPlace
    <3>2. ~NoAck(a)
      BY <1>1 DEF NoAck
    <3> QED BY <3>1, <3>2 DEF OnItsWay, Nothing, InStdin, InCall, InStdout
  <2>3. Nothing(a)'
    BY <1>2, <1>4, <1>8, <2>2 DEF Calm, Nothing, NoLine, NoOut, NoAck, Stdin, Stdout, Calling
  <2>4. InPlace(a)'
    BY <2>3 DEF InPlace, OnItsWay
  <2>5. HasWritten'
    BY <1>2 DEF InputIInv, InputTypeOK, AcksInPlace, HasWritten, Leaves
  <2>6. ASSUME NEW u \in Threads, NEW q \in Helpers, NEW c \in Commands,
               stage'[u] = "wait", queue'[u] = q, cmd'[u] = c, q \notin astray
        PROVE  uses'[u] = q /\ (NoAck(q)' \/ Queued(q, c)')
    <3>1. u # t /\ stage[u] = "wait" /\ queue[u] = q /\ cmd[u] = c /\ uses'[u] = uses[u]
      BY <1>2, <2>6 DEF InputIInv, InputTypeOK, Leaves
    <3>2. uses[u] = q /\ (NoAck(q) \/ Queued(q, c))
      BY <2>6, <3>1 DEF InputIInv, AcksInPlace, Awaited
    <3>3. acks'[q] = acks[q] \/ NoAck(q)'
      BY <1>1, <1>6, <2>6
    <3> QED BY <1>1, <3>1, <3>2, <3>3 DEF NoAck, Queued, Fits
  <2> QED BY <1>1, <1>8, <2>4, <2>5, <2>6 DEF AcksInPlace, Awaited
<1> QED BY <1>7, <1>8

(* The pipe after an acknowledgement was written to it: the lines that     *)
(* were there, and the new one at the end.                                 *)
LEMMA SaysOut ==
  ASSUME InputIInv, NEW h \in Helpers, NEW a \in Acks, Stdout(h)' = Says(h, a)
  PROVE  \E n \in Nat : /\ DOMAIN Stdout(h) = 1 .. n /\ DOMAIN Stdout(h)' = 1 .. n + 1
                        /\ \A i \in 1 .. n : Stdout(h)'[i] = Stdout(h)[i]
                        /\ Stdout(h)'[n + 1] = a
<1> DEFINE n == Len(Stdout(h))
<1>1. Stdout(h) \in Seq(Acks) /\ Stdout(h)' = Append(Stdout(h), a)
  BY FieldsNow DEF InputIInv, Says, Stdout
<1>2. /\ Append(Stdout(h), a) \in Seq(Acks) /\ Len(Append(Stdout(h), a)) = n + 1
      /\ \A i \in 1 .. n : Append(Stdout(h), a)[i] = Stdout(h)[i]
      /\ Append(Stdout(h), a)[n + 1] = a
  BY <1>1, AppendProperties
<1>3. n \in Nat /\ DOMAIN Stdout(h) = 1 .. n /\ DOMAIN Append(Stdout(h), a) = 1 .. n + 1
  BY <1>1, <1>2
<1> HIDE DEF n
<1> QED BY <1>1, <1>2, <1>3

(* The only command of the session is acknowledged in the pipe.            *)
LEMMA Acknowledged ==
  ASSUME InputIInv, NEW h \in Helpers, NEW c \in Commands, NEW b \in BOOLEAN,
         Stdout(h)' = Says(h, Ack(c, b)), b => handed'[c] > 0,
         NoOut(h), NoAck(h), acks' = acks, NoLine(h)', ~Calling(h)'
  PROVE  InStdout(h, c)'
<1>0. Ack(c, b) \in Acks /\ Ack(c, b).cmd = c /\ Ack(c, b).ok = b
  BY DEF Ack, Acks
<1>1. PICK n \in Nat : /\ DOMAIN Stdout(h) = 1 .. n /\ DOMAIN Stdout(h)' = 1 .. n + 1
                       /\ \A i \in 1 .. n : Stdout(h)'[i] = Stdout(h)[i]
                       /\ Stdout(h)'[n + 1].cmd = c /\ Stdout(h)'[n + 1].ok = b
  BY <1>0, SaysOut
<1>2. n + 1 \in DOMAIN Stdout(h)' /\ Fits(Stdout(h)[n + 1], c)'
  BY <1>1 DEF Fits
<1>3. \A j \in DOMAIN Stdout(h)' \ {n + 1} : Stdout(h)'[j].cmd = 0
  BY <1>1 DEF NoOut
<1> QED BY <1>2, <1>3 DEF InStdout, NoAck

LEMMA StartsPlace ==
  ASSUME InputIInv, NEW h \in Helpers, Starts(h)
  PROVE  AcksInPlace'
<1>1. /\ UNCHANGED <<spawned, threadVars, acks, astray, handed>> /\ ~Calling(h)
      /\ process[h].state = "starting"
  BY DEF Starts, Calling
<1>2. h = spawned
  BY <1>1 DEF InputIInv, OneHelper, Live
<1>3. /\ Stdin(h)' = Stdin(h) /\ ~Calling(h)'
      /\ Stdout(h)' = Stdout(h) \/ Stdout(h)' = Says(h, Ack(0, FALSE))
  BY StartsEffect DEF InputIInv, Becomes, Stdin, Stdout, Calling
<1>4. PICK n \in Nat : /\ DOMAIN Stdout(h) = 1 .. n
                       /\ \A i \in 1 .. n : i \in DOMAIN Stdout(h)' /\ Stdout(h)'[i] = Stdout(h)[i]
                       /\ \A i \in DOMAIN Stdout(h)' \ 1 .. n : Stdout(h)'[i].cmd = 0
  <2>1. CASE Stdout(h)' = Stdout(h)
    <3>1. Len(Stdout(h)) \in Nat /\ DOMAIN Stdout(h) = 1 .. Len(Stdout(h))
      BY FieldsNow DEF InputIInv
    <3> QED BY <2>1, <3>1
  <2>2. CASE Stdout(h)' = Says(h, Ack(0, FALSE))
    <3>1. PICK n \in Nat : /\ DOMAIN Stdout(h) = 1 .. n /\ DOMAIN Stdout(h)' = 1 .. n + 1
                           /\ \A i \in 1 .. n : Stdout(h)'[i] = Stdout(h)[i]
                           /\ Stdout(h)'[n + 1].cmd = 0
      <4>1. Ack(0, FALSE) \in Acks /\ Ack(0, FALSE).cmd = 0
        BY DEF Ack, Acks
      <4>2. PICK a \in Acks : a = Ack(0, FALSE)
        BY <4>1
      <4>3. Stdout(h)' = Says(h, a) /\ a.cmd = 0
        BY <2>2, <4>1, <4>2
      <4>4. PICK n \in Nat : /\ DOMAIN Stdout(h) = 1 .. n /\ DOMAIN Stdout(h)' = 1 .. n + 1
                             /\ \A i \in 1 .. n : Stdout(h)'[i] = Stdout(h)[i]
                             /\ Stdout(h)'[n + 1] = a
        BY <4>3, SaysOut
      <4> QED BY <4>3, <4>4
    <3>2. \A i \in 1 .. n + 1 : i \notin 1 .. n => i = n + 1
      OBVIOUS
    <3> QED BY <3>1, <3>2
  <2> QED BY <1>3, <2>1, <2>2
<1>5. NoOut(h) => NoOut(h)'
  BY <1>4 DEF NoOut
<1>6. \A c \in Commands : InStdout(h, c) => InStdout(h, c)'
  <2> SUFFICES ASSUME NEW c \in Commands, InStdout(h, c)
               PROVE  InStdout(h, c)'
    OBVIOUS
  <2>1. PICK i \in DOMAIN Stdout(h) :
          /\ Fits(Stdout(h)[i], c)
          /\ \A j \in DOMAIN Stdout(h) \ {i} : Stdout(h)[j].cmd = 0
    BY DEF InStdout
  <2>2. i \in DOMAIN Stdout(h)' /\ Fits(Stdout(h)[i], c)'
    BY <1>1, <1>4, <2>1 DEF Fits
  <2>3. \A j \in DOMAIN Stdout(h)' \ {i} : Stdout(h)'[j].cmd = 0
    BY <1>4, <2>1
  <2> QED BY <1>1, <1>3, <2>2, <2>3 DEF InStdout, NoLine, NoAck
<1>7. /\ NoLine(h)' <=> NoLine(h)
      /\ NoAck(h)' <=> NoAck(h)
      /\ \A c \in Commands : Queued(h, c)' <=> Queued(h, c)
  BY <1>1, <1>3 DEF NoLine, NoAck, Queued, Fits
<1>8. Carries(h)
  BY <1>1, <1>3, <1>5, <1>6, <1>7 DEF Carries, OnItsWay, Nothing, InStdin, InCall
<1> QED BY <1>1, <1>2, <1>8, HelperPlace DEF Grows

LEMMA TakeLinePlace ==
  ASSUME InputIInv, NEW h \in Helpers, TakeLine(h)
  PROVE  AcksInPlace'
<1>0. PICK c0 \in Commands : c0 = Head(Stdin(h))
  BY TakeLineEffect DEF InputIInv
<1>1. /\ UNCHANGED <<spawned, threadVars, acks, astray, handed>> /\ ~Calling(h)
      /\ process[h].state = "idle"
  BY DEF TakeLine, Calling
<1>2. h = spawned
  BY <1>1 DEF InputIInv, OneHelper, Live
<1>3. /\ Stdin(h) # <<>> /\ Stdin(h)' = Tail(Stdin(h))
      /\ \/ Calling(h)' /\ process'[h].at = c0 /\ Stdout(h)' = Stdout(h)
         \/ ~Calling(h)' /\ Stdout(h)' = Says(h, Ack(c0, FALSE))
  BY <1>0, TakeLineEffect DEF InputIInv, Becomes, Stdin, Stdout, Calling
<1>4. ASSUME NEW c \in Commands, InStdin(h, c)
      PROVE  InCall(h, c)' \/ InStdout(h, c)'
  <2>1. Stdin(h) \in Seq(Commands) /\ Len(Stdin(h)) = 1 /\ Stdin(h)[1] = c
    BY <1>4, FieldsNow DEF InputIInv, InStdin
  <2>2. c0 = c
    BY <1>0, <1>3, <2>1
  <2>3. NoLine(h)'
    <3>1. Tail(Stdin(h)) = <<>>
      BY <1>3, <2>1, OneLine
    <3> QED BY <1>3, <3>1 DEF NoLine
  <2>4. NoOut(h) /\ NoAck(h)
    BY <1>4 DEF InStdin
  <2>5. CASE Calling(h)' /\ process'[h].at = c0 /\ Stdout(h)' = Stdout(h)
    BY <1>1, <2>2, <2>3, <2>4, <2>5 DEF InCall, NoOut, NoAck
  <2>6. CASE ~Calling(h)' /\ Stdout(h)' = Says(h, Ack(c0, FALSE))
    BY <1>1, <2>2, <2>3, <2>4, <2>6, Acknowledged
  <2> QED BY <1>3, <2>5, <2>6
<1>5. Carries(h)
  BY <1>1, <1>3, <1>4 DEF Carries, OnItsWay, Nothing, InCall, InStdout, NoLine
<1> QED BY <1>1, <1>2, <1>5, HelperPlace DEF Grows

(* The acknowledgement of the call that is over.                           *)
LEMMA AnswerCarries ==
  ASSUME InputIInv, NEW h \in Helpers, Calling(h), NEW b \in BOOLEAN, NEW l, acks' = acks,
         Becomes(h, "idle", l, 0, Stdin(h), Says(h, Ack(process[h].at, b))),
         b => handed'[process[h].at] > 0
  PROVE  Carries(h)
<1>0. PICK c0 \in Commands : c0 = process[h].at
  BY CallFact
<1>1. /\ Stdin(h)' = Stdin(h) /\ ~Calling(h)' /\ Stdout(h)' = Says(h, Ack(c0, b))
      /\ b => handed'[c0] > 0
  BY <1>0 DEF Becomes, Stdin, Stdout, Calling
<1>2. ASSUME NEW c \in Commands, InCall(h, c)
      PROVE  InStdout(h, c)'
  <2>1. c = c0 /\ NoOut(h) /\ NoAck(h) /\ NoLine(h)'
    BY <1>0, <1>1, <1>2 DEF InCall, NoLine
  <2> QED BY <1>1, <2>1, Acknowledged
<1> QED BY <1>2 DEF Carries, OnItsWay, Nothing, InStdin, InStdout

LEMMA CallEndsPlace ==
  ASSUME InputIInv, NEW h \in Helpers, CallEnds(h)
  PROVE  AcksInPlace'
<1>0. PICK c0 \in Commands : c0 = process[h].at
  BY CallFact DEF CallEnds
<1>1. /\ UNCHANGED <<spawned, threadVars, acks, astray>> /\ Calling(h)
      /\ handed' = [handed EXCEPT ![c0] = @ + 1]
  BY <1>0 DEF CallEnds, Hand
<1>2. h = spawned
  BY <1>1, CallFact
<1>3. Grows /\ handed'[c0] > 0
  BY <1>1 DEF InputIInv, InputTypeOK, Grows
<1>4. PICK l \in Links : Becomes(h, "idle", l, 0, Stdin(h), Says(h, Ack(process[h].at, TRUE)))
  BY CallEndsEffect DEF InputIInv
<1>5. Carries(h)
  BY <1>0, <1>1, <1>3, <1>4, AnswerCarries
<1> QED BY <1>1, <1>2, <1>3, <1>5, HelperPlace

LEMMA CallFailsPlace ==
  ASSUME InputIInv, NEW h \in Helpers, CallFails(h)
  PROVE  AcksInPlace'
<1>0. PICK c0 \in Commands : c0 = process[h].at
  BY CallFact DEF CallFails, Throws
<1>1. UNCHANGED <<spawned, threadVars, acks, astray>> /\ Calling(h) /\ Throws(h)
  BY DEF CallFails, Throws
<1>2. h = spawned
  BY <1>1, CallFact
<1>3. Grows
  <2>1. handed' = handed \/ handed' = [handed EXCEPT ![c0] = @ + 1]
    BY <1>0, <1>1, ThrowsCases DEF Hand
  <2>2. \A c \in Commands : handed[c] \in Nat /\ (handed'[c] = handed[c] \/ handed'[c] = handed[c] + 1)
    BY <2>1 DEF InputIInv, InputTypeOK
  <2> QED BY <2>2 DEF Grows
<1>4. ASSUME \E l \in Links :
               Becomes(h, "idle", l, 0, Stdin(h), Says(h, Ack(process[h].at, FALSE)))
      PROVE  Carries(h)
  BY <1>1, <1>4, AnswerCarries
<1>5. ASSUME \E l \in Links : Becomes(h, "second", l, process[h].at, Stdin(h), Stdout(h))
      PROVE  Carries(h)
  <2>1. /\ Stdin(h)' = Stdin(h) /\ Stdout(h)' = Stdout(h) /\ Calling(h)'
        /\ process'[h].at = process[h].at
    BY <1>5 DEF Becomes, Stdin, Stdout, Calling
  <2>2. \A c \in Commands : InCall(h, c) => InCall(h, c)'
    BY <1>1, <2>1 DEF InCall, NoLine, NoOut, NoAck
  <2> QED BY <1>1, <2>2 DEF Carries, OnItsWay, Nothing, InStdin, InStdout
<1>6. Carries(h)
  BY <1>4, <1>5, CallFailsEffect DEF InputIInv
<1> QED BY <1>1, <1>2, <1>3, <1>6, HelperPlace

LEMMA LandsPlace ==
  ASSUME InputIInv, NEW call \in adrift, Lands(call)
  PROVE  AcksInPlace'
<1>1. /\ UNCHANGED <<spawned, threadVars, acks, astray, process>>
      /\ handed' = [handed EXCEPT ![call[1]] = @ + 1]
  BY DEF Lands
<1>2. call[1] \in Commands
  BY DEF InputIInv, InputTypeOK
<1>3. Grows
  BY <1>1, <1>2 DEF InputIInv, InputTypeOK, Grows
<1>4. \A q \in Helpers : Calm(q)
  BY <1>1 DEF Calm
<1> QED BY <1>1, <1>3, <1>4, CalmCarries, HelperPlace

LEMMA ReadPlace ==
  ASSUME InputIInv, NEW h \in Helpers, Read(h)
  PROVE  AcksInPlace'
<1>0. PICK s \in Helpers, a \in Acks : s = spawned /\ a = Head(Stdout(h))
  BY ReadType, ReadEffect, FieldsNow DEF InputIInv
<1>1. /\ UNCHANGED <<spawned, threadVars, handed>>
      /\ acks' = [acks EXCEPT ![s] = Append(acks[s], a)]
      /\ astray' = IF h = s /\ a.cmd # 0 THEN astray ELSE astray \cup {s}
  BY <1>0 DEF Read, Stdout
<1>2. /\ Stdout(h) # <<>>
      /\ Stdin(h)' = Stdin(h) /\ Stdout(h)' = Tail(Stdout(h)) /\ (Calling(h)' <=> Calling(h))
  BY ReadEffect DEF InputIInv, Becomes, Stdin, Stdout, Calling
<1>3. \A q \in Helpers : q # s => acks'[q] = acks[q]
  BY <1>1 DEF InputIInv, InputTypeOK
<1>4. HasWritten'
  BY <1>1 DEF InputIInv, AcksInPlace, HasWritten
<1>5. PICK m \in Nat : /\ DOMAIN Stdout(h) = 1 .. m + 1 /\ DOMAIN Stdout(h)' = 1 .. m
                       /\ \A i \in 1 .. m : Stdout(h)'[i] = Stdout(h)[i + 1]
                       /\ a = Stdout(h)[1]
  <2>1. Stdout(h) \in Seq(Acks)
    BY FieldsNow DEF InputIInv
  <2>2. /\ DOMAIN Stdout(h) = 1 .. Len(Stdout(h)) /\ Len(Stdout(h)) \in Nat /\ Len(Stdout(h)) > 0
        /\ a = Stdout(h)[1]
    BY <1>0, <1>2, <2>1
  <2>3. /\ Tail(Stdout(h)) \in Seq(Acks) /\ Len(Tail(Stdout(h))) = Len(Stdout(h)) - 1
        /\ \A i \in 1 .. Len(Tail(Stdout(h))) : Tail(Stdout(h))[i] = Stdout(h)[i + 1]
    BY <1>2, <2>1, HeadTailProperties
  <2>4. DOMAIN Tail(Stdout(h)) = 1 .. Len(Tail(Stdout(h)))
    BY <2>3
  <2>5. PICK m \in Nat : m + 1 = Len(Stdout(h)) /\ m = Len(Stdout(h)) - 1
    <3>1. Len(Stdout(h)) - 1 \in Nat /\ Len(Stdout(h)) - 1 + 1 = Len(Stdout(h))
      BY <2>2
    <3> QED BY <3>1
  <2> QED BY <1>2, <2>2, <2>3, <2>4, <2>5
<1>6. ASSUME s \notin astray', NEW c \in Commands, OnItsWay(s, c)
      PROVE  NoLine(s)' /\ ~Calling(s)' /\ NoOut(s)' /\ Queued(s, c)'
  <2>1. h = s /\ a.cmd # 0
    BY <1>1, <1>6
  <2>2. 1 \in DOMAIN Stdout(h) /\ ~NoOut(h)
    BY <1>5, <2>1 DEF NoOut
  <2>3. InStdout(h, c)
    BY <1>6, <2>1, <2>2 DEF OnItsWay, Nothing, InStdin, InCall
  <2>4. PICK i \in DOMAIN Stdout(h) :
          /\ Fits(Stdout(h)[i], c)
          /\ \A j \in DOMAIN Stdout(h) \ {i} : Stdout(h)[j].cmd = 0
    BY <2>3 DEF InStdout
  <2>5. i = 1
    BY <1>5, <2>1, <2>2, <2>4
  <2>6. NoOut(h)'
    <3>1. \A k \in 1 .. m : k + 1 \in DOMAIN Stdout(h) \ {1}
      BY <1>5
    <3> QED BY <1>5, <2>4, <2>5, <3>1 DEF NoOut
  <2>7. Queued(h, c)'
    <3>1. acks[h] = <<>> /\ acks \in [Helpers -> Seq(Acks)]
      BY <2>3 DEF InputIInv, InputTypeOK, Acks, InStdout, NoAck
    <3>2. acks'[h] = Append(<<>>, a)
      BY <1>1, <2>1, <3>1
    <3>3. Len(acks'[h]) = 1 /\ acks'[h][1] = a
      BY <3>2
    <3> QED BY <1>1, <1>5, <2>4, <2>5, <3>3 DEF Queued, Fits
  <2> QED BY <1>2, <2>1, <2>3, <2>6, <2>7 DEF InStdout, NoLine
<1>7. ASSUME s \notin astray'
      PROVE  InPlace(s)'
  <2>1. InPlace(s) /\ h = s /\ a.cmd # 0
    BY <1>0, <1>1, <1>7 DEF InputIInv, AcksInPlace
  <2>2. ~Nothing(s)
    BY <1>5, <2>1 DEF Nothing, NoOut
  <2>3. InFlight(s)' = InFlight(s)
    BY <1>1 DEF InFlight
  <2> QED BY <1>1, <1>6, <1>7, <2>1, <2>2, <2>3 DEF InPlace, OnItsWay
<1>8. ASSUME NEW t \in Threads, NEW q \in Helpers, NEW c \in Commands,
             stage[t] = "wait", queue[t] = q, cmd[t] = c, q \notin astray'
      PROVE  uses[t] = q /\ (NoAck(q)' \/ Queued(q, c)')
  <2>1. uses[t] = q /\ (NoAck(q) \/ Queued(q, c))
    BY <1>1, <1>8 DEF InputIInv, AcksInPlace, Awaited
  <2>2. CASE q # s
    BY <1>1, <1>3, <2>1, <2>2 DEF NoAck, Queued, Fits
  <2>3. CASE q = s
    <3>1. InPlace(s) /\ t \in InFlight(s)
      BY <1>0, <1>1, <1>8, <2>1, <2>3 DEF InputIInv, AcksInPlace, InFlight
    <3> QED BY <1>6, <1>8, <2>1, <2>3, <3>1 DEF InPlace
  <2> QED BY <2>2, <2>3
<1> QED BY <1>0, <1>1, <1>4, <1>7, <1>8 DEF AcksInPlace, Awaited

-----------------------------------------------------------------------------
(* The invariant holds at the start and is kept by every step.             *)
LEMMA InputStarts ==
  ASSUME InputInit
  PROVE  InputIInv
<1>1. InputTypeOK
  <2>1. NoProcess \in Process
    BY DEF NoProcess, Process
  <2>2. 0 \in 0 .. MaxHelpers /\ 0 \in 0 .. MaxCommands /\ 0 \in 0 .. 0 /\ 0 \in 0 .. MaxFaults
    BY InputAssumption, InputParameters
  <2>3. <<>> \in Seq([cmd : Commands \cup {0}, ok : BOOLEAN])
    OBVIOUS
  <2>4. Empty \in [cmd : Commands \cup {0}, late : BOOLEAN]
    BY DEF Empty
  <2> QED BY <2>1, <2>2, <2>3, <2>4 DEF InputInit, InputTypeOK
<1>2. Roles
  <2>1. Going = {}
    BY DEF InputInit, Going
  <2>2. Underway = 0
    BY <2>1, UnderwayFact, FS_EmptySet
  <2> QED BY <2>2, OpenerFact, InputParameters DEF InputInit, Roles
<1>3. \A h \in Helpers : /\ process[h] = NoProcess /\ process[h].state = "none"
                         /\ Stdin(h) = <<>> /\ Stdout(h) = <<>> /\ acks[h] = <<>>
                         /\ ~Live(h) /\ ~Calling(h) /\ h > 0 /\ ~(h <= 0) /\ h # 0
  BY InputParameters DEF InputInit, NoProcess, Stdin, Stdout, Live, Calling, Helpers
<1>4. OneHelper
  BY <1>3 DEF InputInit, OneHelper
<1>5. \A i \in DOMAIN <<>> : FALSE
  OBVIOUS
<1>6. InOrder
  BY <1>3, <1>5 DEF InputInit, InOrder
<1>7. TwoTries
  BY DEF InputInit, TwoTries
<1>8. AcksInPlace
  BY <1>3 DEF InputInit, AcksInPlace, HasWritten, Awaited
<1> QED BY <1>1, <1>2, <1>4, <1>6, <1>7, <1>8 DEF InputIInv

LEMMA InputStutters ==
  ASSUME InputIInv, UNCHANGED inputVars
  PROVE  InputIInv'
<1>1. InputTypeOK' /\ Roles'
  BY UnderwaySame DEF inputVars, InputIInv, InputTypeOK, Roles
<1>2. OneHelper'
  BY QuietOne DEF inputVars, QueuesToCome
<1>3. InOrder'
  BY SameNoNewLines, OrderKept DEF inputVars
<1>4. TwoTries'
  BY QuietTries DEF inputVars
<1>5. AcksInPlace'
  BY CalmCarries, HelperPlace DEF inputVars, Calm, Grows
<1> QED BY <1>1, <1>2, <1>3, <1>4, <1>5 DEF InputIInv

LEMMA ConsoleSteps ==
  ASSUME InputIInv, Open \/ Close \/ \E u \in Senders : Input(u)
  PROVE  InputIInv'
<1>1. CASE Open
  <2>1. InOrder'
    BY <1>1, OpenNoNewLines, OrderKept DEF Open
  <2> QED BY <1>1, <2>1, OpenType, OpenOne, OpenTries, OpenPlace DEF InputIInv
<1>2. CASE Close
  <2>1. Killed /\ spawned \in Helpers /\ Dead(spawned)
    BY <1>2, CloseKills DEF Killed
  <2>2. UNCHANGED <<spawned, acks, threadVars, handed, latest, astray, faults>>
    BY <1>2 DEF Close
  <2>3. OneHelper'
    BY <2>1, <2>2, KilledOne DEF QueuesToCome
  <2>4. InOrder'
    BY <2>1, <2>2, DeadNoNewLines, OrderKept
  <2>5. TwoTries' /\ AcksInPlace'
    BY <2>1, <2>2, DeadTries, KilledPlace
  <2> QED BY <1>2, <2>3, <2>4, <2>5, CloseType DEF InputIInv
<1>3. ASSUME NEW u \in Senders, Input(u)
      PROVE  InputIInv'
  <2>1. OneHelper'
    BY <1>3, QuietOne DEF Input, QueuesToCome
  <2>2. InOrder'
    BY <1>3, SameNoNewLines, OrderKept DEF Input
  <2>3. TwoTries'
    BY <1>3, QuietTries DEF Input
  <2> QED BY <1>3, <2>1, <2>2, <2>3, InputType, InputPlace DEF InputIInv
<1> QED BY <1>1, <1>2, <1>3

LEMMA ThreadSteps ==
  ASSUME InputIInv, NEW t \in Threads,
         Grab(t) \/ NoHelperRuns(t) \/ Write(t) \/ Wait(t) \/ Take(t) \/ TimesOut(t)
  PROVE  InputIInv'
<1>1. CASE Grab(t)
  <2>1. OneHelper'
    BY <1>1, QuietOne DEF Grab, QueuesToCome
  <2>2. InOrder'
    BY <1>1, SameNoNewLines, OrderKept DEF Grab
  <2>3. TwoTries'
    BY <1>1, QuietTries DEF Grab
  <2> QED BY <1>1, <2>1, <2>2, <2>3, GrabType, GrabPlace DEF InputIInv
<1>2. CASE NoHelperRuns(t)
  <2>1. /\ stage[t] # "idle" /\ (Returns(t) \/ Raises(t))
        /\ UNCHANGED <<spawned, acks, written, handed, latest>>
    BY <1>2 DEF NoHelperRuns
  <2>2. OneHelper'
    BY <2>1, LeavesOne DEF QueuesToCome
  <2>3. InOrder'
    BY <2>1, LeavesNoNewLines, OrderKept
  <2>4. TwoTries'
    BY <2>1, LeavesTries
  <2> QED BY <1>2, <2>2, <2>3, <2>4, NoHelperRunsType, NoHelperRunsPlace DEF InputIInv
<1>3. CASE Write(t)
  BY <1>3, WriteType, WriteOne, WriteOrder, WriteTries, WritePlace DEF InputIInv
<1>4. CASE Wait(t)
  <2>1. OneHelper'
    BY <1>4, QuietOne DEF Wait, QueuesToCome
  <2>2. InOrder'
    BY <1>4, SameNoNewLines, OrderKept DEF Wait
  <2>3. TwoTries'
    BY <1>4, QuietTries DEF Wait
  <2> QED BY <1>4, <2>1, <2>2, <2>3, WaitType, WaitPlace DEF InputIInv
<1>5. CASE Take(t)
  <2>1. /\ stage[t] # "idle" /\ (Returns(t) \/ Raises(t))
        /\ UNCHANGED <<spawned, written, handed, latest>>
    BY <1>5 DEF Take
  <2>2. InOrder' /\ TwoTries'
    BY <2>1, LeavesNoNewLines, OrderKept, LeavesTries
  <2> QED BY <1>5, <2>2, TakeType, TakeOne, TakePlace DEF InputIInv
<1>6. CASE TimesOut(t)
  <2>1. /\ stage[t] # "idle" /\ (Returns(t) \/ Raises(t))
        /\ UNCHANGED <<spawned, acks, written, handed, latest>>
    BY <1>6 DEF TimesOut
  <2>2. OneHelper'
    BY <2>1, LeavesOne DEF QueuesToCome
  <2>3. InOrder' /\ TwoTries'
    BY <2>1, LeavesNoNewLines, OrderKept, LeavesTries
  <2> QED BY <1>6, <2>2, <2>3, TimesOutType, TimesOutPlace DEF InputIInv
<1> QED BY <1>1, <1>2, <1>3, <1>4, <1>5, <1>6

LEMMA HelperSteps ==
  ASSUME InputIInv, NEW h \in Helpers,
         Read(h) \/ ProcessDies(h) \/ Starts(h) \/ TakeLine(h) \/ CallEnds(h) \/ CallFails(h)
  PROVE  InputIInv'
<1>1. CASE Read(h)
  <2>1. InOrder'
    BY <1>1, ReadNoNewLines, OrderKept DEF Read
  <2> QED BY <1>1, <2>1, ReadType, ReadOne, ReadTries, ReadPlace DEF InputIInv
<1>2. CASE ProcessDies(h)
  <2>1. Dead(h) /\ UNCHANGED <<spawned, threadVars, acks, astray, handed, latest>>
    BY <1>2 DEF ProcessDies
  <2>2. InOrder'
    BY <2>1, DeadNoNewLines, OrderKept
  <2>3. TwoTries' /\ AcksInPlace'
    BY <2>1, DeadTries, KilledPlace
  <2> QED BY <1>2, <2>2, <2>3, ProcessDiesType, ProcessDiesOne DEF InputIInv
<1>3. CASE Starts(h)
  <2>1. InOrder'
    BY <1>3, StartsNoNewLines, OrderKept DEF Starts
  <2> QED BY <1>3, <2>1, StartsType, StartsOne, StartsTries, StartsPlace DEF InputIInv
<1>4. CASE TakeLine(h)
  BY <1>4, TakeLineType, TakeLineOne, TakeLineOrder, TakeLineTries, TakeLinePlace DEF InputIInv
<1>5. CASE CallEnds(h)
  <2>1. InOrder'
    BY <1>5, CallEndsNoNewLines, OrderTyped DEF CallEnds, Hand
  <2> QED BY <1>5, <2>1, CallEndsType, CallEndsOne, CallEndsTries, CallEndsPlace DEF InputIInv
<1>6. CASE CallFails(h)
  <2>1. written' = written /\ NoNewLines /\ Calling(h) /\ Throws(h)
    BY <1>6, CallFailsNoNewLines DEF CallFails, Throws
  <2>2. latest' = latest \/ latest' = process[h].at
    BY <2>1, ThrowsCases DEF Hand
  <2>3. InOrder'
    BY <2>1, <2>2, OrderKept, OrderTyped
  <2> QED BY <1>6, <2>3, CallFailsType, CallFailsOne, CallFailsTries, CallFailsPlace DEF InputIInv
<1> QED BY <1>1, <1>2, <1>3, <1>4, <1>5, <1>6

LEMMA ServerSteps ==
  ASSUME InputIInv, ServerTypes \/ ServerSwallows
  PROVE  InputIInv'
<1>1. UNCHANGED <<console, spawned, current, channel, threadVars, adrift, handed,
                  latest, astray, faults>>
  BY DEF ServerTypes, ServerSwallows
<1>2. OneHelper'
  BY <1>1, QuietOne DEF QueuesToCome
<1>3. InOrder'
  BY <1>1, SameNoNewLines, OrderKept
<1>4. TwoTries'
  BY <1>1, QuietTries
<1>5. AcksInPlace'
  BY <1>1, CalmCarries, HelperPlace DEF Calm, Grows
<1> QED BY <1>2, <1>3, <1>4, <1>5, ServerType DEF InputIInv

LEMMA LandsSteps ==
  ASSUME InputIInv, NEW call \in adrift, Lands(call)
  PROVE  InputIInv'
<1>1. OneHelper'
  BY QuietOne DEF Lands, QueuesToCome
<1>2. InOrder'
  BY SameNoNewLines, OrderKept DEF Lands
<1> QED BY <1>1, <1>2, LandsType, LandsTries, LandsPlace DEF InputIInv

LEMMA InputInvariance == InputSpec => []InputIInv
<1>1. InputInit => InputIInv
  BY InputStarts
<1>2. InputIInv /\ [InputNext]_inputVars => InputIInv'
  BY InputStutters, ConsoleSteps, ThreadSteps, HelperSteps, LandsSteps, ServerSteps
  DEF InputNext
<1> QED BY <1>1, <1>2, PTL DEF InputSpec

(* The line in the pipe is the last one handed, unless its call was adrift, *)
(* and what was typed is not after it.                                     *)
PipeInOrder ==
  /\ newest <= latest
  /\ pipe # Empty /\ ~pipe.late => pipe.cmd = latest

LEMMA PipeStarts == InputInit => PipeInOrder
BY DEF InputInit, PipeInOrder

LEMMA PipeSteps ==
  ASSUME InputIInv, PipeInOrder, [InputNext]_inputVars
  PROVE  PipeInOrder' /\ newest <= newest'
<1>1. newest \in Nat /\ latest \in Nat /\ newest <= latest
  BY Counters, InputParameters DEF InputIInv, InputTypeOK, PipeInOrder
<1>2. ASSUME UNCHANGED <<latest, serverVars>>
      PROVE  PipeInOrder' /\ newest <= newest'
  BY <1>1, <1>2 DEF PipeInOrder
<1>3. ASSUME NEW h \in Helpers, Calling(h), Hand(process[h].at)
      PROVE  PipeInOrder' /\ newest <= newest'
  <2>1. latest <= process[h].at /\ process[h].at \in Nat
    BY <1>3, CallFact, CommandsFact DEF InputIInv, InOrder
  <2> QED BY <1>1, <1>3, <2>1 DEF Hand, PipeInOrder
<1>4. ASSUME NEW h \in Helpers, CallEnds(h)
      PROVE  PipeInOrder' /\ newest <= newest'
  BY <1>3, <1>4 DEF CallEnds
<1>5. ASSUME NEW h \in Helpers, CallFails(h)
      PROVE  PipeInOrder' /\ newest <= newest'
  BY <1>2, <1>3, <1>5, ThrowsCases DEF CallFails
<1>6. ASSUME NEW call \in adrift, Lands(call)
      PROVE  PipeInOrder' /\ newest <= newest'
  BY <1>1, <1>6 DEF Lands, PipeInOrder
<1>7. CASE ServerTypes
  BY <1>1, <1>7 DEF ServerTypes, PipeInOrder
<1>8. CASE ServerSwallows
  BY <1>1, <1>8 DEF ServerSwallows, PipeInOrder
<1>9. \/ UNCHANGED <<latest, serverVars>>
      \/ \E h \in Helpers : CallEnds(h) \/ CallFails(h)
      \/ \E call \in adrift : Lands(call)
      \/ ServerTypes \/ ServerSwallows
  BY DEF inputVars, InputNext, Open, Spawn, Close, Input, Grab, NoHelperRuns, Write,
         Wait, Take, TimesOut, Read, ProcessDies, Starts, TakeLine
<1> QED BY <1>2, <1>4, <1>5, <1>6, <1>7, <1>8, <1>9

(* Threads, helpers, pipes and queues of the console's input keep their    *)
(* types, with any number of senders, sessions, commands and faults.       *)
THEOREM InputTypeCorrect == InputSpec => []InputTypeOK
<1>1. InputIInv => InputTypeOK
  BY DEF InputIInv
<1> QED BY <1>1, InputInvariance, PTL

(* The acknowledgement that a request takes is that of its own command and *)
(* says ok only of one that was handed to the guest's server, in every     *)
(* session in which none has lost its place (_send_helper, _read_acks, and *)
(* the loop of the helper).                                                *)
THEOREM OwnAckCorrect == InputSpec => []OwnAck
<1>1. InputIInv => OwnAck
  <2> SUFFICES ASSUME InputIInv, NEW t \in Threads,
                      stage[t] = "wait", queue[t] \notin astray, acks[queue[t]] # <<>>
               PROVE  /\ Head(acks[queue[t]]).cmd = cmd[t]
                      /\ Head(acks[queue[t]]).ok => handed[cmd[t]] > 0
    BY DEF OwnAck
  <2>1. PICK q \in Helpers, c \in Commands : q = queue[t] /\ c = cmd[t]
    BY DEF InputIInv, Roles, AcksInPlace, HasWritten
  <2>2. Queued(q, c)
    BY <2>1 DEF InputIInv, AcksInPlace, Awaited, NoAck
  <2>3. acks[q] \in Seq(Acks) /\ acks[q] # <<>>
    BY <2>1 DEF InputIInv, InputTypeOK, Acks
  <2>4. Head(acks[q]) = acks[q][1]
    BY <2>3
  <2> QED BY <2>1, <2>2, <2>4 DEF Queued, Fits
<1> QED BY <1>1, InputInvariance, PTL

(* The server in the guest types no command below one that it has typed,   *)
(* but for calls adrift, and none is handed to it more often than twice:   *)
(* retries, failed calls, killed sessions and late typing included.        *)
THEOREM TypesInOrder == InputSpec => TypedInOrder
<1>1. InputIInv /\ [InputNext]_inputVars => InputIInv'
  BY InputStutters, ConsoleSteps, ThreadSteps, HelperSteps, LandsSteps, ServerSteps
  DEF InputNext
<1>2. ASSUME InputIInv, InputIInv', PipeInOrder, [InputNext]_inputVars
      PROVE  newest <= newest' /\ \A c \in Commands : handed'[c] <= 2
  BY <1>2, PipeSteps DEF InputIInv, TwoTries
<1>3. InputIInv /\ PipeInOrder /\ [InputNext]_inputVars =>
        /\ PipeInOrder'
        /\ [newest <= newest' /\ \A c \in Commands : handed'[c] <= 2]_inputVars
  BY <1>1, <1>2, PipeSteps
<1> QED BY <1>3, PipeStarts, InputInvariance, PTL DEF InputSpec, TypedInOrder
=============================================================================
