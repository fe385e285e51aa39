------------------------------- MODULE Console -------------------------------
(***************************************************************************)
(* Sessions of the interactive console of one VM (orchestrator/console.py):*)
(* a session is opened and closed under _lock by request threads, its      *)
(* frame loop may close it too, and the executor asks used_between() to    *)
(* tag the report of a run.                                                *)
(*                                                                         *)
(* Session k has helper process k and frame loop k.  An action ends where  *)
(* its thread can block: on _lock, on the VM, on the helper.  Input is     *)
(* here only as something that reaches the guest; how commands and acks    *)
(* travel is ConsoleInput's subject.  Frames and coordinates are left out. *)
(***************************************************************************)
EXTENDS Naturals

CONSTANTS Users,       \* request threads
          MaxSessions, \* bound: helpers spawned
          MaxFailures  \* frame failures in a row that end a loop: 5

ASSUME ConsoleAssumption ==
  /\ MaxSessions \in Nat \ {0}
  /\ MaxFailures \in Nat \ {0}
  /\ Users \cap (0 .. MaxSessions) = {}

None == 0
Sessions == 1 .. MaxSessions

VARIABLES vmUp,     \* the VM is Running
          lock,     \* who holds _lock: a user, a session's loop, or None
          open,     \* _open
          stop,     \* _frame_stop
          helper,   \* _helper
          alive,    \* helper processes that run
          orphans,  \* history: helpers of an open() that a thread start ended
          session,  \* sessions begun so far
          loop,     \* per session: where its frame loop is
          failures, \* per session: failed captures in a row
          pc,       \* per user: where the request is
          using,    \* the last entry of _usage has no end
          run,      \* the analysis on this VM
          closedIn, \* a usage window ended since the analysis began
          touched,  \* input reached the guest during the analysis
          tagged    \* interactive_console in its report

sessionVars == <<open, stop, helper, alive, orphans, session>>
runVars == <<run, closedIn, touched, tagged>>
vars == <<vmUp, lock, sessionVars, loop, failures, pc, using, runVars>>

Init ==
  /\ vmUp \in BOOLEAN
  /\ lock = None
  /\ open = FALSE /\ stop = FALSE
  /\ helper = None /\ alive = {} /\ orphans = {} /\ session = 0
  /\ loop = [s \in Sessions |-> "none"]
  /\ failures = [s \in Sessions |-> 0]
  /\ pc = [u \in Users |-> "idle"]
  /\ using = FALSE
  /\ run = "none" /\ closedIn = FALSE /\ touched = FALSE /\ tagged = FALSE

Goto(u, l) == pc' = [pc EXCEPT ![u] = l]

LoopAt(s, l) == loop' = [loop EXCEPT ![s] = l]

-----------------------------------------------------------------------------
(* open() *)

OpenStarts(u) ==
  /\ pc[u] = "idle"
  /\ lock = None
  /\ ~open
  /\ vmUp
  /\ session < MaxSessions
  /\ lock' = u
  /\ Goto(u, "deploying")
  /\ UNCHANGED <<vmUp, sessionVars, loop, failures, using, runVars>>

(* The copy or the start of the input server fails, three times over, or *)
(* the helper cannot be started.                                         *)
DeployFails(u) ==
  /\ pc[u] = "deploying"
  /\ lock' = None
  /\ Goto(u, "idle")
  /\ UNCHANGED <<vmUp, sessionVars, loop, failures, using, runVars>>

(* _spawn_helper and the screeninfo command. *)
SpawnHelper(u) ==
  /\ pc[u] = "deploying"
  /\ vmUp
  /\ session' = session + 1
  /\ helper' = session'
  /\ alive' = alive \cup {session'}
  /\ Goto(u, "screeninfo")
  /\ UNCHANGED <<vmUp, lock, open, stop, orphans, loop, failures, using, runVars>>

(* The thread that reads its acks does not start: open() raises, outside   *)
(* its try, and the helper runs on.                                        *)
ReaderStartFails(u) ==
  /\ pc[u] = "deploying"
  /\ vmUp
  /\ session' = session + 1
  /\ helper' = session'
  /\ alive' = alive \cup {session'}
  /\ orphans' = orphans \cup {session'}
  /\ lock' = None
  /\ Goto(u, "idle")
  /\ UNCHANGED <<vmUp, open, stop, loop, failures, using, runVars>>

ScreenInfoFails_LeavesHelper(u) ==
  /\ pc[u] = "screeninfo"
  /\ helper' = None
  /\ lock' = None
  /\ Goto(u, "idle")
  /\ UNCHANGED <<vmUp, open, stop, alive, orphans, session, loop, failures, using, runVars>>

(* The helper answers with an error: _stop_helper, and open() raises. *)
ScreenInfoFails(u) ==
  /\ pc[u] = "screeninfo"
  /\ helper' = None
  /\ alive' = alive \ {helper}
  /\ lock' = None
  /\ Goto(u, "idle")
  /\ UNCHANGED <<vmUp, open, stop, orphans, session, loop, failures, using, runVars>>

(* A good answer, or none in time: the frame loop starts, before _open is  *)
(* set.                                                                    *)
LoopStarts(u) ==
  /\ pc[u] = "screeninfo"
  /\ stop' = FALSE
  /\ LoopAt(session, "enter")
  /\ Goto(u, "opening")
  /\ UNCHANGED <<vmUp, lock, open, helper, alive, orphans, session, failures,
                 using, runVars>>

(* Or its thread does not start, and open() raises. *)
LoopStartFails(u) ==
  /\ pc[u] = "screeninfo"
  /\ stop' = FALSE
  /\ orphans' = orphans \cup {helper}
  /\ lock' = None
  /\ Goto(u, "idle")
  /\ UNCHANGED <<vmUp, open, helper, alive, session, loop, failures, using, runVars>>

(* The four assignments after the start are one step: none of them blocks, *)
(* and a loop that reads an older _last_activity meanwhile leaves by the   *)
(* idle branch of LoopCaptures or LoopFails.                               *)
OpenEnds(u) ==
  /\ pc[u] = "opening"
  /\ open' = TRUE
  /\ using' = TRUE
  /\ lock' = None
  /\ Goto(u, "idle")
  /\ UNCHANGED <<vmUp, stop, helper, alive, orphans, session, loop, failures, runVars>>

-----------------------------------------------------------------------------
(* close(), by a user or by a frame loop *)

CloseStarts(u) ==
  /\ pc[u] = "idle"
  /\ lock = None
  /\ open
  /\ stop' = TRUE
  /\ lock' = u
  /\ Goto(u, "closing")
  /\ UNCHANGED <<vmUp, open, helper, alive, orphans, session, loop, failures, using, runVars>>

(* console_input_server_stop has returned or failed; then the rest. *)
Closed ==
  /\ helper' = None
  /\ alive' = alive \ {helper}
  /\ open' = FALSE
  /\ using' = FALSE
  /\ closedIn' = (closedIn \/ run \in {"running", "ending"})
  /\ lock' = None

CloseEnds(u) ==
  /\ pc[u] = "closing"
  /\ Closed
  /\ Goto(u, "idle")
  /\ UNCHANGED <<vmUp, stop, orphans, session, loop, failures, run, touched, tagged>>

-----------------------------------------------------------------------------
(* _frame_loop *)

LoopEnters(s) ==
  /\ loop[s] = "enter"
  /\ LoopAt(s, "test")
  /\ UNCHANGED <<vmUp, lock, sessionVars, failures, pc, using, runVars>>

(* The frame directory cannot be made, and the thread is gone. *)
LoopDies(s) ==
  /\ loop[s] = "enter"
  /\ LoopAt(s, "lost")
  /\ UNCHANGED <<vmUp, lock, sessionVars, failures, pc, using, runVars>>

LoopTests(s) ==
  /\ loop[s] = "test"
  /\ LoopAt(s, IF stop THEN "leaving" ELSE "capturing")
  /\ UNCHANGED <<vmUp, lock, sessionVars, failures, pc, using, runVars>>

(* A captured frame; the loop may then find the console idle. *)
LoopCaptures(s) ==
  /\ loop[s] = "capturing"
  /\ vmUp
  /\ failures' = [failures EXCEPT ![s] = 0]
  /\ \E l \in {"test", "leaving"} : LoopAt(s, l)
  /\ UNCHANGED <<vmUp, lock, sessionVars, pc, using, runVars>>

LoopFails_CountsFromZero(s) ==
  /\ loop[s] = "capturing"
  /\ failures' = [failures EXCEPT ![s] = 0]
  /\ LoopAt(s, "test")
  /\ UNCHANGED <<vmUp, lock, sessionVars, pc, using, runVars>>

(* A failed one, with the VM down or up.  The idle test comes after it too. *)
LoopFails(s) ==
  /\ loop[s] = "capturing"
  /\ failures' = [failures EXCEPT ![s] = @ + 1]
  /\ \E l \in {"test", "leaving"} :
       /\ failures'[s] >= MaxFailures => l = "leaving"
       /\ LoopAt(s, l)
  /\ UNCHANGED <<vmUp, lock, sessionVars, pc, using, runVars>>

(* A loop that closes nothing; its session may not even be open yet.       *)
Over(s) ==
  IF s = session /\ (\E u \in Users : pc[u] = "opening") THEN "lost" ELSE "ended"

LoopLeaves_OnlyIfStopped(s) ==
  /\ loop[s] = "leaving"
  /\ LoopAt(s, IF open /\ stop THEN "closing" ELSE Over(s))
  /\ UNCHANGED <<vmUp, lock, sessionVars, failures, pc, using, runVars>>

(* The loop is over: it closes the console if it reads _open as true.      *)
LoopLeaves(s) ==
  /\ loop[s] = "leaving"
  /\ LoopAt(s, IF open THEN "closing" ELSE Over(s))
  /\ UNCHANGED <<vmUp, lock, sessionVars, failures, pc, using, runVars>>

LoopCloses(s) ==
  /\ loop[s] = "closing"
  /\ lock = None
  /\ open
  /\ stop' = TRUE
  /\ lock' = s
  /\ LoopAt(s, "stopping")
  /\ UNCHANGED <<vmUp, open, helper, alive, orphans, session, failures, pc, using, runVars>>

LoopFindsItClosed(s) ==
  /\ loop[s] = "closing"
  /\ lock = None
  /\ ~open
  /\ LoopAt(s, "ended")
  /\ UNCHANGED <<vmUp, lock, sessionVars, failures, pc, using, runVars>>

LoopCloseEnds(s) ==
  /\ loop[s] = "stopping"
  /\ Closed
  /\ LoopAt(s, "ended")
  /\ UNCHANGED <<vmUp, stop, orphans, session, failures, pc, run, touched, tagged>>

-----------------------------------------------------------------------------
(* The helper, the VM, and a run on it *)

HelperDies(h) ==
  /\ h \in alive
  /\ alive' = alive \ {h}
  /\ UNCHANGED <<vmUp, lock, open, stop, helper, orphans, session, loop, failures,
                 pc, using, runVars>>

(* A command of an open console's user takes effect in the guest. *)
InputLands(h) ==
  /\ h = helper
  /\ h \in alive
  /\ open
  /\ vmUp
  /\ touched' = (touched \/ run = "running")
  /\ UNCHANGED <<vmUp, lock, sessionVars, loop, failures, pc, using, run,
                 closedIn, tagged>>

VMGoesDown ==
  /\ vmUp
  /\ vmUp' = FALSE
  /\ UNCHANGED <<lock, sessionVars, loop, failures, pc, using, runVars>>

RunStarts ==
  /\ run = "none"
  /\ run' = "running"
  /\ vmUp' = TRUE
  /\ UNCHANGED <<lock, sessionVars, loop, failures, pc, using, closedIn, touched, tagged>>

RunStopsVM ==
  /\ run = "running"
  /\ run' = "ending"
  /\ vmUp' = FALSE
  /\ UNCHANGED <<lock, sessionVars, loop, failures, pc, using, closedIn, touched, tagged>>

RunReports_OpenNow ==
  /\ run = "ending"
  /\ run' = "reported"
  /\ tagged' = using
  /\ UNCHANGED <<vmUp, lock, sessionVars, loop, failures, pc, using, closedIn, touched>>

(* used_between(started, now): some usage window meets the run. *)
RunReports ==
  /\ run = "ending"
  /\ run' = "reported"
  /\ tagged' = (using \/ closedIn)
  /\ UNCHANGED <<vmUp, lock, sessionVars, loop, failures, pc, using, closedIn, touched>>

UserStep(u) ==
  \/ DeployFails(u) \/ SpawnHelper(u) \/ ReaderStartFails(u)
  \/ ScreenInfoFails(u) \/ LoopStarts(u) \/ LoopStartFails(u) \/ OpenEnds(u)
  \/ CloseEnds(u)

LoopStep(s) ==
  \/ LoopEnters(s) \/ LoopDies(s) \/ LoopTests(s) \/ LoopCaptures(s) \/ LoopFails(s)
  \/ LoopLeaves(s) \/ LoopCloses(s) \/ LoopFindsItClosed(s) \/ LoopCloseEnds(s)

Next ==
  \/ \E u \in Users : OpenStarts(u) \/ CloseStarts(u) \/ UserStep(u)
  \/ \E s \in Sessions : LoopStep(s) \/ HelperDies(s) \/ InputLands(s)
  \/ VMGoesDown \/ RunStarts \/ RunStopsVM \/ RunReports

Spec == Init /\ [][Next]_vars

(* Threads run and every call of theirs has a timeout.  Nobody has to open  *)
(* or close a console.                                                      *)
FairSpec ==
  /\ Spec
  /\ \A u \in Users : WF_vars(UserStep(u))
  /\ \A s \in Sessions : WF_vars(LoopStep(s))

-----------------------------------------------------------------------------
TypeOK ==
  /\ vmUp \in BOOLEAN /\ open \in BOOLEAN /\ stop \in BOOLEAN
  /\ lock \in {None} \cup Users \cup Sessions
  /\ helper \in 0 .. MaxSessions /\ session \in 0 .. MaxSessions
  /\ alive \subseteq Sessions /\ orphans \subseteq Sessions
  /\ loop \in [Sessions -> {"none", "enter", "test", "capturing", "leaving",
                            "closing", "stopping", "ended", "lost"}]
  /\ failures \in [Sessions -> 0 .. MaxFailures]
  /\ pc \in [Users -> {"idle", "deploying", "screeninfo", "opening", "closing"}]
  /\ using \in BOOLEAN
  /\ run \in {"none", "running", "ending", "reported"}
  /\ closedIn \in BOOLEAN /\ touched \in BOOLEAN /\ tagged \in BOOLEAN

(* No PowerShell helper outlives its session, whatever mix of failed opens, *)
(* closes by users and closes by frame loops came before: the only helper   *)
(* process there can be is the one that _helper names, and outside open()   *)
(* and close() it is there only for an open console.  The exceptions are    *)
(* the helpers of an open() that ended because a thread of its own did not  *)
(* start, which nothing in the code stops.                                  *)
NoStrayHelper ==
  /\ alive \subseteq {helper} \cup orphans
  /\ lock = None /\ ~open => alive \subseteq orphans

(* A console that is open has the frame loop of its own session: somebody   *)
(* will notice that the VM went away or that nobody is watching, although   *)
(* older loops share its stop event.  The exception is a loop that died as  *)
(* it began, or was over before open() had set _open.                       *)
OpenIsWatched == open => loop[session] \notin {"none", "ended"}

(* The report of a run says interactive_console whenever an input command   *)
(* of an open console reached the guest during the run, even if the console *)
(* was closed, or closed itself, before the report was built.               *)
TouchedIsTagged == run = "reported" /\ touched => tagged

(* Once the VM is gone for good, so are the console and its helper, but    *)
(* for a console whose loop was lost as it began and for the helpers that   *)
(* failed opens left.                                                       *)
SessionEndsWithVM ==
  <>[]~vmUp => <>[](/\ open => loop[session] = "lost"
                    /\ ~open => alive \subseteq orphans)
=============================================================================
