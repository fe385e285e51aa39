---------------------------- MODULE ConsoleInput -----------------------------
(***************************************************************************)
(* The input channel of the interactive console: the threads that send     *)
(* commands (orchestrator/console.py, _send_helper), the PowerShell helper *)
(* of each session (scripts/console_session.ps1) and the guest that types  *)
(* them (agent/windows/console_input_server.ps1).  Sessions as such, their *)
(* frame loops and the VM are module Console.                              *)
(*                                                                         *)
(* Commands are numbered in the order in which they are written to a       *)
(* helper.  Helper h is the one that the h-th _spawn_helper started, and   *)
(* queue h the one it made.                                                *)
(***************************************************************************)
EXTENDS Integers, Sequences, FiniteSets

CONSTANTS Senders,     \* request threads that send input
          StdinCap,    \* commands that fit into the helper's stdin
          MaxHelpers,  \* bound: times the console is opened
          MaxCommands, \* bound: commands written
          MaxFaults    \* bound: helpers that die, sessions and first calls
                       \* that fail

ASSUME InputAssumption ==
  /\ IsFiniteSet(Senders) /\ "opener" \notin Senders
  /\ {StdinCap, MaxHelpers, MaxCommands} \subseteq Nat \ {0}
  /\ MaxFaults \in Nat

Opener == "opener" \* the thread inside open(), which asks for the screen
Threads == Senders \cup {Opener}
Helpers == 1 .. MaxHelpers
Commands == 1 .. MaxCommands

VARIABLES console, \* _open, and whether a thread is inside open()
          spawned, \* helpers spawned so far; the last one's queue is _acks
          current, \* _helper, 0 for None
          process, \* Helpers -> the helper process
          acks,    \* Helpers -> the acknowledgement queues
          stage,   \* where each thread is in input() and _send_helper
          uses,    \* the helper it has got
          queue,   \* the queue it waits on
          cmd,     \* the command it has written
          written, \* commands written so far
          adrift,  \* guest calls that go on although their session is gone
          handed,  \* history: times each command was written to the pipe
          latest,  \* history: the last one that was, but for calls adrift
          pipe,    \* the line in the guest server's pipe
          newest,  \* history: the last one typed, but for calls adrift
          astray,  \* history: sessions in which an ack may have lost its place
          faults   \* faults so far

channel == <<process, acks>>
threadVars == <<stage, uses, queue, cmd, written>>
serverVars == <<pipe, newest>>
guestVars == <<adrift, handed, latest, serverVars>>
inputVars == <<console, spawned, current, channel, threadVars, guestVars, astray, faults>>

(* link: $sess is not there, usable, or a session that has been removed.   *)
Process ==
  [state : {"none", "starting", "idle", "first", "second", "dead"},
   link : {"no", "up", "broken"}, at : Commands \cup {0},
   stdin : Seq(Commands), stdout : Seq([cmd : Commands \cup {0}, ok : BOOLEAN])]

Empty == [cmd |-> 0, late |-> FALSE]
NoProcess == [state |-> "none", link |-> "no", at |-> 0, stdin |-> <<>>, stdout |-> <<>>]

InputInit ==
  /\ console = "closed"
  /\ spawned = 0
  /\ current = 0
  /\ process = [h \in Helpers |-> NoProcess]
  /\ acks = [q \in Helpers |-> <<>>]
  /\ stage = [t \in Threads |-> "idle"]
  /\ uses = [t \in Threads |-> 0]
  /\ queue = [t \in Threads |-> 0]
  /\ cmd = [t \in Threads |-> 0]
  /\ written = 0
  /\ adrift = {}
  /\ handed = [c \in Commands |-> 0]
  /\ latest = 0
  /\ pipe = Empty
  /\ newest = 0
  /\ astray = {}
  /\ faults = 0

Calling(h) == process[h].state \in {"first", "second"}
Ack(c, ok) == [cmd |-> c, ok |-> ok]
Call(h) == <<process[h].at, process[h].state>>

(* Commands still to be written by threads on their way to it (a bound).   *)
Underway == Cardinality({t \in Threads : stage[t] \in {"checked", "write"}})

-----------------------------------------------------------------------------
(* Opening and closing.                                                    *)

(* _spawn_helper: a new queue first, then the process and its reader.      *)
Spawn_KeepsAcks ==
  /\ spawned' = spawned + 1
  /\ current' = spawned + 1
  /\ process' = [process EXCEPT ![spawned + 1].state = "starting"]
  /\ acks' = IF spawned = 0 THEN acks ELSE [acks EXCEPT ![spawned + 1] = acks[spawned]]

Spawn ==
  /\ spawned' = spawned + 1
  /\ current' = spawned + 1
  /\ process' = [process EXCEPT ![spawned + 1].state = "starting"]
  /\ UNCHANGED acks

Fault == faults < MaxFaults /\ faults' = faults + 1

Open ==
  /\ console = "closed"
  /\ spawned < MaxHelpers
  /\ written + Underway < MaxCommands
  /\ console' = "opening"
  /\ Spawn
  /\ stage' = [stage EXCEPT ![Opener] = "checked"]
  /\ UNCHANGED <<uses, queue, cmd, written, guestVars, astray, faults>>

(* A helper that is killed, or dies, with a call in the guest does not end *)
(* the call.                                                               *)
Dead(h) ==
  /\ process' = [process EXCEPT ![h] =
       [NoProcess EXCEPT !.state = "dead", !.stdout = process[h].stdout]]
  /\ adrift' = IF Calling(h) THEN adrift \cup {Call(h)} ELSE adrift

Close ==
  /\ console = "open"
  /\ console' = "closed"
  /\ current' = 0
  /\ Dead(current)
  /\ UNCHANGED <<spawned, acks, threadVars, handed, latest, serverVars, astray, faults>>

ProcessDies(h) ==
  /\ process[h].state \notin {"none", "dead"}
  /\ Fault
  /\ Dead(h)
  /\ UNCHANGED <<console, spawned, current, acks, threadVars, handed, latest, serverVars, astray>>

-----------------------------------------------------------------------------
(* The threads.                                                            *)

(* input() looks at _open, without the lock.                               *)
Input(u) ==
  /\ stage[u] = "idle"
  /\ console = "open"
  /\ written + Underway < MaxCommands
  /\ stage' = [stage EXCEPT ![u] = "checked"]
  /\ UNCHANGED <<console, spawned, current, channel, uses, queue, cmd, written,
                 guestVars, astray, faults>>

(* _send_helper takes the helper there is now, if it runs.                 *)
Running(h) == h # 0 /\ process[h].state # "dead"

Grab(t) ==
  /\ stage[t] = "checked"
  /\ Running(current)
  /\ stage' = [stage EXCEPT ![t] = "write"]
  /\ uses' = [uses EXCEPT ![t] = current]
  /\ UNCHANGED <<console, spawned, current, channel, queue, cmd, written,
                 guestVars, astray, faults>>

(* Two commands in flight on one helper: their acks may be swapped.        *)
InFlight(h) == {t \in Threads : stage[t] \in {"written", "wait"} /\ uses[t] = h}

Write(t) ==
  /\ stage[t] = "write"
  /\ Running(uses[t])
  /\ Len(process[uses[t]].stdin) < StdinCap
  /\ written' = written + 1
  /\ cmd' = [cmd EXCEPT ![t] = written + 1]
  /\ process' = [process EXCEPT ![uses[t]].stdin = Append(@, written + 1)]
  /\ stage' = [stage EXCEPT ![t] = "written"]
  /\ astray' = IF InFlight(uses[t]) = {} THEN astray ELSE astray \cup {uses[t]}
  /\ UNCHANGED <<console, spawned, current, acks, uses, queue, guestVars, faults>>

(* self._acks is read after the command is written.                        *)
Wait(t) ==
  /\ stage[t] = "written"
  /\ stage' = [stage EXCEPT ![t] = "wait"]
  /\ queue' = [queue EXCEPT ![t] = spawned]
  /\ astray' = IF uses[t] = spawned THEN astray ELSE astray \cup {spawned}
  /\ UNCHANGED <<console, spawned, current, channel, uses, cmd, written, guestVars, faults>>

(* How _send_helper ends: input() returns or raises and nothing else       *)
(* happens; open() goes on, or kills the helper and raises.                *)
Leaves(t) ==
  /\ stage' = [stage EXCEPT ![t] = "idle"]
  /\ uses' = [uses EXCEPT ![t] = 0]
  /\ queue' = [queue EXCEPT ![t] = 0]
  /\ cmd' = [cmd EXCEPT ![t] = 0]

Returns(t) ==
  /\ Leaves(t)
  /\ console' = IF t = Opener THEN "open" ELSE console
  /\ UNCHANGED <<current, process, adrift>>

Raises(t) ==
  /\ Leaves(t)
  /\ IF t = Opener
     THEN console' = "closed" /\ current' = 0 /\ Dead(current)
     ELSE UNCHANGED <<console, current, process, adrift>>

NoHelperRuns(t) ==
  /\ \/ stage[t] = "checked" /\ ~Running(current)
     \/ stage[t] = "write" /\ ~Running(uses[t])
  /\ Raises(t)
  /\ UNCHANGED <<spawned, acks, written, handed, latest, serverVars, astray, faults>>

Take(t) ==
  /\ stage[t] = "wait"
  /\ acks[queue[t]] # <<>>
  /\ acks' = [acks EXCEPT ![queue[t]] = Tail(@)]
  /\ IF Head(acks[queue[t]]).ok THEN Returns(t) ELSE Raises(t)
  /\ UNCHANGED <<spawned, written, handed, latest, serverVars, astray, faults>>

(* queue.Empty after input_timeout_seconds: None, which is no failure.     *)
TimesOut_Never(t) == FALSE /\ UNCHANGED inputVars

TimesOut(t) ==
  /\ stage[t] = "wait"
  /\ acks[queue[t]] = <<>>
  /\ Returns(t)
  /\ astray' = astray \cup {queue[t]}
  /\ UNCHANGED <<spawned, acks, written, handed, latest, serverVars, faults>>

(* _read_acks of helper h puts what it reads into the queue that _acks is  *)
(* now, also when h is gone and its last lines are still in the pipe.      *)
Read(h) ==
  /\ process[h].stdout # <<>>
  /\ LET ack == Head(process[h].stdout)
     IN  /\ acks' = [acks EXCEPT ![spawned] = Append(@, ack)]
         /\ astray' = IF h = spawned /\ ack.cmd # 0 THEN astray ELSE astray \cup {spawned}
  /\ process' = [process EXCEPT ![h].stdout = Tail(@)]
  /\ UNCHANGED <<console, spawned, current, threadVars, guestVars, faults>>

-----------------------------------------------------------------------------
(* The helper.                                                             *)

Says(h, ack) == Append(process[h].stdout, ack)

(* New-ConsoleSession at the start; its failure is an ack of no command.   *)
Starts(h) ==
  /\ process[h].state = "starting"
  /\ \/ /\ process' = [process EXCEPT ![h].state = "idle", ![h].link = "up"]
        /\ UNCHANGED faults
     \/ /\ process' = [process EXCEPT ![h].state = "idle", ![h].stdout = Says(h, Ack(0, FALSE))]
        /\ Fault
  /\ UNCHANGED <<console, spawned, current, acks, threadVars, guestVars, astray>>

(* A line is read, and a session made if there is none.                    *)
TakeLine(h) ==
  /\ process[h].state = "idle"
  /\ process[h].stdin # <<>>
  /\ LET c == Head(process[h].stdin)
         rest == [process[h] EXCEPT !.stdin = Tail(@)]
     IN  \/ /\ process' = [process EXCEPT ![h] = [rest EXCEPT
                 !.state = "first", !.at = c, !.link = IF @ = "no" THEN "up" ELSE @]]
            /\ UNCHANGED faults
         \/ /\ process[h].link = "no"
            /\ process' = [process EXCEPT ![h] = [rest EXCEPT !.stdout = Says(h, Ack(c, FALSE))]]
            /\ Fault
  /\ UNCHANGED <<console, spawned, current, acks, threadVars, guestVars, astray>>

(* The line of a command is written to the pipe.  The server has only one  *)
(* instance of it: nobody connects before it is done with the last client. *)
Hand(c) ==
  /\ pipe = Empty
  /\ pipe' = [cmd |-> c, late |-> FALSE]
  /\ handed' = [handed EXCEPT ![c] = @ + 1]
  /\ latest' = c
  /\ UNCHANGED newest

(* Invoke-GuestInput: 200 ms after the line was written, and without a     *)
(* word from the server, the command is acknowledged.                      *)
CallEnds(h) ==
  /\ Calling(h)
  /\ process[h].link = "up"
  /\ Hand(process[h].at)
  /\ process' = [process EXCEPT ![h].state = "idle", ![h].at = 0,
                              ![h].stdout = Says(h, Ack(process[h].at, TRUE))]
  /\ UNCHANGED <<console, spawned, current, acks, threadVars, adrift, astray, faults>>

(* It throws: before the line was written, after it, or while the guest is *)
(* still at it; Connect() does while the server has another client.  A     *)
(* removed session throws at once.                                         *)
Throws(h) ==
  /\ Calling(h)
  /\ \/ process[h].link = "broken" /\ UNCHANGED <<guestVars, faults>>
     \/ process[h].link = "up" /\ pipe # Empty /\ UNCHANGED <<guestVars, faults>>
     \/ /\ process[h].link = "up"
        /\ IF process[h].state = "first" THEN Fault ELSE UNCHANGED faults
        /\ \/ UNCHANGED guestVars
           \/ Hand(process[h].at) /\ UNCHANGED adrift
           \/ adrift' = adrift \cup {Call(h)} /\ UNCHANGED <<handed, latest, serverVars>>

(* One reconnect attempt, then the failure is reported.  $sess is still    *)
(* the removed session when no new one could be made.                      *)
Reports(h, link) ==
  process' = [process EXCEPT ![h].state = "idle", ![h].link = link, ![h].at = 0,
                           ![h].stdout = Says(h, Ack(process[h].at, FALSE))]

CallFails_Requeues(h) ==
  /\ Throws(h)
  /\ \/ process[h].state = "second" /\ Reports(h, "up")
     \/ process[h].state = "first" /\ Reports(h, "broken")
     \/ /\ process[h].state = "first"
        /\ process' = [process EXCEPT ![h].state = "idle", ![h].link = "up", ![h].at = 0,
                                    ![h].stdin = Append(@, process[h].at)]
  /\ UNCHANGED <<console, spawned, current, acks, threadVars, astray>>

CallFails(h) ==
  /\ Throws(h)
  /\ \/ process[h].state = "second" /\ Reports(h, "up")
     \/ process[h].state = "first" /\ Reports(h, "broken")
     \/ /\ process[h].state = "first"
        /\ process' = [process EXCEPT ![h].state = "second", ![h].link = "up"]
  /\ UNCHANGED <<console, spawned, current, acks, threadVars, astray>>

(* A call adrift reaches the server after all.                             *)
Lands(call) ==
  /\ call \in adrift
  /\ pipe = Empty
  /\ pipe' = [cmd |-> call[1], late |-> TRUE]
  /\ adrift' = adrift \ {call}
  /\ handed' = [handed EXCEPT ![call[1]] = @ + 1]
  /\ UNCHANGED <<console, spawned, current, channel, threadVars, latest, newest,
                 astray, faults>>

-----------------------------------------------------------------------------
(* The server in the guest.                                                *)

ServerTypes ==
  /\ pipe # Empty
  /\ pipe' = Empty
  /\ newest' = IF pipe.late THEN newest ELSE pipe.cmd
  /\ UNCHANGED <<console, spawned, current, channel, threadVars, adrift, handed,
                 latest, astray, faults>>

(* An error in the command or in the pipe goes into the server's log, or   *)
(* the server is stopped with the line unread.  Nobody is told.            *)
ServerSwallows ==
  /\ pipe # Empty
  /\ pipe' = Empty
  /\ UNCHANGED <<console, spawned, current, channel, threadVars, adrift, handed,
                 latest, newest, astray, faults>>

-----------------------------------------------------------------------------
ThreadStep(t) == Grab(t) \/ NoHelperRuns(t) \/ Write(t) \/ Wait(t) \/ Take(t) \/ TimesOut(t)
HelperStep(h) == Starts(h) \/ TakeLine(h) \/ CallEnds(h) \/ CallFails(h)

InputNext ==
  \/ Open \/ Close
  \/ \E u \in Senders : Input(u)
  \/ \E t \in Threads : Grab(t)
  \/ \E t \in Threads : NoHelperRuns(t)
  \/ \E t \in Threads : Write(t)
  \/ \E t \in Threads : Wait(t)
  \/ \E t \in Threads : Take(t)
  \/ \E t \in Threads : TimesOut(t)
  \/ \E h \in Helpers : Read(h)
  \/ \E h \in Helpers : ProcessDies(h)
  \/ \E h \in Helpers : Starts(h)
  \/ \E h \in Helpers : TakeLine(h)
  \/ \E h \in Helpers : CallEnds(h)
  \/ \E h \in Helpers : CallFails(h)
  \/ \E call \in adrift : Lands(call)
  \/ ServerTypes
  \/ ServerSwallows

InputSpec == InputInit /\ [][InputNext]_inputVars

(* Threads run, get() times out, and every guest call ends: Connect() has  *)
(* a limit of 5 s, and PowerShell Direct limits of its own.                *)
InputFairSpec ==
  /\ InputSpec
  /\ \A t \in Threads : WF_inputVars(ThreadStep(t))
  /\ \A h \in Helpers : WF_inputVars(HelperStep(h)) /\ WF_inputVars(Read(h))

-----------------------------------------------------------------------------
InputTypeOK ==
  /\ console \in {"closed", "opening", "open"}
  /\ spawned \in 0 .. MaxHelpers
  /\ current \in {0, spawned}
  /\ process \in [Helpers -> Process]
  /\ acks \in [Helpers -> Seq([cmd : Commands \cup {0}, ok : BOOLEAN])]
  /\ stage \in [Threads -> {"idle", "checked", "write", "written", "wait"}]
  /\ uses \in [Threads -> 0 .. spawned]
  /\ queue \in [Threads -> 0 .. spawned]
  /\ cmd \in [Threads -> 0 .. written]
  /\ written \in 0 .. MaxCommands
  /\ adrift \subseteq Commands \X {"first", "second"}
  /\ handed \in [Commands -> Nat]
  /\ latest \in 0 .. written
  /\ pipe \in [cmd : Commands \cup {0}, late : BOOLEAN]
  /\ newest \in 0 .. MaxCommands
  /\ astray \subseteq Helpers
  /\ faults \in 0 .. MaxFaults

(* "consume its ack": the ack that a command is about to take is its own,  *)
(* and says ok only of a command that was handed to the guest's server, as *)
(* long as nothing in the session has lost its place: no two commands in   *)
(* flight at once, no get() that timed out, no ack of a failed start, none *)
(* of an earlier helper.  The first time one of these happens, the acks of *)
(* the rest of the session may be those of other commands.                 *)
OwnAck ==
  \A t \in Threads :
    stage[t] = "wait" /\ queue[t] \notin astray /\ acks[queue[t]] # <<>> =>
      LET ack == Head(acks[queue[t]])
      IN  ack.cmd = cmd[t] /\ (ack.ok => handed[cmd[t]] > 0)

(* The guest types commands in the order they were written, whatever the   *)
(* retries, failed calls and sessions, and however long after the ack;     *)
(* only a call adrift comes late.  None is handed to it, and so typed, more *)
(* often than twice, and twice only by a retry.                            *)
TypedInOrder ==
  [][newest <= newest' /\ \A c \in Commands : handed'[c] <= 2]_inputVars

(* Every request returns or raises, although the helper may die with the   *)
(* command in its hands and never acknowledge it.                          *)
InputReturns == \A t \in Threads : stage[t] # "idle" ~> stage[t] = "idle"
==============================================================================
