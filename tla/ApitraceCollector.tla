-------------------------- MODULE ApitraceCollector --------------------------
(***************************************************************************)
(* How the events of traced processes get into apitrace.jsonl: the pipe    *)
(* end of the monitor in each process (agent/windows/monitor_src/monitor/  *)
(* monitor.cpp) and the threads of the collector that serve it             *)
(* (agent/windows/apitrace_collector.py).  Module Detonation is what reads *)
(* the file of pids that the collector keeps.                              *)
(*                                                                         *)
(* An event is its number among those of its process, in the order of the  *)
(* hooked calls; Lost is the __pipe_lost__ event.                          *)
(***************************************************************************)
EXTENDS Integers, Sequences, Functions

CONSTANTS Procs,     \* traced processes, by pid
          None,      \* no process
          BufCap,    \* events that fit into a pipe
          MaxEvents, \* bound: hooked calls of all processes
          MaxFaults  \* bound: failed calls of the collector

ASSUME CollectorAssumption ==
  /\ {None, "stop"} \cap Procs = {}
  /\ BufCap \in Nat \ {0}
  /\ MaxEvents \in Nat /\ MaxFaults \in Nat

Lost == 0

VARIABLES alive,  \* processes that have not exited
          link,   \* g_pipe of each: Procs -> where its handle leads
          sent,   \* hooked calls of each so far
          pipe,   \* what each has written and no thread has read
          chunk,  \* what its reader thread has read and not handled
          reader, \* its _read_client thread
          accept, \* the _accept_loop thread
          at,     \* the process connected to the pending pipe instance
          main,   \* the main thread
          stop,   \* _stop
          pids,   \* the set of pids
          dirty,  \* _pids_dirty
          snap,   \* the pids that _write_pids is writing
          file,   \* the file of pids
          out,    \* apitrace.jsonl: Procs -> its events in it
          faults, \* failed calls so far
          missed, \* history: pids added while the file was being written
          quiet   \* history: processes that could not reconnect at once

pipeVars == <<link, pipe, chunk, reader, accept, at>>
pidVars == <<pids, dirty, snap, file, missed>>
vars == <<alive, sent, pipeVars, main, stop, pidVars, out, faults, quiet>>

Init ==
  /\ alive = Procs
  /\ link = [p \in Procs |-> "new"]
  /\ sent = [p \in Procs |-> 0]
  /\ pipe = [p \in Procs |-> <<>>]
  /\ chunk = [p \in Procs |-> <<>>]
  /\ reader = [p \in Procs |-> "none"]
  /\ accept = "idle"
  /\ at = None
  /\ main = "loop"
  /\ stop = FALSE
  /\ pids = {}
  /\ dirty = FALSE
  /\ snap = {}
  /\ file = {}
  /\ out = [p \in Procs |-> <<>>]
  /\ faults = 0
  /\ missed = {}
  /\ quiet = {}

Fault == faults < MaxFaults /\ faults' = faults + 1

-----------------------------------------------------------------------------
(* The monitor.                                                            *)

(* A pipe instance can be opened from CreateNamedPipe on, also before      *)
(* ConnectNamedPipe is called, which finds the client there then.          *)
Free == accept \in {"created", "waiting"} /\ at = None

Joins(p) ==
  /\ at' = p
  /\ accept' = IF accept = "waiting" THEN "got" ELSE accept

(* init_thread: it tries again for some seconds, and gives up in the end.  *)
(* Nothing is ever sent then (g_pipeReady).                                *)
Attach(p) ==
  /\ p \in alive
  /\ link[p] = "new"
  /\ \/ Free /\ Joins(p) /\ link' = [link EXCEPT ![p] = "up"]
     \/ ~Free /\ link' = [link EXCEPT ![p] = "off"] /\ UNCHANGED <<accept, at>>
  /\ UNCHANGED <<alive, sent, pipe, chunk, reader, main, stop, pidVars, out, faults, quiet>>

(* pipe_write_locked.  WriteFile blocks while the pipe is full, and fails  *)
(* when the other end has been closed.                                     *)
MoreCalls == FoldFunction(+, 0, sent) < MaxEvents

Calls(p) ==
  /\ p \in alive
  /\ MoreCalls
  /\ sent' = [sent EXCEPT ![p] = @ + 1]

Emit(p) ==
  /\ Calls(p)
  /\ link[p] = "up"
  /\ Len(pipe[p]) < BufCap
  /\ pipe' = [pipe EXCEPT ![p] = Append(@, sent'[p])]
  /\ UNCHANGED <<alive, link, chunk, reader, accept, at, main, stop, pidVars, out,
                 faults, quiet>>

(* The write fails, and with it the event is gone; after a reconnect, a    *)
(* marker is written.                                                      *)
EmitFails_NoMarker(p) ==
  /\ Calls(p)
  /\ link[p] = "broken"
  /\ \/ Free /\ Joins(p) /\ link' = [link EXCEPT ![p] = "up"] /\ UNCHANGED quiet
     \/ /\ link' = [link EXCEPT ![p] = "down"]
        /\ quiet' = quiet \cup {p}
        /\ UNCHANGED <<accept, at>>
  /\ UNCHANGED <<alive, pipe, chunk, reader, main, stop, pidVars, out, faults>>

EmitFails(p) ==
  /\ Calls(p)
  /\ link[p] = "broken"
  /\ \/ /\ Free
        /\ Joins(p)
        /\ link' = [link EXCEPT ![p] = "up"]
        /\ pipe' = [pipe EXCEPT ![p] = <<Lost>>]
        /\ UNCHANGED quiet
     \/ /\ link' = [link EXCEPT ![p] = "down"] \* no instance, or tried a second ago
        /\ quiet' = quiet \cup {p}
        /\ UNCHANGED <<pipe, accept, at>>
  /\ UNCHANGED <<alive, chunk, reader, main, stop, pidVars, out, faults>>

(* Later calls try to reconnect first: the event is written when that      *)
(* works, without a marker, and is gone when it does not.                  *)
EmitAgain(p) ==
  /\ Calls(p)
  /\ link[p] = "down"
  /\ \/ /\ Free
        /\ Joins(p)
        /\ link' = [link EXCEPT ![p] = "up"]
        /\ pipe' = [pipe EXCEPT ![p] = <<sent'[p]>>]
     \/ UNCHANGED <<link, pipe, accept, at>>
  /\ UNCHANGED <<alive, chunk, reader, main, stop, pidVars, out, faults, quiet>>

(* What it has written stays in the pipe.                                  *)
Exit(p) ==
  /\ p \in alive
  /\ alive' = alive \ {p}
  /\ UNCHANGED <<sent, pipeVars, main, stop, pidVars, out, faults, quiet>>

-----------------------------------------------------------------------------
(* The accept loop.                                                        *)

(* The loop looks at _stop, and then makes the next instance: a stop that  *)
(* comes in between finds none to connect to.                              *)
AcceptTurn ==
  /\ accept = "idle"
  /\ accept' = IF stop THEN "gone" ELSE "creating"
  /\ UNCHANGED <<alive, sent, link, pipe, chunk, reader, at, main, stop, pidVars,
                 out, faults, quiet>>

(* When there can be no further instance the thread ends for good.         *)
CreateInstance ==
  /\ accept = "creating"
  /\ \/ accept' = "created" /\ UNCHANGED faults
     \/ accept' = "gone" /\ Fault
  /\ UNCHANGED <<alive, sent, link, pipe, chunk, reader, at, main, stop, pidVars,
                 out, quiet>>

(* The server end of p's pipe is closed, with what is in it.               *)
Closes(p) ==
  /\ link' = [link EXCEPT ![p] = IF @ = "up" THEN "broken" ELSE @]
  /\ pipe' = [pipe EXCEPT ![p] = <<>>]

(* ConnectNamedPipe: nobody is there yet, a client is (ERROR_PIPE_         *)
(* CONNECTED), or one has been and is gone, and its events with it.        *)
ConnectInstance ==
  /\ accept = "created"
  /\ IF at \notin Procs \/ at \in alive
     THEN /\ accept' = IF at = None THEN "waiting" ELSE "got"
          /\ UNCHANGED <<at, link, pipe>>
     ELSE accept' = "idle" /\ at' = None /\ Closes(at)
  /\ UNCHANGED <<alive, sent, chunk, reader, main, stop, pidVars, out, faults, quiet>>

(* A client is served by a thread of its own, unless _stop is set by now.  *)
Serve ==
  /\ accept = "got"
  /\ at' = None
  /\ IF stop
     THEN /\ accept' = "gone"
          /\ IF at \in Procs THEN Closes(at) ELSE UNCHANGED <<link, pipe>>
          /\ UNCHANGED reader
     ELSE /\ accept' = "idle"
          /\ reader' = [reader EXCEPT ![at] = "turn"]
          /\ UNCHANGED <<link, pipe>>
  /\ UNCHANGED <<alive, sent, chunk, main, stop, pidVars, out, faults, quiet>>

-----------------------------------------------------------------------------
(* The reader threads.                                                     *)

(* ReadFile takes all there is.                                            *)
Read(p) ==
  /\ reader[p] = "read"
  /\ pipe[p] # <<>>
  /\ reader' = [reader EXCEPT ![p] = "turn"]
  /\ chunk' = [chunk EXCEPT ![p] = pipe[p]]
  /\ pipe' = [pipe EXCEPT ![p] = <<>>]
  /\ UNCHANGED <<alive, sent, link, accept, at, main, stop, pidVars, out,
                 faults, quiet>>

(* _handle_line, under _out_lock: the pid first, then the event, which     *)
(* cannot be written when the file is closed, or the disk full.            *)
Writing == main \in {"writing", "last"}

AddPid_OnlyFirst(p) ==
  /\ pids' = pids \cup {p}
  /\ dirty' = (dirty \/ pids = {})
  /\ missed' = IF p \notin pids /\ Writing THEN missed \cup {p} ELSE missed
  /\ UNCHANGED <<snap, file>>

AddPid(p) ==
  /\ pids' = pids \cup {p}
  /\ dirty' = (dirty \/ p \notin pids)
  /\ missed' = IF p \notin pids /\ Writing THEN missed \cup {p} ELSE missed
  /\ UNCHANGED <<snap, file>>

OutClosed == main \in {"closed", "last", "exited"}

Handle(p) ==
  /\ reader[p] = "turn"
  /\ chunk[p] # <<>>
  /\ AddPid(p)
  /\ \/ /\ ~OutClosed
        /\ out' = [out EXCEPT ![p] = Append(@, Head(chunk[p]))]
        /\ chunk' = [chunk EXCEPT ![p] = Tail(@)]
        /\ UNCHANGED <<reader, link, pipe, faults>>
     \/ /\ \/ OutClosed /\ UNCHANGED faults
           \/ ~OutClosed /\ Fault
        /\ reader' = [reader EXCEPT ![p] = "none"]
        /\ chunk' = [chunk EXCEPT ![p] = <<>>]
        /\ Closes(p)
        /\ UNCHANGED out
  /\ UNCHANGED <<alive, sent, accept, at, main, stop, quiet>>

(* With its lines handled it looks at _stop, before it reads again: what   *)
(* is in the pipe then is not read.                                        *)
ReaderTurn(p) ==
  /\ reader[p] = "turn"
  /\ chunk[p] = <<>>
  /\ IF stop
     THEN reader' = [reader EXCEPT ![p] = "none"] /\ Closes(p)
     ELSE reader' = [reader EXCEPT ![p] = "read"] /\ UNCHANGED <<link, pipe>>
  /\ UNCHANGED <<alive, sent, chunk, accept, at, main, stop, pidVars, out, faults, quiet>>

(* The client is gone and the pipe empty.                                  *)
ReaderEnds(p) ==
  /\ reader[p] = "read"
  /\ p \notin alive
  /\ pipe[p] = <<>>
  /\ reader' = [reader EXCEPT ![p] = "none"]
  /\ Closes(p)
  /\ UNCHANGED <<alive, sent, chunk, accept, at, main, stop, pidVars, out, faults, quiet>>

-----------------------------------------------------------------------------
(* The main thread.                                                        *)

(* _write_pids; os.replace fails while the file is open elsewhere, and the *)
(* next turn tries again.                                                  *)
StartWrite ==
  /\ main = "loop" /\ dirty /\ main' = "writing"
  /\ snap' = pids
  /\ UNCHANGED <<alive, sent, pipeVars, stop, pids, dirty, file, missed, out, faults, quiet>>

EndWrite ==
  /\ Writing
  /\ main' = IF main = "last" THEN "exited" ELSE "loop"
  /\ snap' = {}
  /\ \/ file' = snap /\ dirty' = FALSE /\ missed' = missed \ snap /\ UNCHANGED faults
     \/ Fault /\ UNCHANGED <<file, dirty, missed>>
  /\ UNCHANGED <<alive, sent, pipeVars, stop, pids, out, quiet>>

(* The stop file, or the deadline.                                         *)
Stop ==
  /\ main = "loop"
  /\ main' = "unblock"
  /\ stop' = TRUE
  /\ UNCHANGED <<alive, sent, pipeVars, pidVars, out, faults, quiet>>

(* stop() connects a throwaway client, if there is an instance for it ...  *)
Unblock ==
  /\ main = "unblock"
  /\ main' = "join"
  /\ IF Free THEN Joins("stop") ELSE UNCHANGED <<accept, at>>
  /\ UNCHANGED <<alive, sent, link, pipe, chunk, reader, stop, pidVars, out, faults, quiet>>

(* ... and joins its threads, each for a while only: one may wait for a    *)
(* client, or for an event, for ever.                                      *)
Join_Forever ==
  /\ main = "join"
  /\ accept = "gone"
  /\ \A p \in Procs : reader[p] = "none"
  /\ main' = "closed"
  /\ UNCHANGED <<alive, sent, pipeVars, stop, pidVars, out, faults, quiet>>

Join ==
  /\ main = "join"
  /\ main' = "closed"
  /\ UNCHANGED <<alive, sent, pipeVars, stop, pidVars, out, faults, quiet>>

LastWrite ==
  /\ main = "closed"
  /\ main' = IF dirty THEN "last" ELSE "exited"
  /\ snap' = IF dirty THEN pids ELSE snap
  /\ UNCHANGED <<alive, sent, pipeVars, stop, pids, dirty, file, missed, out, faults, quiet>>

-----------------------------------------------------------------------------
(* All threads end with the main thread.                                   *)
Collector ==
  /\ main # "exited"
  /\ \/ AcceptTurn \/ CreateInstance \/ ConnectInstance \/ Serve
     \/ \E p \in Procs : Read(p)
     \/ \E p \in Procs : Handle(p)
     \/ \E p \in Procs : ReaderTurn(p)
     \/ \E p \in Procs : ReaderEnds(p)
     \/ StartWrite \/ EndWrite \/ Stop \/ Unblock \/ Join \/ LastWrite

Monitor ==
  /\ main # "exited"
  /\ \/ \E p \in Procs : Attach(p)
     \/ \E p \in Procs : Emit(p)
     \/ \E p \in Procs : EmitFails(p)
     \/ \E p \in Procs : EmitAgain(p)
     \/ \E p \in Procs : Exit(p)

Next == Monitor \/ Collector

Spec == Init /\ [][Next]_vars

(* The main thread runs.  Nothing makes the run stop, and nothing is asked *)
(* of the other threads, nor of the processes.                             *)
FairSpec == Spec /\ WF_vars(EndWrite \/ Unblock \/ Join \/ LastWrite)

-----------------------------------------------------------------------------
TypeOK ==
  /\ alive \subseteq Procs
  /\ link \in [Procs -> {"new", "off", "up", "broken", "down"}]
  /\ sent \in [Procs -> Nat]
  /\ pipe \in [Procs -> Seq(Nat)]
  /\ chunk \in [Procs -> Seq(Nat)]
  /\ reader \in [Procs -> {"none", "turn", "read"}]
  /\ accept \in {"idle", "creating", "created", "waiting", "got", "gone"}
  /\ at \in Procs \cup {None, "stop"}
  /\ main \in {"loop", "writing", "unblock", "join", "closed", "last", "exited"}
  /\ stop \in BOOLEAN
  /\ dirty \in BOOLEAN
  /\ pids \subseteq Procs /\ snap \subseteq Procs /\ file \subseteq Procs
  /\ missed \subseteq Procs /\ quiet \subseteq Procs
  /\ out \in [Procs -> Seq(Nat)]
  /\ faults \in 0 .. MaxFaults

(* apitrace.jsonl has the events of a process in the order of its calls,   *)
(* none twice, through lost connections, reconnects and reader threads     *)
(* that break off; and between two events that are not neighbours stands a *)
(* __pipe_lost__, unless the first reconnect did not work, after which the *)
(* gap is silent.                                                          *)
GapsAreMarked ==
  \A p \in Procs : \A i, j \in 1 .. Len(out[p]) :
    i < j /\ out[p][i] # Lost /\ out[p][j] # Lost
      => \/ out[p][j] = out[p][i] + j - i
         \/ /\ out[p][j] > out[p][i]
            /\ p \in quiet \/ \E k \in i .. j : out[p][k] = Lost

(* The file of pids mirrors the processes that have sent an event: nobody  *)
(* else, and none is missing when there is nothing left to write, but for  *)
(* one that came while the file was being written.                         *)
PidsAreMirrored ==
  /\ file \subseteq pids
  /\ \A p \in pids \ file : dirty \/ Writing \/ p \in missed

(* The collector ends once it is to stop, whatever its clients and the     *)
(* threads that serve them do.                                             *)
StopEnds == stop ~> main = "exited"
==============================================================================
