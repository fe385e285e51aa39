---------------------------- MODULE ApitraceProofs ----------------------------
(***************************************************************************)
(* What arrives of the hooked calls, and the mirror of the pids, for any   *)
(* number of processes, calls and failures.                                *)
(*                                                                         *)
(* The argument looks at all that is on its way from one process: what is  *)
(* in apitrace.jsonl, in the hands of its reader thread, and in its pipe,  *)
(* one after the other.  Only the process adds to that stream, at its end, *)
(* and only a pipe that is closed takes from it, also at its end, whereby  *)
(* the process has to reconnect before it adds again.                      *)
(***************************************************************************)
EXTENDS ApitraceCollector, TLAPS

Marked(s, q, i, j) == q = "quiet" \/ \E k \in i .. j : s[k] = Lost

(* The gaps in s are marked, unless q is "quiet": then they need not be.   *)
Good(s, q) ==
  \A i, j \in 1 .. Len(s) :
    i < j /\ s[i] # Lost /\ s[j] # Lost
      => \/ s[j] = s[i] + j - i
         \/ s[j] > s[i] /\ Marked(s, q, i, j)

(* There would be none before an event after number n.                     *)
UpTo(s, q, n) ==
  \A i \in 1 .. Len(s) :
    s[i] # Lost => \/ n = s[i] + Len(s) - i
                   \/ n >= s[i] /\ Marked(s, q, i, Len(s))

NoneAfter(s, n) == \A i \in 1 .. Len(s) : s[i] <= n

Voice(p) == IF p \in quiet THEN "quiet" ELSE "loud"

Stream(p) == (out[p] \o chunk[p]) \o pipe[p]

Flows(p) ==
  /\ Good(Stream(p), Voice(p))
  /\ NoneAfter(Stream(p), sent[p])
  /\ link[p] = "up" => UpTo(Stream(p), Voice(p), sent[p])
  /\ link[p] = "new" => Stream(p) = <<>>
  /\ link[p] = "down" => p \in quiet

Streams == \A p \in Procs : Flows(p)

(* A pipe is read by at most one thread, and by none before it is served.  *)
Ends ==
  \A p \in Procs :
    /\ link[p] # "up" => pipe[p] = <<>> /\ reader[p] = "none" /\ at # p
    /\ reader[p] # "turn" => chunk[p] = <<>>
    /\ at = p => reader[p] = "none"

(* Whatever the file does not hold will be written, or was added while the *)
(* file was being written.                                                 *)
Mirror ==
  /\ snap \subseteq pids
  /\ Writing => dirty /\ pids \ snap \subseteq missed
  /\ PidsAreMirrored

IInv == TypeOK /\ Ends /\ Streams /\ Mirror
-----------------------------------------------------------------------------
(* The types.                                                              *)

USE DEF pipeVars, pidVars

LEMMA PutType ==
  ASSUME NEW f \in [Procs -> Seq(Nat)], NEW p \in Procs, NEW s \in Seq(Nat)
  PROVE  [f EXCEPT ![p] = s] \in [Procs -> Seq(Nat)]
  OBVIOUS

LEMMA ClosesType ==
  ASSUME TypeOK, NEW p \in Procs, Closes(p)
  PROVE  /\ link' \in [Procs -> {"new", "off", "up", "broken", "down"}]
         /\ pipe' \in [Procs -> Seq(Nat)]
  BY DEF TypeOK, Closes

LEMMA TypeStep == TypeOK /\ [Next]_vars => TypeOK'
<1> SUFFICES ASSUME TypeOK, [Next]_vars PROVE TypeOK'
  OBVIOUS
<1> USE DEF TypeOK
<1>1. ASSUME NEW p \in Procs, Attach(p) PROVE TypeOK'
  BY <1>1 DEF Attach, Free, Joins
<1>2. ASSUME NEW p \in Procs, Emit(p) PROVE TypeOK'
  BY SMTT(30), <1>2 DEF Emit, Calls
<1>3. ASSUME NEW p \in Procs, EmitFails(p) PROVE TypeOK'
  <2>1. <<Lost>> \in Seq(Nat)
    BY DEF Lost
  <2>2. /\ pipe' \in [Procs -> Seq(Nat)]
        /\ link' \in [Procs -> {"new", "off", "up", "broken", "down"}]
    <3>1. [pipe EXCEPT ![p] = <<Lost>>] \in [Procs -> Seq(Nat)]
      BY <2>1, PutType
    <3>2. pipe' = [pipe EXCEPT ![p] = <<Lost>>] \/ pipe' = pipe
      BY <1>3, Zenon DEF EmitFails
    <3>3. link' = [link EXCEPT ![p] = "up"] \/ link' = [link EXCEPT ![p] = "down"]
      BY <1>3, Zenon DEF EmitFails
    <3> QED BY <3>1, <3>2, <3>3
  <2>3. /\ at' \in Procs \cup {None, "stop"}
        /\ accept' \in {"idle", "creating", "created", "waiting", "got", "gone"}
        /\ quiet' \subseteq Procs
    BY <1>3 DEF EmitFails, Free, Joins
  <2>4. sent' \in [Procs -> Nat]
    BY <1>3 DEF EmitFails, Calls
  <2> QED BY <1>3, <2>2, <2>3, <2>4 DEF EmitFails
<1>4. ASSUME NEW p \in Procs, EmitAgain(p) PROVE TypeOK'
  <2>1. sent' \in [Procs -> Nat] /\ <<sent'[p]>> \in Seq(Nat)
    BY <1>4 DEF EmitAgain, Calls
  <2>2. /\ pipe' \in [Procs -> Seq(Nat)]
        /\ link' \in [Procs -> {"new", "off", "up", "broken", "down"}]
    <3>1. [pipe EXCEPT ![p] = <<sent'[p]>>] \in [Procs -> Seq(Nat)]
      BY <2>1, PutType
    <3>2. pipe' = [pipe EXCEPT ![p] = <<sent'[p]>>] \/ pipe' = pipe
      BY <1>4, Zenon DEF EmitAgain
    <3>3. link' = [link EXCEPT ![p] = "up"] \/ link' = link
      BY <1>4, Zenon DEF EmitAgain
    <3> QED BY <3>1, <3>2, <3>3
  <2>3. /\ at' \in Procs \cup {None, "stop"}
        /\ accept' \in {"idle", "creating", "created", "waiting", "got", "gone"}
    BY <1>4 DEF EmitAgain, Free, Joins
  <2> QED BY <1>4, <2>1, <2>2, <2>3 DEF EmitAgain
<1>5. ASSUME NEW p \in Procs, Exit(p) PROVE TypeOK'
  BY <1>5 DEF Exit
<1>6. CASE AcceptTurn \/ CreateInstance
  BY <1>6, CollectorAssumption DEF AcceptTurn, CreateInstance, Fault
<1>7. CASE ConnectInstance
  <2>1. CASE at \notin Procs \/ at \in alive
    BY <1>7, <2>1 DEF ConnectInstance
  <2>2. CASE ~(at \notin Procs \/ at \in alive)
    BY <1>7, <2>2, ClosesType DEF ConnectInstance
  <2> QED BY <2>1, <2>2
<1>8. CASE Serve
  <2>1. CASE stop /\ at \in Procs
    BY <1>8, <2>1, ClosesType DEF Serve
  <2>2. CASE ~(stop /\ at \in Procs)
    BY <1>8, <2>2 DEF Serve
  <2> QED BY <2>1, <2>2
<1>9. ASSUME NEW p \in Procs, Read(p) PROVE TypeOK'
  BY <1>9 DEF Read
<1>10. ASSUME NEW p \in Procs, Handle(p) PROVE TypeOK'
  <2>1. chunk[p] \in Seq(Nat) /\ out[p] \in Seq(Nat) /\ chunk[p] # <<>>
    BY <1>10 DEF Handle
  <2>2. Tail(chunk[p]) \in Seq(Nat) /\ Append(out[p], Head(chunk[p])) \in Seq(Nat)
    BY <2>1
  <2>3. /\ pids' \subseteq Procs /\ snap' \subseteq Procs
        /\ file' \subseteq Procs /\ missed' \subseteq Procs
    BY <1>10 DEF Handle, AddPid
  <2>6. dirty' \in BOOLEAN
    BY <1>10, Zenon DEF Handle, AddPid
  <2>4. faults' \in 0 .. MaxFaults
    BY SMTT(30), <1>10, CollectorAssumption DEF Handle, Fault
  <2>5. /\ link' \in [Procs -> {"new", "off", "up", "broken", "down"}]
        /\ reader' \in [Procs -> {"none", "turn", "read"}]
        /\ pipe' \in [Procs -> Seq(Nat)]
        /\ chunk' \in [Procs -> Seq(Nat)]
        /\ out' \in [Procs -> Seq(Nat)]
    <3>1. /\ out' = [out EXCEPT ![p] = Append(out[p], Head(chunk[p]))] \/ out' = out
          /\ chunk' = [chunk EXCEPT ![p] = Tail(chunk[p])] \/ chunk' = [chunk EXCEPT ![p] = <<>>]
      BY <1>10, Zenon DEF Handle
    <3>2. out' \in [Procs -> Seq(Nat)] /\ chunk' \in [Procs -> Seq(Nat)]
      <4>1. <<>> \in Seq(Nat)
        OBVIOUS
      <4>2. /\ [out EXCEPT ![p] = Append(out[p], Head(chunk[p]))] \in [Procs -> Seq(Nat)]
            /\ [chunk EXCEPT ![p] = Tail(chunk[p])] \in [Procs -> Seq(Nat)]
        BY <2>2, PutType
      <4>3. [chunk EXCEPT ![p] = <<>>] \in [Procs -> Seq(Nat)]
        BY <4>1, PutType
      <4> QED BY <3>1, <4>2, <4>3
    <3>3. Closes(p) \/ UNCHANGED <<link, pipe>>
      BY <1>10, Zenon DEF Handle
    <3>4. reader' = reader \/ reader' = [reader EXCEPT ![p] = "none"]
      BY <1>10 DEF Handle
    <3> QED BY <3>2, <3>3, <3>4, ClosesType
  <2> QED BY <1>10, <2>3, <2>4, <2>5, <2>6 DEF Handle
<1>11. ASSUME NEW p \in Procs, ReaderTurn(p) \/ ReaderEnds(p) PROVE TypeOK'
  BY ZenonT(30), <1>11, ClosesType DEF ReaderTurn, ReaderEnds
<1>12. CASE StartWrite \/ Stop \/ Unblock \/ Join \/ LastWrite
  BY <1>12 DEF StartWrite, Stop, Unblock, Join, LastWrite, Free, Joins
<1>13. CASE EndWrite
  <2>1. dirty' \in BOOLEAN
    BY <1>13, Zenon DEF EndWrite
  <2>2. faults' \in 0 .. MaxFaults
    BY <1>13, CollectorAssumption DEF EndWrite, Fault
  <2>3. file' \subseteq Procs /\ missed' \subseteq Procs
    BY <1>13 DEF EndWrite
  <2> QED BY <1>13, <2>1, <2>2, <2>3 DEF EndWrite
<1>14. CASE UNCHANGED vars
  BY <1>14 DEF vars
<1> QED BY <1>1, <1>2, <1>3, <1>4, <1>5, <1>6, <1>7, <1>8, <1>9, <1>10, <1>11, <1>12,
           <1>13, <1>14 DEF Next, Monitor, Collector

LEMMA TypeStart == Init => TypeOK
<1> SUFFICES ASSUME Init PROVE TypeOK
  OBVIOUS
<1>1. stop \in BOOLEAN /\ dirty \in BOOLEAN
  BY Zenon DEF Init
<1>2. faults \in 0 .. MaxFaults
  BY CollectorAssumption DEF Init
<1> QED BY <1>1, <1>2 DEF Init, TypeOK

(* Every reachable state is well typed.                                    *)
THEOREM TypeCorrect == Spec => []TypeOK
BY TypeStart, TypeStep, PTL DEF Spec

-----------------------------------------------------------------------------
(* The mirror of the pids.                                                 *)

LEMMA MirrorStep == TypeOK /\ Mirror /\ [Next]_vars => Mirror'
<1> SUFFICES ASSUME TypeOK, Mirror, [Next]_vars PROVE Mirror'
  OBVIOUS
<1>0. /\ snap \subseteq pids /\ file \subseteq pids
      /\ Writing => dirty /\ pids \ snap \subseteq missed
      /\ \A p \in pids \ file : dirty \/ Writing \/ p \in missed
  BY DEF Mirror, PidsAreMirrored
<1>1. ASSUME UNCHANGED <<main, pidVars>> PROVE Mirror'
  BY <1>0, <1>1 DEF Mirror, PidsAreMirrored, Writing
<1>2. ASSUME NEW p \in Procs, Handle(p) PROVE Mirror'
  <2>1. /\ pids' = pids \cup {p} /\ UNCHANGED <<snap, file, main>>
        /\ p \notin pids /\ Writing => p \in missed'
        /\ missed \subseteq missed'
    BY <1>2 DEF Handle, AddPid
  <2>2. dirty' <=> dirty \/ p \notin pids
    BY <1>2, Zenon DEF Handle, AddPid
  <2>3. Writing' <=> Writing
    BY <2>1 DEF Writing
  <2> QED BY <1>0, <2>1, <2>2, <2>3 DEF Mirror, PidsAreMirrored
<1>3. CASE StartWrite \/ LastWrite
  <2>1. UNCHANGED <<pids, file, missed>> /\ ~Writing
    BY <1>3 DEF StartWrite, LastWrite, Writing
  <2>2. dirty' = dirty
    BY <1>3 DEF StartWrite, LastWrite
  <2>3. snap' \in {snap, pids}
    BY <1>3 DEF StartWrite, LastWrite
  <2>4. Writing' => dirty /\ snap' = pids
    BY <1>3 DEF StartWrite, LastWrite, Writing
  <2> QED BY <1>0, <2>1, <2>2, <2>3, <2>4 DEF Mirror, PidsAreMirrored
<1>4. CASE EndWrite
  <2>1. UNCHANGED pids /\ snap' = {} /\ Writing /\ ~Writing'
    BY <1>4 DEF EndWrite, Writing
  <2>2. CASE file' = snap /\ missed' = missed \ snap
    BY <1>0, <2>1, <2>2 DEF Mirror, PidsAreMirrored
  <2>3. CASE ~(file' = snap /\ missed' = missed \ snap)
    <3>1. UNCHANGED <<file, missed, dirty>>
      BY <1>4, <2>3 DEF EndWrite
    <3> QED BY <1>0, <2>1, <3>1 DEF Mirror, PidsAreMirrored
  <2> QED BY <2>2, <2>3
<1>5. CASE Stop \/ Unblock \/ Join
  <2>1. UNCHANGED pidVars /\ ~Writing /\ ~Writing'
    BY <1>5 DEF Stop, Unblock, Join, Writing
  <2> QED BY <1>0, <2>1 DEF Mirror, PidsAreMirrored
<1>6. ASSUME NEW p \in Procs,
             \/ Attach(p) \/ Emit(p) \/ EmitFails(p) \/ EmitAgain(p) \/ Exit(p)
             \/ Read(p) \/ ReaderTurn(p) \/ ReaderEnds(p)
             \/ AcceptTurn \/ CreateInstance \/ ConnectInstance \/ Serve
      PROVE  UNCHANGED <<main, pidVars>>
  BY <1>6 DEF Attach, Emit, EmitFails, EmitAgain, Exit, Read, ReaderTurn, ReaderEnds,
              AcceptTurn, CreateInstance, ConnectInstance, Serve
<1>7. ASSUME AcceptTurn \/ CreateInstance \/ ConnectInstance \/ Serve
      PROVE  UNCHANGED <<main, pidVars>>
  BY <1>7 DEF AcceptTurn, CreateInstance, ConnectInstance, Serve
<1>8. CASE UNCHANGED vars
  BY <1>1, <1>8 DEF vars
<1> QED BY <1>1, <1>2, <1>3, <1>4, <1>5, <1>6, <1>7, <1>8 DEF Next, Monitor, Collector

-----------------------------------------------------------------------------
(* The ends of the pipes.                                                  *)

LEMMA EndsStep == TypeOK /\ Ends /\ [Next]_vars => Ends'
<1> SUFFICES ASSUME TypeOK, Ends, [Next]_vars PROVE Ends'
  OBVIOUS
<1> USE DEF Ends
<1>0. "stop" \notin Procs /\ None \notin Procs
  BY CollectorAssumption
<1>1. ASSUME NEW p \in Procs, Attach(p) PROVE Ends'
  BY <1>1 DEF Attach, Free, Joins, TypeOK
<1>2. ASSUME NEW p \in Procs, Emit(p) PROVE Ends'
  BY <1>2 DEF Emit, TypeOK
<1>3. ASSUME NEW p \in Procs, EmitFails(p) PROVE Ends'
  BY <1>3 DEF EmitFails, Free, Joins, TypeOK
<1>4. ASSUME NEW p \in Procs, EmitAgain(p) PROVE Ends'
  BY <1>4 DEF EmitAgain, Free, Joins, TypeOK
<1>5. CASE ConnectInstance
  <2>1. CASE at \notin Procs \/ at \in alive
    BY <1>5, <2>1 DEF ConnectInstance, TypeOK
  <2>2. CASE ~(at \notin Procs \/ at \in alive)
    BY <1>0, <1>5, <2>2 DEF ConnectInstance, Closes, TypeOK
  <2> QED BY <2>1, <2>2
<1>6. CASE Serve
  <2>1. CASE stop /\ at \in Procs
    BY <1>0, <1>6, <2>1 DEF Serve, Closes, TypeOK
  <2>2. CASE ~stop
    BY <1>0, <1>6, <2>2 DEF Serve, TypeOK
  <2>3. CASE stop /\ at \notin Procs
    BY <1>0, <1>6, <2>3 DEF Serve, TypeOK
  <2> QED BY <2>1, <2>2, <2>3
<1>7. ASSUME NEW p \in Procs, Read(p) PROVE Ends'
  BY <1>7 DEF Read, TypeOK
<1>8. ASSUME NEW p \in Procs, Handle(p) PROVE Ends'
  BY SMTT(30), <1>8 DEF Handle, Closes, TypeOK
<1>9. ASSUME NEW p \in Procs, ReaderTurn(p) PROVE Ends'
  BY SMTT(30), <1>9 DEF ReaderTurn, Closes, TypeOK
<1>10. ASSUME NEW p \in Procs, ReaderEnds(p) PROVE Ends'
  BY <1>10 DEF ReaderEnds, Closes, TypeOK
<1>11. CASE Unblock
  BY <1>0, <1>11 DEF Unblock, Joins
<1>12. ASSUME UNCHANGED <<link, pipe, chunk, reader, at>> PROVE Ends'
  BY <1>12
<1>13. ASSUME NEW p \in Procs, Exit(p) PROVE Ends'
  BY <1>12, <1>13 DEF Exit
<1>14. CASE \/ AcceptTurn \/ CreateInstance \/ StartWrite \/ EndWrite \/ Stop \/ Join
            \/ LastWrite \/ UNCHANGED vars
  BY <1>12, <1>14 DEF AcceptTurn, CreateInstance, StartWrite, EndWrite, Stop, Join,
                      LastWrite, vars
<1> QED BY <1>1, <1>2, <1>3, <1>4, <1>5, <1>6, <1>7, <1>8, <1>9, <1>10, <1>11, <1>13,
           <1>14 DEF Next, Monitor, Collector

-----------------------------------------------------------------------------
(* Sequences with marked gaps.                                             *)

LEMMA AppendNext ==
  ASSUME NEW s \in Seq(Nat), NEW q, NEW n \in Nat,
         Good(s, q), NoneAfter(s, n), UpTo(s, q, n)
  PROVE  /\ Good(Append(s, n + 1), q)
         /\ NoneAfter(Append(s, n + 1), n + 1)
         /\ UpTo(Append(s, n + 1), q, n + 1)
<1> DEFINE t == Append(s, n + 1)
<1>1. /\ Len(t) = Len(s) + 1 /\ Len(s) \in Nat
      /\ \A i \in 1 .. Len(s) : t[i] = s[i] /\ s[i] \in Nat
      /\ t[Len(s) + 1] = n + 1
  OBVIOUS
<1> HIDE DEF t
<1>2. ASSUME NEW i \in 1 .. Len(s), NEW j \in 1 .. Len(s), Marked(s, q, i, j)
      PROVE  Marked(t, q, i, j)
  BY SMTT(30), <1>1, <1>2 DEF Marked
<1>3. ASSUME NEW i \in 1 .. Len(s), Marked(s, q, i, Len(s))
      PROVE  Marked(t, q, i, Len(t))
  BY <1>1, <1>3 DEF Marked
<1>4. Good(t, q)
  <2> SUFFICES ASSUME NEW i \in 1 .. Len(t), NEW j \in 1 .. Len(t),
                      i < j, t[i] # Lost, t[j] # Lost
               PROVE  \/ t[j] = t[i] + j - i
                      \/ t[j] > t[i] /\ Marked(t, q, i, j)
    BY DEF Good
  <2>1. CASE j <= Len(s)
    <3>1. i \in 1 .. Len(s) /\ j \in 1 .. Len(s) /\ t[i] = s[i] /\ t[j] = s[j]
      BY <1>1, <2>1
    <3>2. s[j] = s[i] + j - i \/ (s[j] > s[i] /\ Marked(s, q, i, j))
      BY <3>1 DEF Good
    <3> QED BY <1>2, <3>1, <3>2
  <2>2. CASE j = Len(t)
    <3>1. i \in 1 .. Len(s) /\ t[i] = s[i] /\ t[j] = n + 1 /\ j = Len(s) + 1
      BY <1>1, <2>2
    <3>2. n = s[i] + Len(s) - i \/ (n >= s[i] /\ Marked(s, q, i, Len(s)))
      BY <3>1 DEF UpTo
    <3>3. s[i] \in Nat /\ t[j] = n + 1 /\ j = Len(s) + 1 /\ t[i] = s[i]
      BY <1>1, <3>1
    <3>4. CASE n = s[i] + Len(s) - i
      <4>1. n + 1 = s[i] + (Len(s) + 1) - i
        BY SMTT(30), <1>1, <3>3, <3>4
      <4> QED BY <3>3, <4>1
    <3>5. CASE n >= s[i] /\ Marked(s, q, i, Len(s))
      <4>1. Marked(t, q, i, j)
        BY <1>3, <2>2, <3>1, <3>5
      <4> QED BY <3>3, <3>5, <4>1
    <3> QED BY <3>2, <3>4, <3>5
  <2>3. j <= Len(s) \/ j = Len(t)
    <3>1. Len(t) = Len(s) + 1 /\ Len(s) \in Nat
      BY <1>1
    <3> QED BY <3>1
  <2> QED BY <2>1, <2>2, <2>3
<1>5. NoneAfter(t, n + 1)
  <2> SUFFICES ASSUME NEW i \in 1 .. Len(t) PROVE t[i] <= n + 1
    BY DEF NoneAfter
  <2>1. CASE i \in 1 .. Len(s)
    <3>1. t[i] = s[i] /\ s[i] \in Nat /\ s[i] <= n
      BY <1>1, <2>1 DEF NoneAfter
    <3> QED BY <3>1
  <2>2. CASE i = Len(s) + 1
    BY <1>1, <2>2
  <2>3. i \in 1 .. Len(s) \/ i = Len(s) + 1
    <3>1. Len(t) = Len(s) + 1 /\ Len(s) \in Nat
      BY <1>1
    <3> QED BY <3>1
  <2> QED BY <2>1, <2>2, <2>3
<1>6. UpTo(t, q, n + 1)
  <2> SUFFICES ASSUME NEW i \in 1 .. Len(t), t[i] # Lost
               PROVE  \/ n + 1 = t[i] + Len(t) - i
                      \/ n + 1 >= t[i] /\ Marked(t, q, i, Len(t))
    BY DEF UpTo
  <2>1. CASE i \in 1 .. Len(s)
    <3>1. t[i] = s[i] /\ s[i] \in Nat /\ Len(t) = Len(s) + 1
      BY <1>1, <2>1
    <3>2. n = s[i] + Len(s) - i \/ (n >= s[i] /\ Marked(s, q, i, Len(s)))
      BY <2>1, <3>1 DEF UpTo
    <3> QED BY SMTT(30), <1>1, <1>3, <2>1, <3>1, <3>2
  <2>2. CASE i = Len(t)
    BY <1>1, <2>2
  <2> QED BY <1>1, <2>1, <2>2
<1> QED BY <1>4, <1>5, <1>6 DEF t

LEMMA AppendMarker ==
  ASSUME NEW s \in Seq(Nat), NEW q, NEW n \in Nat,
         Good(s, q), NoneAfter(s, n)
  PROVE  /\ Good(Append(s, Lost), q)
         /\ NoneAfter(Append(s, Lost), n)
         /\ UpTo(Append(s, Lost), q, n)
<1> DEFINE t == Append(s, Lost)
<1>1. /\ Len(t) = Len(s) + 1 /\ Len(s) \in Nat
      /\ \A i \in 1 .. Len(s) : t[i] = s[i] /\ s[i] \in Nat
      /\ t[Len(s) + 1] = Lost /\ Lost = 0
  BY DEF Lost
<1> HIDE DEF t
<1>2. ASSUME NEW i \in 1 .. Len(s), NEW j \in 1 .. Len(s), Marked(s, q, i, j)
      PROVE  Marked(t, q, i, j)
  BY <1>1, <1>2 DEF Marked
<1>3. \A i \in 1 .. Len(t) : Marked(t, q, i, Len(t))
  BY <1>1 DEF Marked
<1>4. Good(t, q)
  <2> SUFFICES ASSUME NEW i \in 1 .. Len(t), NEW j \in 1 .. Len(t),
                      i < j, t[i] # Lost, t[j] # Lost
               PROVE  \/ t[j] = t[i] + j - i
                      \/ t[j] > t[i] /\ Marked(t, q, i, j)
    BY DEF Good
  <2>1. i \in 1 .. Len(s) /\ j \in 1 .. Len(s) /\ t[i] = s[i] /\ t[j] = s[j]
    BY <1>1
  <2>2. s[j] = s[i] + j - i \/ (s[j] > s[i] /\ Marked(s, q, i, j))
    BY <2>1 DEF Good
  <2> QED BY <1>2, <2>1, <2>2
<1>5. NoneAfter(t, n)
  <2> SUFFICES ASSUME NEW i \in 1 .. Len(t) PROVE t[i] <= n
    BY DEF NoneAfter
  <2>1. CASE i \in 1 .. Len(s)
    <3>1. t[i] = s[i] /\ s[i] <= n
      BY <1>1, <2>1 DEF NoneAfter
    <3> QED BY <3>1
  <2>2. CASE i = Len(s) + 1
    BY <1>1, <2>2
  <2>3. i \in 1 .. Len(s) \/ i = Len(s) + 1
    <3>1. Len(t) = Len(s) + 1 /\ Len(s) \in Nat
      BY <1>1
    <3> QED BY <3>1
  <2> QED BY <2>1, <2>2, <2>3
<1>6. UpTo(t, q, n)
  BY <1>1, <1>3, <1>5 DEF UpTo, NoneAfter
<1> QED BY <1>4, <1>5, <1>6 DEF t

LEMMA Later ==
  ASSUME NEW s \in Seq(Nat), NEW n \in Nat, NoneAfter(s, n)
  PROVE  NoneAfter(s, n + 1)
  BY DEF NoneAfter

LEMMA Quiet ==
  ASSUME NEW s \in Seq(Nat), NEW q, NEW n \in Nat,
         Good(s, q), NoneAfter(s, n)
  PROVE  Good(s, "quiet") /\ UpTo(s, "quiet", n)
  BY DEF Good, UpTo, NoneAfter, Marked

LEMMA Prefix ==
  ASSUME NEW s \in Seq(Nat), NEW t \in Seq(Nat), NEW q, NEW n \in Nat,
         Good(s \o t, q), NoneAfter(s \o t, n)
  PROVE  Good(s, q) /\ NoneAfter(s, n)
<1> DEFINE u == s \o t
<1>1. /\ Len(u) = Len(s) + Len(t) /\ Len(s) \in Nat /\ Len(t) \in Nat
      /\ \A i \in 1 .. Len(s) : u[i] = s[i] /\ s[i] \in Nat
  OBVIOUS
<1>2. Good(u, q) /\ NoneAfter(u, n)
  OBVIOUS
<1> HIDE DEF u
<1>3. ASSUME NEW i \in 1 .. Len(s), NEW j \in 1 .. Len(s), Marked(u, q, i, j)
      PROVE  Marked(s, q, i, j)
  <2>1. CASE q = "quiet"
    BY <2>1 DEF Marked
  <2>2. CASE q # "quiet"
    <3>1. PICK k \in i .. j : u[k] = Lost
      BY <1>3, <2>2 DEF Marked
    <3>2. k \in 1 .. Len(s)
      BY <1>1, <3>1
    <3> QED BY <1>1, <3>1, <3>2 DEF Marked
  <2> QED BY <2>1, <2>2
<1>4. Good(s, q)
  <2> SUFFICES ASSUME NEW i \in 1 .. Len(s), NEW j \in 1 .. Len(s),
                      i < j, s[i] # Lost, s[j] # Lost
               PROVE  \/ s[j] = s[i] + j - i
                      \/ s[j] > s[i] /\ Marked(s, q, i, j)
    BY DEF Good
  <2>1. i \in 1 .. Len(u) /\ j \in 1 .. Len(u) /\ u[i] = s[i] /\ u[j] = s[j]
    BY <1>1
  <2>2. u[j] = u[i] + j - i \/ (u[j] > u[i] /\ Marked(u, q, i, j))
    BY <1>2, <2>1 DEF Good
  <2> QED BY <1>3, <2>1, <2>2
<1>5. NoneAfter(s, n)
  BY <1>1, <1>2 DEF NoneAfter
<1> QED BY <1>4, <1>5

LEMMA ConcatAppend ==
  ASSUME NEW a \in Seq(Nat), NEW b \in Seq(Nat), NEW x \in Nat
  PROVE  a \o Append(b, x) = Append(a \o b, x)
  OBVIOUS

LEMMA ConcatEmpty == \A a \in Seq(Nat) : a \o <<>> = a
  OBVIOUS

LEMMA ConcatOne ==
  ASSUME NEW a \in Seq(Nat), NEW x \in Nat
  PROVE  a \o <<x>> = Append(a, x)
  OBVIOUS

LEMMA HeadMoves ==
  ASSUME NEW a \in Seq(Nat), NEW b \in Seq(Nat), b # <<>>
  PROVE  Append(a, Head(b)) \o Tail(b) = a \o b
  BY SMTT(30)

LEMMA ConcatAssoc ==
  ASSUME NEW a \in Seq(Nat), NEW b \in Seq(Nat), NEW c \in Seq(Nat)
  PROVE  (a \o b) \o c = a \o (b \o c) /\ b \o c \in Seq(Nat)
  OBVIOUS

-----------------------------------------------------------------------------
(* The streams.                                                            *)

LEMMA StreamType ==
  ASSUME TypeOK, NEW p \in Procs
  PROVE  /\ out[p] \in Seq(Nat) /\ chunk[p] \in Seq(Nat) /\ pipe[p] \in Seq(Nat)
         /\ out[p] \o chunk[p] \in Seq(Nat) /\ Stream(p) \in Seq(Nat) /\ sent[p] \in Nat
  BY DEF TypeOK, Stream

(* A step is about one process.                                            *)
LEMMA Frame ==
  ASSUME NEW p \in Procs, Flows(p),
         link'[p] = link[p], sent'[p] = sent[p], Stream(p)' = Stream(p),
         p \in quiet' <=> p \in quiet
  PROVE  Flows(p)'
<1>1. Voice(p)' = Voice(p)
  BY DEF Voice
<1> QED BY <1>1 DEF Flows

LEMMA OneFlows ==
  ASSUME Streams, NEW p \in Procs, Flows(p)',
         \A r \in Procs \ {p} :
           /\ link'[r] = link[r] /\ sent'[r] = sent[r]
           /\ out'[r] = out[r] /\ chunk'[r] = chunk[r] /\ pipe'[r] = pipe[r]
           /\ r \in quiet' <=> r \in quiet
  PROVE  Streams'
<1>1. ASSUME NEW r \in Procs \ {p} PROVE Flows(r)'
  <2>1. Stream(r)' = Stream(r)
    BY DEF Stream
  <2> QED BY <2>1, Frame DEF Streams
<1> QED BY <1>1 DEF Streams

(* What has arrived is as good as what is on its way.                      *)
LEMMA Arrived ==
  ASSUME TypeOK, NEW p \in Procs, Flows(p)
  PROVE  Good(out[p], Voice(p)) /\ NoneAfter(out[p], sent[p])
<1>1. /\ out[p] \in Seq(Nat) /\ chunk[p] \in Seq(Nat) /\ pipe[p] \in Seq(Nat)
      /\ sent[p] \in Nat
  BY StreamType
<1>2. /\ Stream(p) = out[p] \o (chunk[p] \o pipe[p])
      /\ chunk[p] \o pipe[p] \in Seq(Nat)
  BY <1>1, ConcatAssoc DEF Stream
<1>3. /\ Good(out[p] \o (chunk[p] \o pipe[p]), Voice(p))
      /\ NoneAfter(out[p] \o (chunk[p] \o pipe[p]), sent[p])
  BY <1>2 DEF Flows
<1> QED BY <1>1, <1>2, <1>3, Prefix

(* What was on its way is lost when its pipe is closed.                    *)
LEMMA CutFlows ==
  ASSUME TypeOK, NEW p \in Procs, Flows(p), link[p] = "up", link'[p] = "broken",
         sent'[p] = sent[p], out'[p] = out[p], chunk'[p] = <<>>, pipe'[p] = <<>>,
         p \in quiet' <=> p \in quiet
  PROVE  Flows(p)'
<1>1. Stream(p)' = out[p]
  BY StreamType, ConcatEmpty DEF Stream
<1>2. Good(out[p], Voice(p)) /\ NoneAfter(out[p], sent[p])
  BY Arrived
<1>3. Voice(p)' = Voice(p)
  BY DEF Voice
<1> QED BY <1>1, <1>2, <1>3 DEF Flows

(* The server end of a pipe is closed: by the thread that has read from it *)
(* and drops what it has not handled, or by one that has not read at all.  *)
LEMMA ClosesFlows ==
  ASSUME TypeOK, Ends, Streams, NEW p \in Procs, Closes(p),
         UNCHANGED <<sent, out, quiet>>,
         chunk'[p] = <<>>, \A r \in Procs \ {p} : chunk'[r] = chunk[r]
  PROVE  Streams'
<1>1. /\ \A r \in Procs \ {p} : link'[r] = link[r] /\ pipe'[r] = pipe[r]
      /\ link'[p] = IF link[p] = "up" THEN "broken" ELSE link[p]
      /\ pipe'[p] = <<>>
  BY DEF Closes, TypeOK
<1>2. Flows(p)
  BY DEF Streams
<1>3. CASE link[p] = "up"
  <2>1. Flows(p)'
    BY <1>1, <1>2, <1>3, CutFlows
  <2> QED BY <1>1, <2>1, OneFlows
<1>4. CASE link[p] # "up"
  <2>1. pipe[p] = <<>> /\ chunk[p] = <<>>
    BY <1>4 DEF Ends
  <2>2. Stream(p)' = Stream(p)
    BY <1>1, <2>1 DEF Stream
  <2>3. Flows(p)'
    BY <1>1, <1>2, <1>4, <2>2, Frame
  <2> QED BY <1>1, <2>3, OneFlows
<1> QED BY <1>3, <1>4

LEMMA StreamsStep == TypeOK /\ Ends /\ Streams /\ [Next]_vars => Streams'
<1> SUFFICES ASSUME TypeOK, Ends, Streams, [Next]_vars PROVE Streams'
  OBVIOUS
<1>0. \A p \in Procs : Flows(p)
  BY DEF Streams
<1>1. ASSUME NEW p \in Procs, Attach(p) PROVE Streams'
  <2>1. /\ UNCHANGED <<sent, out, chunk, pipe, quiet>> /\ link[p] = "new"
        /\ \/ link' = [link EXCEPT ![p] = "up"]
           \/ link' = [link EXCEPT ![p] = "off"]
    BY <1>1 DEF Attach
  <2>2. Stream(p)' = Stream(p) /\ Voice(p)' = Voice(p) /\ Stream(p) = <<>>
    BY <1>0, <2>1 DEF Stream, Voice, Flows
  <2>3. UpTo(Stream(p), Voice(p), sent[p])
    BY <2>2 DEF UpTo
  <2>4. link'[p] \in {"up", "off"} /\ \A r \in Procs \ {p} : link'[r] = link[r]
    BY <2>1 DEF TypeOK
  <2>5. Flows(p)'
    BY <1>0, <2>1, <2>2, <2>3, <2>4 DEF Flows
  <2> QED BY <2>1, <2>4, <2>5, OneFlows
<1>2. ASSUME NEW p \in Procs, Emit(p) PROVE Streams'
  <2>1. /\ UNCHANGED <<link, out, chunk, quiet>> /\ link[p] = "up"
        /\ sent' = [sent EXCEPT ![p] = sent[p] + 1]
        /\ pipe' = [pipe EXCEPT ![p] = Append(pipe[p], sent'[p])]
    BY <1>2 DEF Emit, Calls
  <2>2. sent'[p] = sent[p] + 1 /\ pipe'[p] = Append(pipe[p], sent[p] + 1)
    BY <2>1 DEF TypeOK
  <2>3. Stream(p)' = Append(Stream(p), sent[p] + 1)
    <3>1. /\ out[p] \o chunk[p] \in Seq(Nat) /\ pipe[p] \in Seq(Nat)
          /\ sent[p] + 1 \in Nat
      BY StreamType
    <3>2. (out[p] \o chunk[p]) \o Append(pipe[p], sent[p] + 1)
            = Append((out[p] \o chunk[p]) \o pipe[p], sent[p] + 1)
      BY <3>1, ConcatAppend
    <3>3. Stream(p)' = (out[p] \o chunk[p]) \o Append(pipe[p], sent[p] + 1)
      BY <2>1, <2>2 DEF Stream
    <3> QED BY <3>2, <3>3 DEF Stream
  <2>4. Voice(p)' = Voice(p)
    BY <2>1 DEF Voice
  <2>5. Flows(p)'
    BY <1>0, <2>1, <2>2, <2>3, <2>4, StreamType, AppendNext DEF Flows
  <2>6. \A r \in Procs \ {p} : sent'[r] = sent[r] /\ pipe'[r] = pipe[r]
    BY <2>1 DEF TypeOK
  <2> QED BY <2>1, <2>5, <2>6, OneFlows
<1>3. ASSUME NEW p \in Procs, EmitFails(p) PROVE Streams'
  <2>1. /\ UNCHANGED <<out, chunk>> /\ link[p] = "broken"
        /\ sent' = [sent EXCEPT ![p] = sent[p] + 1]
    BY <1>3 DEF EmitFails, Calls
  <2>2. /\ chunk[p] = <<>> /\ pipe[p] = <<>>
        /\ Stream(p) = out[p]
    <3>1. pipe[p] = <<>> /\ reader[p] = "none"
      BY <2>1 DEF Ends
    <3>2. chunk[p] = <<>>
      BY <3>1 DEF Ends
    <3>3. (out[p] \o <<>>) \o <<>> = out[p]
      BY StreamType, ConcatEmpty
    <3> QED BY <3>1, <3>2, <3>3 DEF Stream
  <2>3. sent'[p] = sent[p] + 1 /\ \A r \in Procs \ {p} : sent'[r] = sent[r]
    BY <2>1 DEF TypeOK
  <2>4. Good(out[p], Voice(p)) /\ NoneAfter(out[p], sent[p] + 1)
    BY <1>0, <2>2, StreamType, Later DEF Flows
  <2>5. CASE /\ link' = [link EXCEPT ![p] = "up"]
             /\ pipe' = [pipe EXCEPT ![p] = <<Lost>>]
             /\ UNCHANGED quiet
    <3>1. link'[p] = "up" /\ pipe'[p] = <<Lost>> /\ Lost \in Nat
      BY <2>5 DEF TypeOK, Lost
    <3>2. Stream(p)' = Append(out[p], Lost)
      BY <2>1, <2>2, <3>1, StreamType, ConcatEmpty, ConcatOne DEF Stream
    <3>3. Voice(p)' = Voice(p)
      BY <2>5 DEF Voice
    <3>4. Flows(p)'
      <4>1. out[p] \in Seq(Nat) /\ sent[p] + 1 \in Nat
        BY StreamType
      <4>2. /\ Good(Append(out[p], Lost), Voice(p))
            /\ NoneAfter(Append(out[p], Lost), sent[p] + 1)
            /\ UpTo(Append(out[p], Lost), Voice(p), sent[p] + 1)
        BY <2>4, <4>1, AppendMarker
      <4> QED BY <2>3, <3>1, <3>2, <3>3, <4>2 DEF Flows
    <3>5. \A r \in Procs \ {p} : link'[r] = link[r] /\ pipe'[r] = pipe[r]
      BY <2>5 DEF TypeOK
    <3> QED BY <2>1, <2>3, <2>5, <3>4, <3>5, OneFlows
  <2>6. CASE /\ link' = [link EXCEPT ![p] = "down"]
             /\ quiet' = quiet \cup {p}
             /\ UNCHANGED pipe
    <3>1. link'[p] = "down"
      BY <2>6 DEF TypeOK
    <3>2. Stream(p)' = out[p] /\ Voice(p)' = "quiet" /\ p \in quiet'
      BY <2>1, <2>2, <2>6, StreamType, ConcatEmpty DEF Stream, Voice
    <3>3. Good(out[p], "quiet")
      BY <2>4, StreamType, Quiet
    <3>4. Flows(p)'
      BY <2>3, <2>4, <3>1, <3>2, <3>3 DEF Flows
    <3>5. \A r \in Procs \ {p} : link'[r] = link[r] /\ pipe'[r] = pipe[r]
      BY <2>6 DEF TypeOK
    <3> QED BY <2>1, <2>3, <2>6, <3>4, <3>5, OneFlows
  <2> QED BY <1>3, <2>5, <2>6 DEF EmitFails
<1>4. ASSUME NEW p \in Procs, EmitAgain(p) PROVE Streams'
  <2>1. /\ UNCHANGED <<out, chunk, quiet>> /\ link[p] = "down"
        /\ sent' = [sent EXCEPT ![p] = sent[p] + 1]
    BY <1>4 DEF EmitAgain, Calls
  <2>2. /\ chunk[p] = <<>> /\ pipe[p] = <<>>
        /\ Stream(p) = out[p] /\ p \in quiet /\ Voice(p) = "quiet" /\ Voice(p)' = "quiet"
    <3>1. pipe[p] = <<>> /\ reader[p] = "none"
      BY <2>1 DEF Ends
    <3>2. chunk[p] = <<>>
      BY <3>1 DEF Ends
    <3>3. (out[p] \o <<>>) \o <<>> = out[p]
      BY StreamType, ConcatEmpty
    <3>4. p \in quiet /\ quiet' = quiet
      BY <1>0, <2>1 DEF Flows
    <3>5. Voice(p) = "quiet" /\ Voice(p)' = "quiet"
      BY <3>4 DEF Voice
    <3> QED BY <3>1, <3>2, <3>3, <3>4, <3>5 DEF Stream
  <2>3. sent'[p] = sent[p] + 1 /\ \A r \in Procs \ {p} : sent'[r] = sent[r]
    BY <2>1 DEF TypeOK
  <2>4. Good(out[p], "quiet") /\ NoneAfter(out[p], sent[p])
    BY <1>0, <2>2 DEF Flows
  <2>5. CASE /\ link' = [link EXCEPT ![p] = "up"]
             /\ pipe' = [pipe EXCEPT ![p] = <<sent'[p]>>]
    <3>1. link'[p] = "up" /\ pipe'[p] = <<sent[p] + 1>>
      BY <2>3, <2>5 DEF TypeOK
    <3>2. Stream(p)' = Append(out[p], sent[p] + 1)
      BY <2>1, <2>2, <3>1, StreamType, ConcatEmpty, ConcatOne DEF Stream
    <3>3. UpTo(out[p], "quiet", sent[p])
      BY <2>4, StreamType, Quiet
    <3>4. Flows(p)'
      BY <2>2, <2>3, <2>4, <3>1, <3>2, <3>3, StreamType, AppendNext DEF Flows
    <3>5. \A r \in Procs \ {p} : link'[r] = link[r] /\ pipe'[r] = pipe[r]
      BY <2>5 DEF TypeOK
    <3> QED BY <2>1, <2>3, <2>5, <3>4, <3>5, OneFlows
  <2>6. CASE UNCHANGED <<link, pipe>>
    <3>1. Stream(p)' = out[p]
      BY <2>1, <2>2, <2>6, StreamType, ConcatEmpty DEF Stream
    <3>2. NoneAfter(out[p], sent[p] + 1)
      BY <2>4, StreamType, Later
    <3>3. Flows(p)'
      BY <2>1, <2>2, <2>3, <2>4, <2>6, <3>1, <3>2 DEF Flows
    <3> QED BY <2>1, <2>3, <2>6, <3>3, OneFlows
  <2> QED BY <1>4, <2>5, <2>6 DEF EmitAgain
<1>5. ASSUME UNCHANGED <<sent, link, out, chunk, pipe, quiet>> PROVE Streams'
  <2>1. ASSUME NEW p \in Procs PROVE Flows(p)'
    <3>1. Stream(p)' = Stream(p)
      BY <1>5 DEF Stream
    <3> QED BY <1>0, <1>5, <3>1, Frame
  <2> QED BY <2>1 DEF Streams
<1>6. CASE ConnectInstance
  <2>1. UNCHANGED <<sent, out, chunk, quiet>>
    BY <1>6 DEF ConnectInstance
  <2>2. CASE at \notin Procs \/ at \in alive
    BY <1>5, <1>6, <2>1, <2>2 DEF ConnectInstance
  <2>3. CASE ~(at \notin Procs \/ at \in alive)
    <3>1. at \in Procs /\ Closes(at)
      BY <1>6, <2>3 DEF ConnectInstance
    <3>2. chunk[at] = <<>>
      BY <3>1 DEF Ends
    <3> QED BY <2>1, <3>1, <3>2, ClosesFlows
  <2> QED BY <2>2, <2>3
<1>7. CASE Serve
  <2>1. UNCHANGED <<sent, out, chunk, quiet>>
    BY <1>7 DEF Serve
  <2>2. CASE stop /\ at \in Procs
    <3>1. at \in Procs /\ Closes(at)
      BY <1>7, <2>2 DEF Serve
    <3>2. chunk[at] = <<>>
      BY <3>1 DEF Ends
    <3> QED BY <2>1, <3>1, <3>2, ClosesFlows
  <2>3. CASE ~(stop /\ at \in Procs)
    BY <1>5, <1>7, <2>1, <2>3 DEF Serve
  <2> QED BY <2>2, <2>3
<1>8. ASSUME NEW p \in Procs, Read(p) PROVE Streams'
  <2>1. /\ UNCHANGED <<sent, link, out, quiet>> /\ reader[p] = "read"
        /\ chunk' = [chunk EXCEPT ![p] = pipe[p]]
        /\ pipe' = [pipe EXCEPT ![p] = <<>>]
    BY <1>8 DEF Read
  <2>2. /\ chunk'[p] = pipe[p] /\ pipe'[p] = <<>>
        /\ \A r \in Procs \ {p} : chunk'[r] = chunk[r] /\ pipe'[r] = pipe[r]
    BY <2>1 DEF TypeOK
  <2>3. chunk[p] = <<>>
    BY <2>1 DEF Ends
  <2>4. Stream(p) = out[p] \o pipe[p]
    BY <2>3, StreamType, ConcatEmpty DEF Stream
  <2>5. Stream(p)' = out[p] \o pipe[p]
    <3>1. out[p] \o pipe[p] \in Seq(Nat)
      BY StreamType
    <3> QED BY <2>1, <2>2, <3>1, ConcatEmpty DEF Stream
  <2>6. Flows(p)'
    BY <1>0, <2>1, <2>4, <2>5, Frame
  <2> QED BY <2>1, <2>2, <2>6, OneFlows
<1>9. ASSUME NEW p \in Procs, Handle(p) PROVE Streams'
  <2>1. UNCHANGED <<sent, quiet>> /\ chunk[p] # <<>>
    BY <1>9 DEF Handle
  <2>2. CASE /\ out' = [out EXCEPT ![p] = Append(@, Head(chunk[p]))]
             /\ chunk' = [chunk EXCEPT ![p] = Tail(@)]
             /\ UNCHANGED <<link, pipe>>
    <3>1. /\ out'[p] = Append(out[p], Head(chunk[p])) /\ chunk'[p] = Tail(chunk[p])
          /\ \A r \in Procs \ {p} : out'[r] = out[r] /\ chunk'[r] = chunk[r]
      BY <2>2 DEF TypeOK
    <3>2. out'[p] \o chunk'[p] = out[p] \o chunk[p]
      BY ZenonT(30), <2>1, <3>1, StreamType, HeadMoves
    <3>3. Stream(p)' = Stream(p)
      BY <2>2, <3>2 DEF Stream
    <3>4. Flows(p)'
      BY <1>0, <2>1, <2>2, <3>3, Frame
    <3> QED BY <2>1, <2>2, <3>1, <3>4, OneFlows
  <2>3. CASE /\ chunk' = [chunk EXCEPT ![p] = <<>>]
             /\ Closes(p)
             /\ UNCHANGED out
    <3>1. chunk'[p] = <<>> /\ \A r \in Procs \ {p} : chunk'[r] = chunk[r]
      BY <2>3 DEF TypeOK
    <3> QED BY <2>1, <2>3, <3>1, ClosesFlows
  <2> QED BY <1>9, <2>2, <2>3 DEF Handle
<1>10. ASSUME NEW p \in Procs, ReaderTurn(p) \/ ReaderEnds(p) PROVE Streams'
  <2>1. /\ UNCHANGED <<sent, out, chunk, quiet>> /\ chunk[p] = <<>>
        /\ Closes(p) \/ UNCHANGED <<link, pipe>>
    BY <1>10 DEF ReaderTurn, ReaderEnds, Ends
  <2> QED BY <1>5, <2>1, ClosesFlows
<1>11. CASE \/ AcceptTurn \/ CreateInstance \/ StartWrite \/ EndWrite \/ Stop \/ Unblock
            \/ Join \/ LastWrite \/ UNCHANGED vars
  BY <1>5, <1>11 DEF AcceptTurn, CreateInstance, StartWrite, EndWrite, Stop, Unblock,
                     Join, LastWrite, vars
<1>12. ASSUME NEW p \in Procs, Exit(p) PROVE Streams'
  BY <1>5, <1>12 DEF Exit
<1> QED BY <1>1, <1>2, <1>3, <1>4, <1>6, <1>7, <1>8, <1>9, <1>10, <1>11, <1>12
           DEF Next, Monitor, Collector

-----------------------------------------------------------------------------
(* The invariant, and what follows from it.                                *)

LEMMA Start == Init => IInv
<1> SUFFICES ASSUME Init PROVE IInv
  OBVIOUS
<1>1. TypeOK
  BY TypeStart
<1>2. Ends
  BY CollectorAssumption DEF Init, Ends
<1>3. Streams
  <2> SUFFICES ASSUME NEW p \in Procs PROVE Flows(p)
    BY DEF Streams
  <2>1. Stream(p) = <<>> /\ link[p] = "new" /\ sent[p] = 0
    BY DEF Init, Stream
  <2>2. Good(<<>>, Voice(p)) /\ NoneAfter(<<>>, 0)
    BY DEF Good, NoneAfter
  <2> QED BY <2>1, <2>2 DEF Flows
<1>4. Mirror
  BY DEF Init, Mirror, PidsAreMirrored, Writing
<1> QED BY <1>1, <1>2, <1>3, <1>4 DEF IInv

LEMMA Invariance == Spec => []IInv
<1>1. IInv /\ [Next]_vars => IInv'
  BY TypeStep, EndsStep, StreamsStep, MirrorStep DEF IInv
<1> QED BY <1>1, Start, PTL DEF Spec

(* What the file of events holds of a process, it holds in the order of    *)
(* the calls, and the gaps are marked.                                     *)
THEOREM GapsMarked == Spec => []GapsAreMarked
<1>1. IInv => GapsAreMarked
  <2> SUFFICES ASSUME TypeOK, Streams, NEW p \in Procs,
                      NEW i \in 1 .. Len(out[p]), NEW j \in 1 .. Len(out[p]),
                      i < j, out[p][i] # Lost, out[p][j] # Lost
               PROVE  \/ out[p][j] = out[p][i] + j - i
                      \/ /\ out[p][j] > out[p][i]
                         /\ p \in quiet \/ \E k \in i .. j : out[p][k] = Lost
    BY DEF IInv, GapsAreMarked
  <2>1. Flows(p)
    BY DEF Streams
  <2>2. Good(out[p], Voice(p))
    BY <2>1, Arrived
  <2>3. \/ out[p][j] = out[p][i] + j - i
        \/ out[p][j] > out[p][i] /\ Marked(out[p], Voice(p), i, j)
    BY <2>2 DEF Good
  <2>4. Marked(out[p], Voice(p), i, j) =>
          p \in quiet \/ \E k \in i .. j : out[p][k] = Lost
    BY DEF Marked, Voice
  <2> QED BY <2>3, <2>4
<1> QED BY <1>1, Invariance, PTL

(* The file of pids names only processes that have sent an event, and each *)
(* of them, or it is about to be written.                                  *)
THEOREM PidsMirrored == Spec => []PidsAreMirrored
<1>1. IInv => PidsAreMirrored
  BY DEF IInv, Mirror
<1> QED BY <1>1, Invariance, PTL
=============================================================================
