---------------------------- MODULE GuardianRing ----------------------------
(***************************************************************************)
(* The event ring of the SandboxGuard driver (guardian/src/SandboxGuard.c) *)
(* and the agent that drains it (agent/windows/guardian_agent.py).  Driver *)
(* callbacks push under a spin lock; the ring keeps the last Cap events.   *)
(* The agent wakes about once a second and pages through what is newer     *)
(* than its cursor, Page events per IOCTL_GUARDIAN_DRAIN, while callbacks  *)
(* go on pushing between two pages.                                        *)
(*                                                                         *)
(* An event is reduced to its Sequence field; that the agent then leaves   *)
(* process create and exit events out of guardian.jsonl is left out, as is *)
(* the wrap of the 31-bit sequence number.                                 *)
(***************************************************************************)
EXTENDS Integers, Sequences

CONSTANTS Cap,       \* GUARDIAN_RING_CAP
          Page,      \* events per DRAIN: the agent's buffer holds 64
          MaxEvents, \* bound: events pushed, so that every flood ends
          MaxErrors  \* bound: DRAIN calls that fail

ASSUME RingAssumption ==
  /\ Cap \in Nat \ {0}
  /\ Page \in Nat \ {0}
  /\ MaxEvents \in Nat
  /\ MaxErrors \in Nat

VARIABLES head,     \* g_RingSeq
          ring,     \* g_Ring: the Sequence in each slot
          pc,       \* where the agent's loop is
          lastSeen, \* last_seen in main()
          cursor,   \* last_seen inside _drain()
          batch,    \* what _drain() has collected
          out,      \* what the agent has written
          errors    \* failed DRAIN calls so far

ringVars == <<head, ring, pc, lastSeen, cursor, batch, out, errors>>

Slot(seq) == (seq - 1) % Cap

RingInit ==
  /\ head = 0
  /\ ring = [i \in 0 .. Cap - 1 |-> 0]
  /\ pc = "sleep"
  /\ lastSeen = 0
  /\ cursor = 0
  /\ batch = <<>>
  /\ out = <<>>
  /\ errors = 0

(* GuardianPushEvent, from any callback. *)
PushEvent ==
  /\ head < MaxEvents
  /\ head' = head + 1
  /\ ring' = [ring EXCEPT ![Slot(head + 1)] = head + 1]
  /\ UNCHANGED <<pc, lastSeen, cursor, batch, out, errors>>

(* What one DRAIN copies out, oldest first. *)
Oldest_OffByOne == IF head > Cap THEN head - Cap ELSE 1

Oldest == IF head > Cap THEN head - Cap + 1 ELSE 1

From == IF cursor + 1 < Oldest THEN Oldest ELSE cursor + 1

Count == IF head - From + 1 < Page THEN head - From + 1 ELSE Page

Copied == [i \in 1 .. Count |-> ring[Slot(From + i - 1)]]

(* The loop wakes, and sees neither the stop file nor its deadline. *)
StartDrain ==
  /\ pc = "sleep"
  /\ pc' = "drain"
  /\ cursor' = lastSeen
  /\ batch' = <<>>
  /\ UNCHANGED <<head, ring, lastSeen, out, errors>>

(* One IOCTL.  cursor moves past what was copied; a short page ends it, and *)
(* nothing else does: until then the agent writes nothing and looks neither *)
(* at the stop file nor at its deadline.                                    *)
DrainPage_DropsFullPage ==
  /\ pc = "drain"
  /\ batch' = batch \o Copied
  /\ cursor' = IF Count = 0 THEN cursor ELSE Copied[Count]
  /\ pc' = IF Count < Page THEN "write" ELSE "sleep"
  /\ UNCHANGED <<head, ring, lastSeen, out, errors>>

DrainPage ==
  /\ pc = "drain"
  /\ batch' = batch \o Copied
  /\ cursor' = IF Count = 0 THEN cursor ELSE Copied[Count]
  /\ pc' = IF Count < Page THEN "write" ELSE "drain"
  /\ UNCHANGED <<head, ring, lastSeen, out, errors>>

(* The IOCTL fails: the pages read so far are dropped, and so is their     *)
(* cursor, so that the next drain reads them again.                        *)
DrainError_KeepsCursor ==
  /\ pc = "drain"
  /\ errors < MaxErrors
  /\ errors' = errors + 1
  /\ lastSeen' = cursor
  /\ pc' = "sleep"
  /\ UNCHANGED <<head, ring, cursor, batch, out>>

DrainError ==
  /\ pc = "drain"
  /\ errors < MaxErrors
  /\ errors' = errors + 1
  /\ pc' = "sleep"
  /\ UNCHANGED <<head, ring, lastSeen, cursor, batch, out>>

WriteEvents ==
  /\ pc = "write"
  /\ out' = out \o batch
  /\ lastSeen' = cursor
  /\ pc' = "sleep"
  /\ UNCHANGED <<head, ring, cursor, batch, errors>>

(* The stop file or the deadline, seen at the top of the loop: there is no *)
(* last drain.  Guardian-Stop may kill an agent anywhere that does not get *)
(* there.                                                                  *)
StopLoop ==
  /\ pc # "stopped"
  /\ pc' = "stopped"
  /\ UNCHANGED <<head, ring, lastSeen, cursor, batch, out, errors>>

AgentStep == StartDrain \/ DrainPage \/ WriteEvents

RingNext ==
  \/ PushEvent
  \/ StartDrain \/ DrainPage \/ DrainError \/ WriteEvents
  \/ StopLoop

RingSpec == RingInit /\ [][RingNext]_ringVars

(* The agent is a runnable process until it is stopped. *)
RingFairSpec == RingSpec /\ WF_ringVars(AgentStep)

-----------------------------------------------------------------------------
RingTypeOK ==
  /\ head \in Nat
  /\ ring \in [0 .. Cap - 1 -> Nat]
  /\ pc \in {"sleep", "drain", "write", "stopped"}
  /\ lastSeen \in Nat
  /\ cursor \in Nat
  /\ batch \in Seq(Nat)
  /\ out \in Seq(Nat)
  /\ errors \in 0 .. MaxErrors

Ascending(s) == \A i, j \in DOMAIN s : i < j => s[i] < s[j]

(* guardian.jsonl holds each event at most once and in the order in which  *)
(* they happened, across page boundaries, retried drains and a ring that   *)
(* wraps between two pages.                                                *)
InOrderOnce == Ascending(out)

(* An event that the agent has passed is in the file unless the ring had   *)
(* to overwrite it: nothing is skipped while fewer than Cap newer events   *)
(* exist.                                                                  *)
OnlyOverwrittenIsLost ==
  \A s \in 1 .. lastSeen : s > head - Cap => \E i \in DOMAIN out : out[i] = s

(* Once the callbacks push no more, the drain catches up with every event  *)
(* ever pushed, however the ring wrapped, unless the agent is stopped      *)
(* first.  While they push a full page between any two IOCTLs it need not: *)
(* the drain goes on, and nothing is written.  MaxEvents ends every flood  *)
(* of this model; the premise says so of the code.                         *)
FloodEnds == <>[][head' = head]_ringVars

CatchesUp ==
  FloodEnds => \A s \in 1 .. MaxEvents : head >= s ~> lastSeen >= s \/ pc = "stopped"
=============================================================================
