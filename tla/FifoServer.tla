----------------------------- MODULE FifoServer -----------------------------
(***************************************************************************)
(* What orchestrator/jobs.py promises its callers, with no threads, locks, *)
(* records or watchdog: one analysis VM, handed to one client at a time,   *)
(* strictly in the order in which clients were admitted, and passed on     *)
(* directly, so that the VM is never observably idle while a client waits. *)
(***************************************************************************)
EXTENDS Naturals, Sequences

CONSTANTS Clients,   \* whoever may be given the VM
          None       \* "no client"

VARIABLES admitted,  \* every client admitted so far, in order of admission
          served,    \* the prefix of admitted that has been given the VM
          serving    \* the client that has the VM now, or None

vars == <<admitted, served, serving>>

Init == admitted = <<>> /\ served = <<>> /\ serving = None

(* A client that finds the VM free gets it at once. *)
ArriveIdle(c) ==
  /\ serving = None
  /\ admitted' = Append(admitted, c)
  /\ served' = Append(served, c)
  /\ serving' = c

(* A client that finds it busy waits behind everyone admitted earlier. *)
ArriveBusy(c) ==
  /\ serving # None
  /\ admitted' = Append(admitted, c)
  /\ UNCHANGED <<served, serving>>

(* The client that has the VM gives it up to the first one waiting. *)
PassOn ==
  /\ serving # None
  /\ Len(served) < Len(admitted)
  /\ serving' = admitted[Len(served) + 1]
  /\ served' = Append(served, serving')
  /\ UNCHANGED admitted

(* Nobody waits: the VM becomes free. *)
BecomeIdle ==
  /\ serving # None
  /\ Len(served) = Len(admitted)
  /\ serving' = None
  /\ UNCHANGED <<admitted, served>>

Next ==
  \/ \E c \in Clients : ArriveIdle(c) \/ ArriveBusy(c)
  \/ PassOn
  \/ BecomeIdle

Spec == Init /\ [][Next]_vars
=============================================================================
