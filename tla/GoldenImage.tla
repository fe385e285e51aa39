----------------------------- MODULE GoldenImage -----------------------------
(***************************************************************************)
(* The analysis VM's disk and its golden snapshot: the PowerShell verbs    *)
(* Ensure-Snapshot, Restore-Snapshot, Start-VM, Stop-VM and                *)
(* Recapture-Snapshot (scripts/hyperv-vm.ps1), as an analysis run          *)
(* (orchestrator/executor.py) and the provisioning endpoints               *)
(* (orchestrator/main.py) call them.                                       *)
(*                                                                         *)
(* A step is one cmdlet that changes the VM, with the checks the script    *)
(* makes since its previous one.  Any cmdlet may throw and any verb may be *)
(* killed by its timeout (OperationFails), and the orchestrator may die at *)
(* any point (Crash), leaving the VM as it is.                             *)
(*                                                                         *)
(* Remove-VMSnapshot returns before the checkpoint is gone: it still bears *)
(* its name until Hyper-V has merged it (RemovalEnds), which may take      *)
(* longer than Recapture-Snapshot waits.  Hyper-V is assumed to refuse a   *)
(* revert to a checkpoint that is being removed.                           *)
(*                                                                         *)
(* The provisioning endpoints do not take the single-flight slot.          *)
(* Exclusive says that the operator nevertheless runs them one at a time   *)
(* and never during an analysis.                                           *)
(***************************************************************************)
EXTENDS FiniteSets

CONSTANTS Runs,         \* analysis runs; each leaves its residue on the disk
          Provisioners, \* provision-* calls that apply a change and verify it
          Opposites,    \* the pairs of them that undo one another, such as
                        \*   provision-defender-off and -on
          OffSnapshots, \* provision-off-snapshot calls: recapture only
          Snapshots,    \* POST /api/vm/snapshot calls
          Restores,     \* POST /api/vm/restore calls
          Exclusive     \* one operation at a time?

Operations == Runs \cup Provisioners \cup OffSnapshots \cup Snapshots \cup Restores

ASSUME OperationsAssumption ==
  /\ Runs \cap (Provisioners \cup OffSnapshots \cup Snapshots \cup Restores) = {}
  /\ Provisioners \cap (OffSnapshots \cup Snapshots \cup Restores) = {}
  /\ OffSnapshots \cap (Snapshots \cup Restores) = {}
  /\ Snapshots \cap Restores = {}
  /\ \A pair \in Opposites : pair \subseteq Provisioners
  /\ Exclusive \in BOOLEAN

VARIABLES power,    \* the VM's state
          disk,     \* what has been done to the disk: changes and residues
          golden,   \* the checkpoints that bear the golden name (0 or 1, or
                    \*   more when two operations collide)
          leaving,  \* those that still bear it and are being removed
          temp,     \* the checkpoints named <golden>-PROVISION
          pc,       \* the next cmdlet of each operation
          verified, \* history: the provisioners whose change verified
          promised  \* history: those that answered "provisioned" and whose
                    \*   change no later call has taken back

vars == <<power, disk, golden, leaving, temp, pc, verified, promised>>

Contents == SUBSET (Runs \cup Provisioners)
Image == [disk : Contents, off : BOOLEAN]

Named == golden \cup leaving  \* what Get-VMSnapshot finds under the golden name

(* A checkpoint of a VM that is not off carries its saved state. *)
Checkpoint == [disk |-> disk, off |-> power = "Off"]

Idle == {"new", "done", "failed"}
Steps == {"ensure", "create", "restore", "revert", "start", "detonate", "stop",
          "apply", "verify", "recapture", "dropStale", "takeTemp",
          "dropGolden", "rename"}

(* The VM as the operator prepared it, before or after the first snapshot, *)
(* which may be one of the old ones with saved state.                      *)
Init ==
  /\ power \in {"Off", "Running"}
  /\ disk = {}
  /\ \/ golden = {}
     \/ \E off \in BOOLEAN : golden = {[disk |-> {}, off |-> off]}
  /\ leaving = {}
  /\ temp = {}
  /\ pc = [o \in Operations |-> "new"]
  /\ verified = {}
  /\ promised = {}

Goto(o, step) == pc' = [pc EXCEPT ![o] = step]

(* The verb an operation calls first, after reverting and after starting.  *)
FirstStep_NoRestore(o) ==
  IF o \in Runs \cup Snapshots THEN "ensure" ELSE "start"

FirstStep(o) ==
  IF o \in Runs \cup Snapshots THEN "ensure" ELSE "restore"

AfterRevert(o) == IF o \in Restores THEN "done" ELSE "start"

AfterStart(o) ==
  CASE o \in Runs -> "detonate"
    [] o \in Provisioners -> "apply"
    [] OTHER -> "recapture"

(* An analysis holds the single-flight slot, so no two analyses overlap. *)
Begin(o) ==
  /\ pc[o] = "new"
  /\ \A p \in Operations :
       pc[p] \notin Idle => ~Exclusive /\ ~(o \in Runs /\ p \in Runs)
  /\ Goto(o, FirstStep(o))
  /\ UNCHANGED <<power, disk, golden, leaving, temp, verified, promised>>

(* The operation raises.  A run's finally clause still stops the VM. *)
OperationFails(o) ==
  /\ pc[o] \notin Idle
  /\ Goto(o, IF o \in Runs /\ pc[o] # "stop" THEN "stop" ELSE "failed")
  /\ UNCHANGED <<power, disk, golden, leaving, temp, verified, promised>>

(* The orchestrator and its PowerShell children die. *)
Crash ==
  /\ \E o \in Operations : pc[o] \notin Idle
  /\ pc' = [o \in Operations |-> IF pc[o] \in Idle THEN pc[o] ELSE "failed"]
  /\ UNCHANGED <<power, disk, golden, leaving, temp, verified, promised>>

-----------------------------------------------------------------------------
(* Ensure-SandboxSnapshot: nothing to do, or turn the VM off and take it. *)

AfterEnsure_KeepsDisk(o) == IF o \in Runs THEN "start" ELSE "done"

AfterEnsure(o) == IF o \in Runs THEN "restore" ELSE "done"

EnsureFindsGolden(o) ==
  /\ pc[o] = "ensure"
  /\ Named # {}
  /\ Goto(o, AfterEnsure(o))
  /\ UNCHANGED <<power, disk, golden, leaving, temp, verified, promised>>

EnsureTurnsOff(o) ==
  /\ pc[o] = "ensure"
  /\ Named = {}
  /\ power' = "Off"
  /\ Goto(o, "create")
  /\ UNCHANGED <<disk, golden, leaving, temp, verified, promised>>

EnsureCreates(o) ==
  /\ pc[o] = "create"
  /\ golden' = golden \cup {Checkpoint}
  /\ Goto(o, AfterEnsure(o))
  /\ UNCHANGED <<power, disk, leaving, temp, verified, promised>>

(* Restore-SandboxSnapshot: throws without a golden snapshot, else turns   *)
(* the VM off and reverts -- which fails when all it found is leaving.  An *)
(* image with saved state reverts to "Saved".                              *)
RestoreTurnsOff(o) ==
  /\ pc[o] = "restore"
  /\ Named # {}
  /\ power' = "Off"
  /\ Goto(o, "revert")
  /\ UNCHANGED <<disk, golden, leaving, temp, verified, promised>>

RestoreReverts(o) ==
  /\ pc[o] = "revert"
  /\ \E image \in golden :
       /\ disk' = image.disk
       /\ power' = IF image.off THEN "Off" ELSE "Saved"
  /\ Goto(o, AfterRevert(o))
  /\ UNCHANGED <<golden, leaving, temp, verified, promised>>

StartVM(o) ==
  /\ pc[o] = "start"
  /\ power' = "Running"
  /\ Goto(o, AfterStart(o))
  /\ UNCHANGED <<disk, golden, leaving, temp, verified, promised>>

(* The run's middle part (module RunAnalysis), seen from the disk.  Every  *)
(* way out of it leads through the finally clause to Stop-VM.              *)
Detonate(o) ==
  /\ pc[o] = "detonate"
  /\ power = "Running"
  /\ disk' = disk \cup {o}
  /\ Goto(o, "stop")
  /\ UNCHANGED <<power, golden, leaving, temp, verified, promised>>

StopVM(o) ==
  /\ pc[o] = "stop"
  /\ power' = "Off"
  /\ Goto(o, "done")
  /\ UNCHANGED <<disk, golden, leaving, temp, verified, promised>>

-----------------------------------------------------------------------------
(* A provisioning call: the change may silently not take (Tamper           *)
(* Protection, policy) or only break the one it undoes, and what is in     *)
(* place after the reboot is verified.                                     *)

(* Enabling Defender takes back what disabling it did, and vice versa. *)
Undoes(o) == {p \in Provisioners \ {o} : {o, p} \in Opposites}

Apply(o) ==
  /\ pc[o] = "apply"
  /\ power = "Running"
  /\ disk' \in {disk, disk \ Undoes(o), (disk \ Undoes(o)) \cup {o}}
  /\ Goto(o, "verify")
  /\ UNCHANGED <<power, golden, leaving, temp, verified, promised>>

VerifyPasses_Reports(o) ==
  /\ pc[o] = "verify"
  /\ power = "Running"
  /\ o \in disk
  /\ verified' = verified \cup {o}
  /\ promised' = promised \cup {o}
  /\ Goto(o, "recapture")
  /\ UNCHANGED <<power, disk, golden, leaving, temp>>

VerifyPasses(o) ==
  /\ pc[o] = "verify"
  /\ power = "Running"
  /\ o \in disk
  /\ verified' = verified \cup {o}
  /\ Goto(o, "recapture")
  /\ UNCHANGED <<power, disk, golden, leaving, temp, promised>>

(* The exit code is not 0, whether or not the change is there. *)
VerifyRefuses_Recaptures(o) ==
  /\ pc[o] = "verify"
  /\ Goto(o, "recapture")
  /\ UNCHANGED <<power, disk, golden, leaving, temp, verified, promised>>

VerifyRefuses(o) ==
  /\ pc[o] = "verify"
  /\ Goto(o, "failed")
  /\ UNCHANGED <<power, disk, golden, leaving, temp, verified, promised>>

(* Recapture-SandboxSnapshot: refuse without a golden snapshot, shut the   *)
(* guest down, drop a stale replacement, take the new one, and only when   *)
(* it is visible remove the old one, wait up to 180 s for the merge, and   *)
(* rename, also when the old one is still there.                           *)
RecaptureShutsDown_StaysOn(o) ==
  /\ pc[o] = "recapture"
  /\ Named # {}
  /\ Goto(o, "dropStale")
  /\ UNCHANGED <<power, disk, golden, leaving, temp, verified, promised>>

RecaptureShutsDown(o) ==
  /\ pc[o] = "recapture"
  /\ Named # {}
  /\ power' = "Off"
  /\ Goto(o, "dropStale")
  /\ UNCHANGED <<disk, golden, leaving, temp, verified, promised>>

RecaptureDropsStale_Both(o) ==
  /\ pc[o] = "dropStale"
  /\ temp' = {}
  /\ golden' = {}
  /\ Goto(o, "takeTemp")
  /\ UNCHANGED <<power, disk, leaving, verified, promised>>

RecaptureDropsStale(o) ==
  /\ pc[o] = "dropStale"
  /\ temp' = {}
  /\ Goto(o, "takeTemp")
  /\ UNCHANGED <<power, disk, golden, leaving, verified, promised>>

RecaptureTakesTemp(o) ==
  /\ pc[o] = "takeTemp"
  /\ temp' = temp \cup {Checkpoint}
  /\ Goto(o, "dropGolden")
  /\ UNCHANGED <<power, disk, golden, leaving, verified, promised>>

(* With the old image goes what the new one takes back. *)
RecaptureDropsGolden(o) ==
  /\ pc[o] = "dropGolden"
  /\ Named # {}
  /\ golden' = {}
  /\ leaving' = Named
  /\ promised' = promised \ Undoes(o)
  /\ Goto(o, "rename")
  /\ UNCHANGED <<power, disk, temp, verified>>

RecaptureRenames(o) ==
  /\ pc[o] = "rename"
  /\ temp # {}
  /\ golden' = golden \cup temp
  /\ temp' = {}
  /\ promised' = promised \cup ({o} \cap Provisioners)
  /\ Goto(o, "done")
  /\ UNCHANGED <<power, disk, leaving, verified>>

(* Hyper-V has merged what was removed, at its own pace. *)
RemovalEnds ==
  /\ leaving # {}
  /\ leaving' = {}
  /\ UNCHANGED <<power, disk, golden, temp, pc, verified, promised>>

-----------------------------------------------------------------------------
Next ==
  \/ \E o \in Operations :
       \/ Begin(o) \/ OperationFails(o)
       \/ EnsureFindsGolden(o) \/ EnsureTurnsOff(o) \/ EnsureCreates(o)
       \/ RestoreTurnsOff(o) \/ RestoreReverts(o) \/ StartVM(o)
       \/ Detonate(o) \/ StopVM(o)
       \/ Apply(o) \/ VerifyPasses(o) \/ VerifyRefuses(o)
       \/ RecaptureShutsDown(o) \/ RecaptureDropsStale(o)
       \/ RecaptureTakesTemp(o) \/ RecaptureDropsGolden(o)
       \/ RecaptureRenames(o)
  \/ Crash
  \/ RemovalEnds

Spec == Init /\ [][Next]_vars

-----------------------------------------------------------------------------
TypeOK ==
  /\ power \in {"Off", "Running", "Saved"}
  /\ disk \in Contents
  /\ golden \subseteq Image
  /\ leaving \subseteq Image
  /\ temp \subseteq Image
  /\ pc \in [Operations -> Idle \cup Steps]
  /\ verified \subseteq Provisioners
  /\ promised \subseteq Provisioners

(* No checkpoint ever holds the residue of a sample, whatever failed or    *)
(* crashed before it was taken.                                            *)
ImagesAreClean == \A image \in golden \cup temp : image.disk \cap Runs = {}

(* "The golden snapshot is ALWAYS disk-only" (hyperv-vm.ps1:2325): every   *)
(* new checkpoint is taken of a VM that is off.                            *)
NewImagesAreDiskOnly ==
  [][\A image \in (golden' \cup temp') \ (golden \cup temp) : image.off]_vars

(* Only changes that have verified are ever baked into a checkpoint.       *)
OnlyVerifiedIsBaked ==
  \A image \in golden \cup temp : image.disk \cap Provisioners \subseteq verified

(* "A failure can never leave the VM with no snapshot": once there is one, *)
(* golden or replacement, there is one for ever.                           *)
AlwaysASnapshot ==
  [][golden \cup temp # {} => golden' \cup temp' # {}]_vars

(* What a call has reported as provisioned stays in the image to which the *)
(* next run reverts, through every later run, recapture, failure and crash *)
(* -- also when a crash leaves only the replacement and the next run       *)
(* creates the golden snapshot anew.  Only a call that undoes it takes it  *)
(* out, and only when it has verified and replaces the image itself: one   *)
(* that is refused or breaks off before that leaves the image as it was.   *)
ProvisionedIsKept ==
  IF golden # {} THEN \A image \in golden : promised \subseteq image.disk
                 ELSE promised \subseteq disk

(* A sample starts on exactly the golden content, free of every earlier    *)
(* run's residue.                                                          *)
RunStartsFromGolden ==
  \A r \in Runs :
    pc[r] = "detonate" =>
      disk \cap Runs = {} /\ \E image \in golden : disk = image.disk
=============================================================================
