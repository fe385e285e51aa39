-------------------------- MODULE GoldenImageProofs --------------------------
(***************************************************************************)
(* The golden image is clean, verified, complete and never lost, for any   *)
(* number of runs and provisioning calls that come one at a time.          *)
(*                                                                         *)
(* The argument: an operation changes the disk only after it has reverted  *)
(* to a golden image, and while there is no golden image the disk has the  *)
(* content of one.  So whatever an operation breaks off at, the images are *)
(* sound, and a checkpoint is only ever taken of a sound disk.  What a     *)
(* call takes back stays promised, and in the golden image, until that     *)
(* image is dropped; its own disk lacks just that.                         *)
(***************************************************************************)
EXTENDS GoldenImage, TLAPS

(* A content that may be baked in, and one that has all it should have. *)
Sound(d) == d \cap Runs = {} /\ d \cap Provisioners \subseteq verified
Complete(d) == promised \subseteq d

(* One that lacks at most what an operation takes back. *)
CompleteFor(o, d) == promised \ Undoes(o) \subseteq d

Recapturing == {"recapture", "dropStale", "takeTemp", "dropGolden", "rename"}
Restored == {"start", "detonate", "apply", "verify"} \cup Recapturing

OneAtATime ==
  \A o, p \in Operations : pc[o] \notin Idle /\ pc[p] \notin Idle => o = p

ImagesAreSound == \A image \in golden \cup temp : Sound(image.disk)

GoldenIsComplete == \A image \in golden : Complete(image.disk)

(* Without a golden image, the disk is what the next one is taken of. *)
DiskStandsIn == golden = {} => Sound(disk) /\ Complete(disk)

(* What holds of an operation and the VM at each of its steps. *)
Kinds(o) ==
  /\ pc[o] = "detonate" => o \in Runs
  /\ pc[o] \in {"apply", "verify"} => o \in Provisioners

HasGolden(o) ==
  /\ pc[o] \in Restored \ {"rename"} => golden # {}
  /\ pc[o] \in {"create", "rename"} => golden = {}

DiskIsSound(o) ==
  /\ pc[o] \in {"start", "detonate", "apply", "rename"} => Complete(disk)
  /\ pc[o] \in {"verify"} \cup Recapturing => CompleteFor(o, disk)
  /\ pc[o] \in Restored \ {"verify"} => Sound(disk)
  /\ pc[o] = "verify" =>
       /\ disk \cap Runs = {}
       /\ disk \cap Provisioners \subseteq verified \cup {o}
  /\ pc[o] \in Recapturing /\ o \in Provisioners => o \in disk

DiskIsGolden(o) ==
  pc[o] \in {"start", "detonate"} => \E image \in golden : disk = image.disk

Replaces(o) ==
  /\ pc[o] = "takeTemp" => temp = {}
  /\ pc[o] \in {"dropGolden", "rename"} =>
       temp # {} /\ \A image \in temp : image.disk = disk

IsOff(o) == pc[o] \in {"create", "dropStale", "takeTemp"} => power = "Off"

AtWork(o) ==
  /\ Kinds(o)
  /\ HasGolden(o)
  /\ DiskIsSound(o)
  /\ DiskIsGolden(o)
  /\ Replaces(o)
  /\ IsOff(o)

IInv ==
  /\ TypeOK
  /\ OneAtATime
  /\ ImagesAreSound
  /\ GoldenIsComplete
  /\ DiskStandsIn
  /\ \A o \in Operations : AtWork(o)
-----------------------------------------------------------------------------
(* The types, which hold also when operations overlap.                     *)

TypeInv == TypeOK /\ \A o \in Operations : Kinds(o)

USE DEF Operations

LEMMA Moves ==
  ASSUME TypeOK, NEW o \in Operations, NEW s \in Idle \cup Steps, Goto(o, s)
  PROVE  /\ pc' \in [Operations -> Idle \cup Steps]
         /\ pc'[o] = s
         /\ \A p \in Operations : p # o => pc'[p] = pc[p]
  BY DEF TypeOK, Goto

LEMMA CheckpointType == TypeOK => Checkpoint \in Image
  BY DEF TypeOK, Checkpoint, Image

(* Each step leads to a step, of the right kind of operation.              *)
LEMMA TypeStep == TypeInv /\ [Next]_vars => TypeInv'
<1> SUFFICES ASSUME TypeInv, [Next]_vars PROVE TypeInv'
  OBVIOUS
<1> USE DEF TypeInv, Kinds, Idle, Steps
<1>1. ASSUME NEW o \in Operations, Begin(o) PROVE TypeInv'
  <2>1. FirstStep(o) \in {"ensure", "restore"}
    BY DEF FirstStep
  <2>2. Goto(o, FirstStep(o)) /\ UNCHANGED <<power, disk, golden, leaving, temp, verified, promised>>
    BY <1>1 DEF Begin
  <2> QED BY <2>1, <2>2, Moves DEF TypeOK
<1>2. ASSUME NEW o \in Operations, OperationFails(o) PROVE TypeInv'
  <2>1. PICK s \in {"stop", "failed"} : Goto(o, s)
    BY <1>2 DEF OperationFails
  <2>2. UNCHANGED <<power, disk, golden, leaving, temp, verified, promised>>
    BY <1>2 DEF OperationFails
  <2> QED BY <2>1, <2>2, Moves DEF TypeOK
<1>3. CASE Crash
  BY <1>3 DEF Crash, TypeOK
<1>4. ASSUME NEW o \in Operations, EnsureFindsGolden(o) PROVE TypeInv'
  <2>1. Goto(o, AfterEnsure(o)) /\ AfterEnsure(o) \in {"restore", "done"}
    BY <1>4 DEF EnsureFindsGolden, AfterEnsure
  <2> QED BY <1>4, <2>1, Moves DEF EnsureFindsGolden, TypeOK
<1>5. ASSUME NEW o \in Operations, EnsureTurnsOff(o) PROVE TypeInv'
  <2>1. Goto(o, "create")
    BY <1>5 DEF EnsureTurnsOff
  <2> QED BY <1>5, <2>1, Moves DEF EnsureTurnsOff, TypeOK
<1>6. ASSUME NEW o \in Operations, EnsureCreates(o) PROVE TypeInv'
  <2>1. Goto(o, AfterEnsure(o)) /\ AfterEnsure(o) \in {"restore", "done"}
    BY <1>6 DEF EnsureCreates, AfterEnsure
  <2> QED BY <1>6, <2>1, Moves, CheckpointType DEF EnsureCreates, TypeOK
<1>7. ASSUME NEW o \in Operations, RestoreTurnsOff(o) PROVE TypeInv'
  <2>1. Goto(o, "revert")
    BY <1>7 DEF RestoreTurnsOff
  <2> QED BY <1>7, <2>1, Moves DEF RestoreTurnsOff, TypeOK
<1>8. ASSUME NEW o \in Operations, RestoreReverts(o) PROVE TypeInv'
  <2>1. Goto(o, AfterRevert(o)) /\ AfterRevert(o) \in {"start", "done"}
    BY <1>8 DEF RestoreReverts, AfterRevert
  <2> QED BY <1>8, <2>1, Moves DEF RestoreReverts, TypeOK, Image
<1>9. ASSUME NEW o \in Operations, StartVM(o) PROVE TypeInv'
  <2>1. Goto(o, AfterStart(o))
    BY <1>9 DEF StartVM
  <2>2. /\ AfterStart(o) \in {"detonate", "apply", "recapture"}
        /\ AfterStart(o) = "detonate" => o \in Runs
        /\ AfterStart(o) = "apply" => o \in Provisioners
    BY DEF AfterStart
  <2> QED BY <1>9, <2>1, <2>2, Moves DEF StartVM, TypeOK
<1>10. ASSUME NEW o \in Operations, Detonate(o) PROVE TypeInv'
  <2>1. Goto(o, "stop")
    BY <1>10 DEF Detonate
  <2> QED BY <1>10, <2>1, Moves DEF Detonate, TypeOK, Contents
<1>11. ASSUME NEW o \in Operations, StopVM(o) PROVE TypeInv'
  <2>1. Goto(o, "done")
    BY <1>11 DEF StopVM
  <2> QED BY <1>11, <2>1, Moves DEF StopVM, TypeOK
<1>12. ASSUME NEW o \in Operations, Apply(o) PROVE TypeInv'
  <2>1. Goto(o, "verify")
    BY <1>12 DEF Apply
  <2> QED BY <1>12, <2>1, Moves DEF Apply, TypeOK, Contents, Undoes
<1>13. ASSUME NEW o \in Operations, VerifyPasses(o) PROVE TypeInv'
  <2>1. Goto(o, "recapture")
    BY <1>13 DEF VerifyPasses
  <2> QED BY <1>13, <2>1, Moves DEF VerifyPasses, TypeOK
<1>14. ASSUME NEW o \in Operations, VerifyRefuses(o) PROVE TypeInv'
  <2>1. Goto(o, "failed")
    BY <1>14 DEF VerifyRefuses
  <2> QED BY <1>14, <2>1, Moves DEF VerifyRefuses, TypeOK
<1>15. ASSUME NEW o \in Operations, RecaptureShutsDown(o) PROVE TypeInv'
  <2>1. Goto(o, "dropStale")
    BY <1>15 DEF RecaptureShutsDown
  <2> QED BY <1>15, <2>1, Moves DEF RecaptureShutsDown, TypeOK
<1>16. ASSUME NEW o \in Operations, RecaptureDropsStale(o) PROVE TypeInv'
  <2>1. Goto(o, "takeTemp")
    BY <1>16 DEF RecaptureDropsStale
  <2> QED BY <1>16, <2>1, Moves DEF RecaptureDropsStale, TypeOK
<1>17. ASSUME NEW o \in Operations, RecaptureTakesTemp(o) PROVE TypeInv'
  <2>1. Goto(o, "dropGolden")
    BY <1>17 DEF RecaptureTakesTemp
  <2> QED BY <1>17, <2>1, Moves, CheckpointType DEF RecaptureTakesTemp, TypeOK
<1>18. ASSUME NEW o \in Operations, RecaptureDropsGolden(o) PROVE TypeInv'
  <2>1. Goto(o, "rename")
    BY <1>18 DEF RecaptureDropsGolden
  <2> QED BY <1>18, <2>1, Moves DEF RecaptureDropsGolden, Named, TypeOK
<1>19. ASSUME NEW o \in Operations, RecaptureRenames(o) PROVE TypeInv'
  <2>1. Goto(o, "done")
    BY <1>19 DEF RecaptureRenames
  <2> QED BY <1>19, <2>1, Moves DEF RecaptureRenames, TypeOK
<1>20. CASE RemovalEnds
  BY <1>20 DEF RemovalEnds, TypeOK
<1>21. CASE UNCHANGED vars
  BY <1>21 DEF vars, TypeOK
<1> QED BY <1>1, <1>2, <1>3, <1>4, <1>5, <1>6, <1>7, <1>8, <1>9, <1>10, <1>11, <1>12, <1>13, <1>14, <1>15, <1>16, <1>17, <1>18, <1>19, <1>20, <1>21 DEF Next

(* Every reachable state is well typed, also when operations overlap.      *)
THEOREM TypeCorrect == Spec => []TypeOK
<1>1. Init => TypeInv
  BY DEF Init, TypeInv, TypeOK, Kinds, Idle, Steps, Image, Contents
<1>2. TypeInv => TypeOK
  BY DEF TypeInv
<1> QED BY <1>1, <1>2, TypeStep, PTL DEF Spec
-----------------------------------------------------------------------------
(* One at a time.                                                          *)

Images == ImagesAreSound /\ GoldenIsComplete /\ DiskStandsIn

LEMMA IdleIsHarmless ==
  ASSUME NEW p \in Operations, pc'[p] \in Idle
  PROVE  AtWork(p)'
  BY DEF AtWork, Kinds, HasGolden, DiskIsSound, DiskIsGolden, Replaces, IsOff,
         Restored, Recapturing, Idle

(* It is enough to look at the operation that makes the step.              *)
LEMMA OneMoves ==
  ASSUME IInv, TypeOK', NEW o \in Operations, pc[o] \notin Idle,
         NEW s \in Idle \cup Steps, Goto(o, s),
         Images', AtWork(o)'
  PROVE  IInv'
<1>1. /\ pc'[o] = s
      /\ \A p \in Operations : p # o => pc'[p] = pc[p]
  BY Moves DEF IInv
<1>2. \A p \in Operations : p # o => pc'[p] \in Idle
  BY <1>1 DEF IInv, OneAtATime
<1>3. \A p \in Operations : AtWork(p)'
  BY <1>2, IdleIsHarmless
<1>4. OneAtATime'
  BY <1>2 DEF OneAtATime
<1> QED BY <1>3, <1>4 DEF IInv, Images

LEMMA StepKeeps == Exclusive /\ IInv /\ TypeOK' /\ [Next]_vars => IInv'
<1> SUFFICES ASSUME Exclusive, IInv, TypeOK', [Next]_vars PROVE IInv'
  OBVIOUS
<1>0. Images /\ TypeOK /\ \A o \in Operations : AtWork(o)
  BY DEF IInv, Images
<1>1. ASSUME NEW o \in Operations, Begin(o) PROVE IInv'
  <2>1. FirstStep(o) \in {"ensure", "restore"}
    BY DEF FirstStep
  <2>2. Goto(o, FirstStep(o)) /\ UNCHANGED <<power, disk, golden, leaving, temp, verified, promised>>
    BY <1>1 DEF Begin
  <2>3. \A p \in Operations : pc[p] \in Idle
    BY <1>1 DEF Begin
  <2>4. /\ pc'[o] = FirstStep(o)
        /\ \A p \in Operations : p # o => pc'[p] = pc[p]
    BY <1>0, <2>1, <2>2, Moves DEF Steps
  <2>5. AtWork(o)'
    BY <2>1, <2>4 DEF AtWork, Kinds, HasGolden, DiskIsSound, DiskIsGolden, Replaces, IsOff,
                      Restored, Recapturing
  <2>6. \A p \in Operations : AtWork(p)'
    BY <2>3, <2>4, <2>5, IdleIsHarmless
  <2>7. OneAtATime'
    BY <2>3, <2>4 DEF OneAtATime
  <2>8. Images'
    BY <1>0, <2>2 DEF Images, ImagesAreSound, GoldenIsComplete, DiskStandsIn, Sound, Complete
  <2> QED BY <2>6, <2>7, <2>8 DEF IInv, Images
<1>2. ASSUME NEW o \in Operations, OperationFails(o) PROVE IInv'
  <2>1. PICK s \in {"stop", "failed"} : Goto(o, s)
    BY <1>2 DEF OperationFails
  <2>2. pc[o] \notin Idle /\ UNCHANGED <<power, disk, golden, leaving, temp, verified, promised>>
    BY <1>2 DEF OperationFails
  <2>3. s \in Idle \cup Steps /\ pc'[o] = s
    BY <1>0, <2>1, Moves DEF Idle, Steps
  <2>4. Images'
    BY <1>0, <2>2 DEF Images, ImagesAreSound, GoldenIsComplete, DiskStandsIn, Sound, Complete
  <2>5. AtWork(o)'
    BY <2>1, <2>3 DEF AtWork, Kinds, HasGolden, DiskIsSound, DiskIsGolden, Replaces, IsOff,
                      Restored, Recapturing
  <2> QED BY <2>1, <2>2, <2>3, <2>4, <2>5, OneMoves
<1>3. CASE Crash
  <2>1. UNCHANGED <<power, disk, golden, leaving, temp, verified, promised>>
    BY <1>3 DEF Crash
  <2>2. \A p \in Operations : pc'[p] \in Idle
    BY <1>3 DEF Crash, Idle
  <2>3. Images'
    BY <1>0, <2>1 DEF Images, ImagesAreSound, GoldenIsComplete, DiskStandsIn, Sound, Complete
  <2> QED BY <2>2, <2>3, IdleIsHarmless DEF IInv, Images, OneAtATime
<1>4. ASSUME NEW o \in Operations, EnsureFindsGolden(o) PROVE IInv'
  <2>1. pc[o] = "ensure" /\ Goto(o, AfterEnsure(o))
    BY <1>4 DEF EnsureFindsGolden
  <2>2. AfterEnsure(o) \in {"restore", "done"}
    BY DEF AfterEnsure
  <2>3. pc[o] \notin Idle /\ AfterEnsure(o) \in Idle \cup Steps /\ pc'[o] = AfterEnsure(o)
    BY <1>0, <2>1, <2>2, Moves DEF Idle, Steps
  <2>4. Images'
    BY <1>0, <1>4, <2>1 DEF EnsureFindsGolden, Named, Images, ImagesAreSound, GoldenIsComplete, DiskStandsIn, Sound, Complete, CompleteFor,
       AtWork, HasGolden, DiskIsSound, Replaces, Restored, Recapturing
  <2>5. AtWork(o)'
    BY <1>0, <1>4, <2>1, <2>2, <2>3 DEF EnsureFindsGolden, Named, Images, DiskStandsIn,
       AtWork, Kinds, HasGolden, DiskIsSound, DiskIsGolden, Replaces, IsOff,
       Sound, Complete, CompleteFor, Restored, Recapturing
  <2> QED BY <2>1, <2>3, <2>4, <2>5, OneMoves
<1>5. ASSUME NEW o \in Operations, EnsureTurnsOff(o) PROVE IInv'
  <2>1. pc[o] = "ensure" /\ Goto(o, "create")
    BY <1>5 DEF EnsureTurnsOff
  <2>2. pc[o] \notin Idle /\ "create" \in Idle \cup Steps /\ pc'[o] = "create"
    BY <1>0, <2>1, Moves DEF Idle, Steps
  <2>3. Images'
    BY <1>0, <1>5, <2>1 DEF EnsureTurnsOff, Named, Images, ImagesAreSound, GoldenIsComplete, DiskStandsIn, Sound, Complete, CompleteFor,
       AtWork, HasGolden, DiskIsSound, Replaces, Restored, Recapturing
  <2>4. AtWork(o)'
    BY <1>0, <1>5, <2>1, <2>2 DEF EnsureTurnsOff, Named, Images, DiskStandsIn,
       AtWork, Kinds, HasGolden, DiskIsSound, DiskIsGolden, Replaces, IsOff,
       Sound, Complete, CompleteFor, Restored, Recapturing
  <2> QED BY <2>1, <2>2, <2>3, <2>4, OneMoves
<1>6. ASSUME NEW o \in Operations, EnsureCreates(o) PROVE IInv'
  <2>1. pc[o] = "create" /\ Goto(o, AfterEnsure(o))
    BY <1>6 DEF EnsureCreates
  <2>2. AfterEnsure(o) \in {"restore", "done"}
    BY DEF AfterEnsure
  <2>3. pc[o] \notin Idle /\ AfterEnsure(o) \in Idle \cup Steps /\ pc'[o] = AfterEnsure(o)
    BY <1>0, <2>1, <2>2, Moves DEF Idle, Steps
  <2>4. Images'
    BY <1>0, <1>6, <2>1 DEF EnsureCreates, Images, ImagesAreSound, GoldenIsComplete, DiskStandsIn, Sound, Complete, CompleteFor,
       AtWork, HasGolden, DiskIsSound, Replaces, Restored, Recapturing, Checkpoint
  <2>5. AtWork(o)'
    BY <1>0, <1>6, <2>1, <2>2, <2>3 DEF EnsureCreates, Images, DiskStandsIn,
       AtWork, Kinds, HasGolden, DiskIsSound, DiskIsGolden, Replaces, IsOff,
       Sound, Complete, CompleteFor, Restored, Recapturing, Checkpoint
  <2> QED BY <2>1, <2>3, <2>4, <2>5, OneMoves
<1>7. ASSUME NEW o \in Operations, RestoreTurnsOff(o) PROVE IInv'
  <2>1. pc[o] = "restore" /\ Goto(o, "revert")
    BY <1>7 DEF RestoreTurnsOff
  <2>2. pc[o] \notin Idle /\ "revert" \in Idle \cup Steps /\ pc'[o] = "revert"
    BY <1>0, <2>1, Moves DEF Idle, Steps
  <2>3. Images'
    BY <1>0, <1>7, <2>1 DEF RestoreTurnsOff, Named, Images, ImagesAreSound, GoldenIsComplete, DiskStandsIn, Sound, Complete, CompleteFor,
       AtWork, HasGolden, DiskIsSound, Replaces, Restored, Recapturing
  <2>4. AtWork(o)'
    BY <1>0, <1>7, <2>1, <2>2 DEF RestoreTurnsOff, Named, Images, DiskStandsIn,
       AtWork, Kinds, HasGolden, DiskIsSound, DiskIsGolden, Replaces, IsOff,
       Sound, Complete, CompleteFor, Restored, Recapturing
  <2> QED BY <2>1, <2>2, <2>3, <2>4, OneMoves
<1>8. ASSUME NEW o \in Operations, RestoreReverts(o) PROVE IInv'
  <2>1. pc[o] = "revert" /\ Goto(o, AfterRevert(o)) /\ AfterRevert(o) \in {"start", "done"}
    BY <1>8 DEF RestoreReverts, AfterRevert
  <2>2. pc[o] \notin Idle /\ AfterRevert(o) \in Idle \cup Steps /\ pc'[o] = AfterRevert(o)
    BY <1>0, <2>1, Moves DEF Idle, Steps
  <2>3. Images'
    BY <1>0, <1>8, <2>1 DEF RestoreReverts, AfterRevert, Images, ImagesAreSound, GoldenIsComplete, DiskStandsIn, Sound, Complete, CompleteFor,
       AtWork, HasGolden, DiskIsSound, Replaces, Restored, Recapturing
  <2>4. AtWork(o)'
    BY <1>0, <1>8, <2>1, <2>2 DEF RestoreReverts, AfterRevert, Images, ImagesAreSound, GoldenIsComplete, DiskStandsIn,
       AtWork, Kinds, HasGolden, DiskIsSound, DiskIsGolden, Replaces, IsOff,
       Sound, Complete, CompleteFor, Restored, Recapturing
  <2> QED BY <2>1, <2>2, <2>3, <2>4, OneMoves
<1>9. ASSUME NEW o \in Operations, StartVM(o) PROVE IInv'
  <2>1. pc[o] = "start" /\ Goto(o, AfterStart(o))
    BY <1>9 DEF StartVM
  <2>2. /\ AfterStart(o) \in {"detonate", "apply", "recapture"}
        /\ AfterStart(o) = "detonate" => o \in Runs
        /\ AfterStart(o) = "apply" => o \in Provisioners
        /\ AfterStart(o) = "recapture" => o \notin Provisioners
    BY DEF AfterStart
  <2>3. pc[o] \notin Idle /\ AfterStart(o) \in Idle \cup Steps /\ pc'[o] = AfterStart(o)
    BY <1>0, <2>1, <2>2, Moves DEF Idle, Steps
  <2>4. Images'
    BY <1>0, <1>9, <2>1 DEF StartVM, Images, ImagesAreSound, GoldenIsComplete, DiskStandsIn, Sound, Complete, CompleteFor,
       AtWork, HasGolden, DiskIsSound, Replaces, Restored, Recapturing
  <2>5. AtWork(o)'
    BY <1>0, <1>9, <2>1, <2>2, <2>3 DEF StartVM, Images, DiskStandsIn,
       AtWork, Kinds, HasGolden, DiskIsSound, DiskIsGolden, Replaces, IsOff,
       Sound, Complete, CompleteFor, Restored, Recapturing
  <2> QED BY <2>1, <2>3, <2>4, <2>5, OneMoves
<1>10. ASSUME NEW o \in Operations, Detonate(o) PROVE IInv'
  <2>1. pc[o] = "detonate" /\ Goto(o, "stop")
    BY <1>10 DEF Detonate
  <2>2. pc[o] \notin Idle /\ "stop" \in Idle \cup Steps /\ pc'[o] = "stop"
    BY <1>0, <2>1, Moves DEF Idle, Steps
  <2>3. Images'
    BY <1>0, <1>10, <2>1 DEF Detonate, Images, ImagesAreSound, GoldenIsComplete, DiskStandsIn, Sound, Complete, CompleteFor,
       AtWork, HasGolden, DiskIsSound, Replaces, Restored, Recapturing
  <2>4. AtWork(o)'
    BY <1>0, <1>10, <2>1, <2>2 DEF Detonate, Images, DiskStandsIn,
       AtWork, Kinds, HasGolden, DiskIsSound, DiskIsGolden, Replaces, IsOff,
       Sound, Complete, CompleteFor, Restored, Recapturing
  <2> QED BY <2>1, <2>2, <2>3, <2>4, OneMoves
<1>11. ASSUME NEW o \in Operations, StopVM(o) PROVE IInv'
  <2>1. pc[o] = "stop" /\ Goto(o, "done")
    BY <1>11 DEF StopVM
  <2>2. pc[o] \notin Idle /\ "done" \in Idle \cup Steps /\ pc'[o] = "done"
    BY <1>0, <2>1, Moves DEF Idle, Steps
  <2>3. Images'
    BY <1>0, <1>11, <2>1 DEF StopVM, Images, ImagesAreSound, GoldenIsComplete, DiskStandsIn, Sound, Complete, CompleteFor,
       AtWork, HasGolden, DiskIsSound, Replaces, Restored, Recapturing
  <2>4. AtWork(o)'
    BY <1>0, <1>11, <2>1, <2>2 DEF StopVM, Images, DiskStandsIn,
       AtWork, Kinds, HasGolden, DiskIsSound, DiskIsGolden, Replaces, IsOff,
       Sound, Complete, CompleteFor, Restored, Recapturing
  <2> QED BY <2>1, <2>2, <2>3, <2>4, OneMoves
<1>12. ASSUME NEW o \in Operations, Apply(o) PROVE IInv'
  <2>1. pc[o] = "apply" /\ Goto(o, "verify")
    BY <1>12 DEF Apply
  <2>2. pc[o] \notin Idle /\ "verify" \in Idle \cup Steps /\ pc'[o] = "verify"
    BY <1>0, <2>1, Moves DEF Idle, Steps
  <2>3. Images'
    BY <1>0, <1>12, <2>1 DEF Apply, Images, ImagesAreSound, GoldenIsComplete, DiskStandsIn, Sound, Complete, CompleteFor,
       AtWork, HasGolden, DiskIsSound, Replaces, Restored, Recapturing
  <2>4. AtWork(o)'
    <3>1. o \in Provisioners /\ Sound(disk) /\ Complete(disk) /\ golden # {}
      BY <1>0, <2>1 DEF AtWork, Kinds, HasGolden, DiskIsSound, Restored
    <3>2. /\ disk' \in {disk, disk \ Undoes(o), (disk \ Undoes(o)) \cup {o}}
          /\ UNCHANGED <<golden, verified, promised>>
      BY <1>12 DEF Apply
    <3>3. DiskIsSound(o)'
      BY <2>2, <3>1, <3>2, OperationsAssumption
         DEF DiskIsSound, Sound, Complete, CompleteFor, Restored, Recapturing
    <3> QED BY <2>2, <3>1, <3>2, <3>3
            DEF AtWork, Kinds, HasGolden, DiskIsGolden, Replaces, IsOff, Restored, Recapturing
  <2> QED BY <2>1, <2>2, <2>3, <2>4, OneMoves
<1>13. ASSUME NEW o \in Operations, VerifyPasses(o) PROVE IInv'
  <2>1. pc[o] = "verify" /\ Goto(o, "recapture")
    BY <1>13 DEF VerifyPasses
  <2>2. pc[o] \notin Idle /\ "recapture" \in Idle \cup Steps /\ pc'[o] = "recapture"
    BY <1>0, <2>1, Moves DEF Idle, Steps
  <2>3. Images'
    BY <1>0, <1>13, <2>1 DEF VerifyPasses, Images, ImagesAreSound, GoldenIsComplete, DiskStandsIn, Sound, Complete, CompleteFor,
       AtWork, HasGolden, DiskIsSound, Replaces, Restored, Recapturing
  <2>4. AtWork(o)'
    BY <1>0, <1>13, <2>1, <2>2 DEF VerifyPasses, Images, DiskStandsIn,
       AtWork, Kinds, HasGolden, DiskIsSound, DiskIsGolden, Replaces, IsOff,
       Sound, Complete, CompleteFor, Restored, Recapturing
  <2> QED BY <2>1, <2>2, <2>3, <2>4, OneMoves
<1>14. ASSUME NEW o \in Operations, VerifyRefuses(o) PROVE IInv'
  <2>1. pc[o] = "verify" /\ Goto(o, "failed")
    BY <1>14 DEF VerifyRefuses
  <2>2. pc[o] \notin Idle /\ "failed" \in Idle \cup Steps /\ pc'[o] = "failed"
    BY <1>0, <2>1, Moves DEF Idle, Steps
  <2>3. Images'
    BY <1>0, <1>14, <2>1 DEF VerifyRefuses, Images, ImagesAreSound, GoldenIsComplete, DiskStandsIn, Sound, Complete, CompleteFor,
       AtWork, HasGolden, DiskIsSound, Replaces, Restored, Recapturing
  <2>4. AtWork(o)'
    BY <1>0, <1>14, <2>1, <2>2 DEF VerifyRefuses, Images, DiskStandsIn,
       AtWork, Kinds, HasGolden, DiskIsSound, DiskIsGolden, Replaces, IsOff,
       Sound, Complete, CompleteFor, Restored, Recapturing
  <2> QED BY <2>1, <2>2, <2>3, <2>4, OneMoves
<1>15. ASSUME NEW o \in Operations, RecaptureShutsDown(o) PROVE IInv'
  <2>1. pc[o] = "recapture" /\ Goto(o, "dropStale")
    BY <1>15 DEF RecaptureShutsDown
  <2>2. pc[o] \notin Idle /\ "dropStale" \in Idle \cup Steps /\ pc'[o] = "dropStale"
    BY <1>0, <2>1, Moves DEF Idle, Steps
  <2>3. Images'
    BY <1>0, <1>15, <2>1 DEF RecaptureShutsDown, Named, Images, ImagesAreSound, GoldenIsComplete, DiskStandsIn, Sound, Complete, CompleteFor,
       AtWork, HasGolden, DiskIsSound, Replaces, Restored, Recapturing
  <2>4. AtWork(o)'
    BY <1>0, <1>15, <2>1, <2>2 DEF RecaptureShutsDown, Named, Images, DiskStandsIn,
       AtWork, Kinds, HasGolden, DiskIsSound, DiskIsGolden, Replaces, IsOff,
       Sound, Complete, CompleteFor, Restored, Recapturing
  <2> QED BY <2>1, <2>2, <2>3, <2>4, OneMoves
<1>16. ASSUME NEW o \in Operations, RecaptureDropsStale(o) PROVE IInv'
  <2>1. pc[o] = "dropStale" /\ Goto(o, "takeTemp")
    BY <1>16 DEF RecaptureDropsStale
  <2>2. pc[o] \notin Idle /\ "takeTemp" \in Idle \cup Steps /\ pc'[o] = "takeTemp"
    BY <1>0, <2>1, Moves DEF Idle, Steps
  <2>3. Images'
    BY <1>0, <1>16, <2>1 DEF RecaptureDropsStale, Images, ImagesAreSound, GoldenIsComplete, DiskStandsIn, Sound, Complete, CompleteFor,
       AtWork, HasGolden, DiskIsSound, Replaces, Restored, Recapturing
  <2>4. AtWork(o)'
    BY <1>0, <1>16, <2>1, <2>2 DEF RecaptureDropsStale, Images, DiskStandsIn,
       AtWork, Kinds, HasGolden, DiskIsSound, DiskIsGolden, Replaces, IsOff,
       Sound, Complete, CompleteFor, Restored, Recapturing
  <2> QED BY <2>1, <2>2, <2>3, <2>4, OneMoves
<1>17. ASSUME NEW o \in Operations, RecaptureTakesTemp(o) PROVE IInv'
  <2>1. pc[o] = "takeTemp" /\ Goto(o, "dropGolden")
    BY <1>17 DEF RecaptureTakesTemp
  <2>2. pc[o] \notin Idle /\ "dropGolden" \in Idle \cup Steps /\ pc'[o] = "dropGolden"
    BY <1>0, <2>1, Moves DEF Idle, Steps
  <2>3. Images'
    BY <1>0, <1>17, <2>1 DEF RecaptureTakesTemp, Images, ImagesAreSound, GoldenIsComplete, DiskStandsIn, Sound, Complete, CompleteFor,
       AtWork, HasGolden, DiskIsSound, Replaces, Restored, Recapturing, Checkpoint
  <2>4. AtWork(o)'
    <3>1. /\ Sound(disk) /\ CompleteFor(o, disk) /\ golden # {} /\ temp = {}
          /\ o \in Provisioners => o \in disk
      BY <1>0, <2>1 DEF AtWork, HasGolden, DiskIsSound, Replaces, Restored, Recapturing
    <3>2. temp' = {Checkpoint} /\ UNCHANGED <<power, disk, golden, verified, promised>>
      BY <1>17, <3>1 DEF RecaptureTakesTemp
    <3>3. DiskIsSound(o)'
      BY <2>2, <3>1, <3>2 DEF DiskIsSound, Sound, CompleteFor, Recapturing, Restored
    <3>4. Replaces(o)'
      BY <2>2, <3>2 DEF Replaces, Checkpoint
    <3> QED BY <2>2, <3>1, <3>2, <3>3, <3>4
            DEF AtWork, Kinds, HasGolden, DiskIsGolden, IsOff, Restored, Recapturing
  <2> QED BY <2>1, <2>2, <2>3, <2>4, OneMoves
<1>18. ASSUME NEW o \in Operations, RecaptureDropsGolden(o) PROVE IInv'
  <2>1. pc[o] = "dropGolden" /\ Goto(o, "rename")
    BY <1>18 DEF RecaptureDropsGolden
  <2>2. pc[o] \notin Idle /\ "rename" \in Idle \cup Steps /\ pc'[o] = "rename"
    BY <1>0, <2>1, Moves DEF Idle, Steps
  <2>3. Images'
    BY <1>0, <1>18, <2>1 DEF RecaptureDropsGolden, Named, Images, ImagesAreSound, GoldenIsComplete, DiskStandsIn, Sound, Complete, CompleteFor,
       AtWork, HasGolden, DiskIsSound, Replaces, Restored, Recapturing
  <2>4. AtWork(o)'
    BY <1>0, <1>18, <2>1, <2>2 DEF RecaptureDropsGolden, Named, Images, DiskStandsIn,
       AtWork, Kinds, HasGolden, DiskIsSound, DiskIsGolden, Replaces, IsOff,
       Sound, Complete, CompleteFor, Restored, Recapturing
  <2> QED BY <2>1, <2>2, <2>3, <2>4, OneMoves
<1>19. ASSUME NEW o \in Operations, RecaptureRenames(o) PROVE IInv'
  <2>1. pc[o] = "rename" /\ Goto(o, "done")
    BY <1>19 DEF RecaptureRenames
  <2>2. pc[o] \notin Idle /\ "done" \in Idle \cup Steps /\ pc'[o] = "done"
    BY <1>0, <2>1, Moves DEF Idle, Steps
  <2>3. Images'
    BY <1>0, <1>19, <2>1 DEF RecaptureRenames, Images, ImagesAreSound, GoldenIsComplete, DiskStandsIn, Sound, Complete, CompleteFor,
       AtWork, HasGolden, DiskIsSound, Replaces, Restored, Recapturing
  <2>4. AtWork(o)'
    BY <1>0, <1>19, <2>1, <2>2 DEF RecaptureRenames, Images, DiskStandsIn,
       AtWork, Kinds, HasGolden, DiskIsSound, DiskIsGolden, Replaces, IsOff,
       Sound, Complete, CompleteFor, Restored, Recapturing
  <2> QED BY <2>1, <2>2, <2>3, <2>4, OneMoves
<1>20. CASE RemovalEnds
  BY <1>0, <1>20 DEF RemovalEnds, IInv, OneAtATime, Images, ImagesAreSound, GoldenIsComplete,
     DiskStandsIn, Sound, Complete, CompleteFor, AtWork, Kinds, HasGolden, DiskIsSound,
     DiskIsGolden, Replaces, IsOff
<1>21. CASE UNCHANGED vars
  BY <1>0, <1>21 DEF vars, IInv, OneAtATime, Images, ImagesAreSound, GoldenIsComplete, DiskStandsIn, Sound, Complete, CompleteFor,
     AtWork, Kinds, HasGolden, DiskIsSound, DiskIsGolden, Replaces, IsOff,
     CompleteFor
<1> QED BY <1>1, <1>2, <1>3, <1>4, <1>5, <1>6, <1>7, <1>8, <1>9, <1>10, <1>11, <1>12, <1>13, <1>14, <1>15, <1>16, <1>17, <1>18, <1>19, <1>20, <1>21 DEF Next

LEMMA StartIsSound == Init => IInv
  BY DEF Init, IInv, TypeOK, OneAtATime, ImagesAreSound, GoldenIsComplete, DiskStandsIn,
         AtWork, Kinds, HasGolden, DiskIsSound, DiskIsGolden, Replaces, IsOff,
         Sound, Complete, CompleteFor, Restored, Recapturing, Idle, Steps, Image, Contents

LEMMA Invariance == Exclusive /\ Spec => []IInv
<1> SUFFICES ASSUME Exclusive PROVE Spec => []IInv
  OBVIOUS
<1>1. IInv /\ TypeOK' /\ [Next]_vars => IInv'
  BY StepKeeps
<1> QED BY <1>1, StartIsSound, TypeCorrect, PTL DEF Spec

(* No residue of a sample is ever in a checkpoint.                         *)
THEOREM CleanImages == Exclusive /\ Spec => []ImagesAreClean
<1>1. IInv => ImagesAreClean
  BY DEF IInv, ImagesAreSound, ImagesAreClean, Sound
<1> QED BY <1>1, Invariance, PTL

(* No change that has not verified is ever in a checkpoint.                *)
THEOREM VerifiedImages == Exclusive /\ Spec => []OnlyVerifiedIsBaked
<1>1. IInv => OnlyVerifiedIsBaked
  BY DEF IInv, ImagesAreSound, OnlyVerifiedIsBaked, Sound
<1> QED BY <1>1, Invariance, PTL

(* What was reported as provisioned, and not undone since by a call that   *)
(* verified, is in the image or in what the next image will be taken of.   *)
THEOREM ProvisionedUntilUndone == Exclusive /\ Spec => []ProvisionedIsKept
<1>1. IInv => ProvisionedIsKept
  BY DEF IInv, GoldenIsComplete, DiskStandsIn, ProvisionedIsKept, Complete
<1> QED BY <1>1, Invariance, PTL

(* Every sample starts on the golden content.                              *)
THEOREM GoldenStart == Exclusive /\ Spec => []RunStartsFromGolden
<1>1. IInv => RunStartsFromGolden
  BY DEF IInv, AtWork, DiskIsSound, DiskIsGolden, RunStartsFromGolden, Sound, Restored
<1> QED BY <1>1, Invariance, PTL

(* A step that removes a checkpoint has another at hand.                   *)
LEMMA StepKeepsASnapshot ==
  IInv /\ [Next]_vars => (golden \cup temp # {} => golden' \cup temp' # {})
<1> SUFFICES ASSUME IInv, [Next]_vars, golden \cup temp # {}
             PROVE  golden' \cup temp' # {}
  OBVIOUS
<1>1. ASSUME NEW o \in Operations, RecaptureDropsStale(o) PROVE golden' # {}
  BY <1>1 DEF IInv, AtWork, HasGolden, Restored, Recapturing, RecaptureDropsStale
<1>2. ASSUME NEW o \in Operations, RecaptureDropsGolden(o) PROVE temp' # {}
  BY <1>2 DEF IInv, AtWork, Replaces, RecaptureDropsGolden
<1>3. ASSUME NEW o \in Operations, RecaptureRenames(o) PROVE golden' # {}
  BY <1>3 DEF RecaptureRenames
<1>4. ASSUME NEW o \in Operations, EnsureCreates(o) \/ RecaptureTakesTemp(o)
      PROVE  golden \cup temp \subseteq golden' \cup temp'
  BY <1>4 DEF EnsureCreates, RecaptureTakesTemp
<1>5. ASSUME NEW o \in Operations,
             \/ Begin(o) \/ OperationFails(o) \/ EnsureFindsGolden(o) \/ EnsureTurnsOff(o)
             \/ RestoreTurnsOff(o) \/ RestoreReverts(o) \/ StartVM(o) \/ Detonate(o)
             \/ StopVM(o) \/ Apply(o) \/ VerifyPasses(o) \/ VerifyRefuses(o)
             \/ RecaptureShutsDown(o)
      PROVE  UNCHANGED <<golden, temp>>
  BY <1>5 DEF Begin, OperationFails, EnsureFindsGolden, EnsureTurnsOff, RestoreTurnsOff,
              RestoreReverts, StartVM, Detonate, StopVM, Apply, VerifyPasses, VerifyRefuses,
              RecaptureShutsDown
<1>6. CASE Crash \/ RemovalEnds \/ UNCHANGED vars
  BY <1>6 DEF Crash, RemovalEnds, vars
<1> QED BY <1>1, <1>2, <1>3, <1>4, <1>5, <1>6 DEF Next

(* Once there is a snapshot there is one for ever, wherever a recapture    *)
(* breaks off.                                                             *)
THEOREM NeverWithoutSnapshot == Exclusive /\ Spec => AlwaysASnapshot
<1>1. IInv /\ [Next]_vars => [golden \cup temp # {} => golden' \cup temp' # {}]_vars
  BY StepKeepsASnapshot
<1> QED BY <1>1, Invariance, PTL DEF Spec, AlwaysASnapshot

(* A checkpoint is taken of a VM that is off.                              *)
LEMMA StepTakesDiskOnly ==
  IInv /\ [Next]_vars
    => \A image \in (golden' \cup temp') \ (golden \cup temp) : image.off
<1> SUFFICES ASSUME IInv, [Next]_vars,
                    NEW image \in (golden' \cup temp') \ (golden \cup temp)
             PROVE  image.off
  OBVIOUS
<1>1. ASSUME NEW o \in Operations, EnsureCreates(o) \/ RecaptureTakesTemp(o)
      PROVE  image.off
  <2>1. image = Checkpoint
    BY <1>1 DEF EnsureCreates, RecaptureTakesTemp
  <2>2. power = "Off"
    BY <1>1 DEF IInv, AtWork, IsOff, EnsureCreates, RecaptureTakesTemp
  <2> QED BY <2>1, <2>2 DEF Checkpoint
<1>2. ASSUME NEW o \in Operations,
             RecaptureDropsStale(o) \/ RecaptureDropsGolden(o) \/ RecaptureRenames(o)
      PROVE  golden' \cup temp' \subseteq golden \cup temp
  BY <1>2 DEF RecaptureDropsStale, RecaptureDropsGolden, RecaptureRenames
<1>3. ASSUME NEW o \in Operations,
             \/ Begin(o) \/ OperationFails(o) \/ EnsureFindsGolden(o) \/ EnsureTurnsOff(o)
             \/ RestoreTurnsOff(o) \/ RestoreReverts(o) \/ StartVM(o) \/ Detonate(o)
             \/ StopVM(o) \/ Apply(o) \/ VerifyPasses(o) \/ VerifyRefuses(o)
             \/ RecaptureShutsDown(o)
      PROVE  UNCHANGED <<golden, temp>>
  BY <1>3 DEF Begin, OperationFails, EnsureFindsGolden, EnsureTurnsOff, RestoreTurnsOff,
              RestoreReverts, StartVM, Detonate, StopVM, Apply, VerifyPasses, VerifyRefuses,
              RecaptureShutsDown
<1>4. CASE Crash \/ RemovalEnds \/ UNCHANGED vars
  BY <1>4 DEF Crash, RemovalEnds, vars
<1> QED BY <1>1, <1>2, <1>3, <1>4 DEF Next

(* Every new checkpoint is disk-only.                                      *)
THEOREM DiskOnly == Exclusive /\ Spec => NewImagesAreDiskOnly
<1>1. IInv /\ [Next]_vars
        => [\A image \in (golden' \cup temp') \ (golden \cup temp) : image.off]_vars
  BY StepTakesDiskOnly
<1> QED BY <1>1, Invariance, PTL DEF Spec, NewImagesAreDiskOnly
=============================================================================
