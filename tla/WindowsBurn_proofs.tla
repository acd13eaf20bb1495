-------------------------- MODULE WindowsBurn_proofs --------------------------
(***************************************************************************)
(* Theorems about WindowsBurn, for every set of files, every device and    *)
(* any number of runs.                                                     *)
(***************************************************************************)
EXTENDS WindowsBurn, TLAPS

USE MaxRunsAssumption, MaxPollsAssumption

\* The attached images: the one of the running copy, and the orphans.
AttachCount ==
  attached = orphans + (IF pc \in {"copy", "detach"} THEN 1 ELSE 0)

TypeInv == TypeOK /\ AttachCount

\* Every initial state is typed, with no image attached.
LEMMA TypeInit == Init => TypeInv
<1> SUFFICES ASSUME Init PROVE TypeInv
  OBVIOUS
<1>1. HostTypeOK
  BY DEF Init, FatInit, HostInit, HostTypeOK, Reports
<1>2. FatTypeOK
  BY <1>1 DEF Init, FatInit, HostInit, FatTypeOK, Carries
<1>3. config \in Configs /\ copyOk \in BOOLEAN
  BY DEF Init
<1> QED
  BY <1>2, <1>3 DEF Init, FatInit, HostInit, TypeInv, TypeOK, Steps, AttachCount

\* Every step keeps the types and the count of attached images.
LEMMA TypeStep == TypeInv /\ [Next]_vars => TypeInv'
<1> SUFFICES ASSUME TypeInv, [Next]_vars PROVE TypeInv'
  OBVIOUS
<1> USE DEF TypeInv, TypeOK, FatTypeOK, HostTypeOK, Steps, Reports, AttachCount,
            Configs, Carries, Goto, Bail, Succeed, Unmounted, UnmountRefused,
            ForceUnmounted, MountAsked, Probed, Ejected, controlVars,
            frontVars, fatVars, ownVars
<1>1. CASE ResolveBackend
  BY <1>1 DEF ResolveBackend
<1>2. CASE UnmountFirst
  BY <1>2 DEF UnmountFirst, UnmountStep
<1>3. CASE WriteMbrSector
  BY <1>3 DEF WriteMbrSector, WriteFront, FrontWritten, Dropped
<1>4. CASE VerifyMbrSector
  BY <1>4 DEF VerifyMbrSector, CheckFront
<1>5. CASE UnmountAgain
  BY <1>5 DEF UnmountAgain, UnmountIgnored
<1>6. CASE MountNewTable
  BY <1>6 DEF MountNewTable, MountStep
<1>7. CASE ForceUnmountBeforeFormat
  BY <1>7 DEF ForceUnmountBeforeFormat, ForceUnmountStep
<1>8. CASE Newfs
  BY <1>8 DEF Newfs, FormatStep, Formatted, HalfFormatted
<1>9. CASE MountVolume
  BY <1>9 DEF MountVolume, MountStep
<1>10. CASE FindMountForLabel
  BY <1>10 DEF FindMountForLabel, FindMount, LookAgain, NotThere
<1>11. CASE AttachIso
  BY <1>11 DEF AttachIso, ReadMountPoint
<1>12. CASE CopyFile
  BY <1>12 DEF CopyFile, Listed, Stored, Dropped
<1>13. CASE CopyEnds
  BY <1>13 DEF CopyEnds
<1>14. CASE DetachIso
  BY <1>14 DEF DetachIso, Detached
<1>15. CASE UnmountBeforeRecords
  BY <1>15 DEF UnmountBeforeRecords, UnmountStep
<1>16. CASE MsSysMbr7
  BY <1>16 DEF MsSysMbr7, Dropped
<1>17. CASE ForceUnmountBeforePbr
  BY <1>17 DEF ForceUnmountBeforePbr, ForceUnmountStep
<1>18. CASE WritePbr
  BY <1>18 DEF WritePbr, Dropped
<1>19. CASE VerifyPbr
  BY <1>19 DEF VerifyPbr
<1>20. CASE UnmountLast
  BY <1>20 DEF UnmountLast, UnmountIgnored
<1>21. CASE Eject
  BY <1>21 DEF Eject, EjectStep
<1>22. CASE DiskArbitrationMounts
  BY <1>22 DEF DiskArbitrationMounts, AutoMount
<1>23. CASE Killed
  <2>1. /\ orphans' = IF pc \in {"copy", "detach"} THEN orphans + 1 ELSE orphans
        /\ pc' = "end" /\ attached' = attached
    BY <1>23 DEF Killed, Kill
  <2>2. AttachCount' /\ attached' \in Nat /\ orphans' \in Nat
    BY <2>1
  <2> QED
    BY <1>23, <2>2 DEF Killed, Kill
<1>24. CASE StartAgain
  <2>1. HostTypeOK'
    BY <1>24 DEF StartAgain, FatRerun, Rerun
  <2>2. FatTypeOK'
    BY <1>24, <2>1 DEF StartAgain, FatRerun, Rerun
  <2>3. config' \in Configs /\ copyOk' \in BOOLEAN
    BY <1>24 DEF StartAgain
  <2> QED
    BY <1>24, <2>2, <2>3 DEF StartAgain, FatRerun, Rerun
<1>25. CASE Done \/ UNCHANGED vars
  BY <1>25 DEF Done, vars
<1> QED
  BY <1>1, <1>2, <1>3, <1>4, <1>5, <1>6, <1>7, <1>8, <1>9, <1>10, <1>11, <1>12,
     <1>13, <1>14, <1>15, <1>16, <1>17, <1>18, <1>19, <1>20, <1>21, <1>22, <1>23,
     <1>24, <1>25 DEF Next, Tool

\* Type correctness: every variable of the Windows pipeline stays in its range,
\* however it is interrupted and repeated.
THEOREM TypeCorrect == Spec => []TypeOK
<1>1. TypeInv => TypeOK
  BY DEF TypeInv
<1> QED
  BY TypeInit, TypeStep, <1>1, PTL DEF Spec

-----------------------------------------------------------------------------
(***************************************************************************)
(* Disk Arbitration against the destructive steps.  With no other volume   *)
(* of that name, the copy goes through the stick's own mount; so the plain *)
(* unmount before --mbr7 has nothing left to wait for.                     *)
(***************************************************************************)

MountedForCopy ==
  ~namesake =>
    /\ pc \in {"attach", "copy", "detach"} => mount = "on"
    /\ pc = "unmount3" => mount # "owed"

MountInv == MountedForCopy /\ PartitionStepsUndisturbed /\ Mbr7Undisturbed

\* No run starts in a step that a mount could disturb.
LEMMA MountInit == Init => MountInv
  BY DEF Init, FatInit, HostInit, MountInv, MountedForCopy,
         PartitionStepsUndisturbed, Mbr7Undisturbed

\* Every step keeps the facts about mounts: the tool's steps because of the
\* unmounts before them, Disk Arbitration's because it owes no mount there.
LEMMA MountStepKeeps == TypeInv /\ MountInv /\ [Next]_vars => MountInv'
<1> SUFFICES ASSUME TypeInv, MountInv, [Next]_vars PROVE MountInv'
  OBVIOUS
<1>t. pc \in Steps /\ mount \in {"off", "owed", "on"} /\ namesake \in BOOLEAN
  BY DEF TypeInv, TypeOK, FatTypeOK, HostTypeOK
<1> USE <1>t DEF MountInv, MountedForCopy, PartitionStepsUndisturbed,
            Mbr7Undisturbed, Goto, Bail, Succeed, Unmounted, UnmountRefused,
            ForceUnmounted, MountAsked, Probed, Ejected, controlVars,
            frontVars, fatVars, ownVars
<1>1. CASE ResolveBackend
  BY <1>1 DEF ResolveBackend
<1>2. CASE UnmountFirst \/ UnmountAgain \/ UnmountBeforeRecords \/ UnmountLast
  BY <1>2 DEF UnmountFirst, UnmountAgain, UnmountBeforeRecords, UnmountLast,
              UnmountStep, UnmountIgnored
<1>3. CASE WriteMbrSector
  BY <1>3 DEF WriteMbrSector, WriteFront, FrontWritten, Dropped
<1>4. CASE VerifyMbrSector \/ VerifyPbr
  BY <1>4 DEF VerifyMbrSector, CheckFront, VerifyPbr
<1>5. CASE MountNewTable \/ MountVolume
  BY <1>5 DEF MountNewTable, MountVolume, MountStep
<1>6. CASE ForceUnmountBeforeFormat \/ ForceUnmountBeforePbr
  BY <1>6 DEF ForceUnmountBeforeFormat, ForceUnmountBeforePbr, ForceUnmountStep
<1>7. CASE Newfs
  BY <1>7 DEF Newfs, FormatStep, Formatted, HalfFormatted
<1>8. CASE FindMountForLabel
  BY <1>8 DEF FindMountForLabel, FindMount, LookAgain, NotThere
<1>9. CASE AttachIso \/ CopyFile \/ CopyEnds \/ DetachIso
  BY <1>9 DEF AttachIso, CopyFile, CopyEnds, DetachIso, Detached
<1>10. CASE MsSysMbr7
  BY <1>10 DEF MsSysMbr7, Dropped
<1>11. CASE WritePbr
  BY <1>11 DEF WritePbr, Dropped
<1>12. CASE Eject
  BY <1>12 DEF Eject, EjectStep
<1>13. CASE DiskArbitrationMounts
  BY <1>13 DEF DiskArbitrationMounts, AutoMount
<1>14. CASE Killed \/ StartAgain
  BY <1>14 DEF Killed, Kill, StartAgain, FatRerun, Rerun
<1>15. CASE Done \/ UNCHANGED vars
  BY <1>15 DEF Done, vars
<1> QED
  BY <1>1, <1>2, <1>3, <1>4, <1>5, <1>6, <1>7, <1>8, <1>9, <1>10, <1>11, <1>12,
     <1>13, <1>14, <1>15 DEF Next, Tool

\* newfs_msdos and the boot record never meet a mounted volume or one about to
\* be mounted, whatever Disk Arbitration does in between.
THEOREM FormatUndisturbed == Spec => []PartitionStepsUndisturbed
<1>1. MountInv => PartitionStepsUndisturbed
  BY DEF MountInv
<1> QED
  BY TypeInit, TypeStep, MountInit, MountStepKeeps, <1>1, PTL DEF Spec

\* Nor does ms-sys --mbr7, although only a plain unmount precedes it.
THEOREM BootCodeUndisturbed == Spec => []Mbr7Undisturbed
<1>1. MountInv => Mbr7Undisturbed
  BY DEF MountInv
<1> QED
  BY TypeInit, TypeStep, MountInit, MountStepKeeps, <1>1, PTL DEF Spec

\* The images of the ISO are accounted for on every path out of the copy.
THEOREM NoAttachedImageForgotten == Spec => []IsoReleased
<1>1. TypeInv => IsoReleased
  BY DEF TypeInv, TypeOK, AttachCount, IsoReleased
<1> QED
  BY TypeInit, TypeStep, <1>1, PTL DEF Spec

-----------------------------------------------------------------------------
(***************************************************************************)
(* What is on the stick when the tool reaches a step.  Each part is        *)
(* established by one step and kept by all the later ones; a finished run  *)
(* that reports success has reached them all.                              *)
(***************************************************************************)

AfterRecord == {"pbr-check", "unmount4", "eject"}
AfterCode   == {"force2", "pbr"} \cup AfterRecord
AfterFiles  == {"unmount3", "mbr7"} \cup AfterCode
AfterMount  == {"attach", "copy", "detach"} \cup AfterFiles
AfterFormat == {"mount2", "find"} \cup AfterMount
AfterTable  == {"unmount2", "mount1", "force1", "newfs"} \cup AfterFormat

Reached(steps) == pc \in steps \/ report = "ok"

\* The files this run wrote are the ISO's, and none went elsewhere or nowhere.
FilesTrusted == ~Misled /\ "file" \notin lost

\* The volume made by a burn exists only on its partition, and its contents
\* and its boot record only on that volume.
Layers ==
  /\ table = "old" => volume # "fat"
  /\ volume # "fat" => pbr = "none" /\ files = {}

TableDone ==
  /\ pc = "mbr7" => config.backend = "ms-sys"
  /\ Reached(AfterTable) => table = "new"
  /\ pc \in AfterTable \ AfterCode => code = "bootrec"
  /\ Reached(AfterTable) /\ config.backend = "bootrec" => code = "bootrec"
  /\ Reached(AfterCode) /\ config.backend = "ms-sys" /\ "mbr7" \notin lost
       => code = "ms-sys"

FormatDone ==
  /\ Reached(AfterFormat) => volume = "fat"
  /\ pc \in AfterFormat \ AfterRecord => pbr = "formatter"

CopyDone ==
  /\ pc \in Steps \ ({"copy", "detach", "end"} \cup AfterFiles)
       => copied = {} /\ source = "none"
  /\ pc \in {"mount2", "find", "attach"} => files = {}
  /\ pc \in {"attach", "copy", "detach"} /\ ~namesake => dest = "stick"
  /\ pc \in {"copy", "detach"} => source # "none"
  /\ pc \in {"copy", "detach"} /\ FilesTrusted => files = copied
  /\ pc = "detach" /\ copyOk => copied = Listed
  /\ Reached(AfterFiles) /\ FilesTrusted => files = IsoFiles

RecordDone ==
  /\ Reached(AfterRecord) /\ "pbr" \notin lost => pbr = "bootmgr"
  /\ Reached({"unmount4", "eject"}) /\ config.backend = "bootrec" /\ config.verify
       => pbr = "bootmgr"

StickInv == Layers /\ TableDone /\ FormatDone /\ CopyDone /\ RecordDone

\* On a stick never written the claims about finished layers are void.
LEMMA StickInit == Init => StickInv
<1> SUFFICES ASSUME Init PROVE StickInv
  OBVIOUS
<1>1. /\ pc = "start" /\ report = "running" /\ table = "old"
      /\ volume \in {"none", "foreign"} /\ pbr = "none" /\ files = {} /\ copied = {}
      /\ source = "none"
  BY DEF Init, FatInit, HostInit
<1> QED
  BY <1>1 DEF StickInv, Layers, TableDone, FormatDone, CopyDone, RecordDone,
     Reached, AfterRecord, AfterCode, AfterFiles, AfterMount, AfterFormat, AfterTable

\* Every step keeps, layer by layer, what the run has finished on the stick.
LEMMA StickStepKeeps == TypeInv /\ StickInv /\ [Next]_vars => StickInv'
<1> SUFFICES ASSUME TypeInv, StickInv, [Next]_vars PROVE StickInv'
  OBVIOUS
<1>t. /\ pc \in Steps
      /\ table \in {"old", "new"}
      /\ volume \in {"none", "foreign", "fat"}
      /\ report \in Reports
      /\ (pc = "end") <=> (report # "running")
      /\ namesake \in BOOLEAN
      /\ files \subseteq IsoFiles \cup OtherFiles
      /\ copied \subseteq IsoFiles \cup OtherFiles
      /\ source \in {"none", "iso", "other", "stick"}
      /\ config \in Configs
  BY DEF TypeInv, TypeOK, FatTypeOK, HostTypeOK
<1> USE <1>t DEF StickInv, Layers, TableDone, FormatDone, CopyDone, RecordDone,
            Reached, FilesTrusted, Misled, Listed, AfterRecord, AfterCode, AfterFiles, AfterMount,
            AfterFormat, AfterTable, Steps, Reports, Configs, Goto, Bail, Succeed,
            controlVars, frontVars, fatVars, ownVars
<1>1. CASE ResolveBackend
  BY <1>1 DEF ResolveBackend
<1>2. CASE UnmountFirst \/ UnmountAgain \/ UnmountBeforeRecords \/ UnmountLast
  BY <1>2 DEF UnmountFirst, UnmountAgain, UnmountBeforeRecords, UnmountLast,
              UnmountStep, UnmountIgnored
<1>3. CASE WriteMbrSector
  BY <1>3 DEF WriteMbrSector, WriteFront, FrontWritten, Dropped
<1>4. CASE VerifyMbrSector \/ VerifyPbr
  BY <1>4 DEF VerifyMbrSector, CheckFront, VerifyPbr
<1>5. CASE MountNewTable \/ MountVolume
  BY <1>5 DEF MountNewTable, MountVolume, MountStep
<1>6. CASE ForceUnmountBeforeFormat \/ ForceUnmountBeforePbr
  BY <1>6 DEF ForceUnmountBeforeFormat, ForceUnmountBeforePbr, ForceUnmountStep
<1>7. CASE Newfs
  BY <1>7 DEF Newfs, FormatStep, Formatted, HalfFormatted
<1>8. CASE FindMountForLabel
  BY <1>8 DEF FindMountForLabel, FindMount, LookAgain, NotThere
<1>9. CASE AttachIso
  BY <1>9 DEF AttachIso, ReadMountPoint
<1>10. CASE CopyFile
  BY <1>10 DEF CopyFile, Stored, Dropped
<1>11. CASE CopyEnds
  BY <1>11 DEF CopyEnds
<1>12. CASE DetachIso
  BY <1>12 DEF DetachIso, Detached
<1>13. CASE MsSysMbr7
  BY <1>13 DEF MsSysMbr7, Dropped
<1>14. CASE WritePbr
  BY <1>14 DEF WritePbr, Dropped
<1>15. CASE Eject
  BY <1>15 DEF Eject, EjectStep
<1>16. CASE DiskArbitrationMounts
  BY <1>16 DEF DiskArbitrationMounts, AutoMount
<1>17. CASE Killed
  BY <1>17 DEF Killed, Kill
<1>18. CASE StartAgain
  BY <1>18 DEF StartAgain, FatRerun, Rerun
<1>19. CASE Done \/ UNCHANGED vars
  BY <1>19 DEF Done, vars
<1> QED
  BY <1>1, <1>2, <1>3, <1>4, <1>5, <1>6, <1>7, <1>8, <1>9, <1>10, <1>11, <1>12,
     <1>13, <1>14, <1>15, <1>16, <1>17, <1>18, <1>19 DEF Next, Tool

IInv == TypeInv /\ MountInv /\ StickInv

\* The inductive invariant of the pipeline.
LEMMA IInvAlways == Spec => []IInv
<1>1. Init => IInv
  BY TypeInit, MountInit, StickInit DEF IInv
<1>2. IInv /\ [Next]_vars => IInv'
  BY TypeStep, MountStepKeeps, StickStepKeeps DEF IInv
<1> QED
  BY <1>1, <1>2, PTL DEF Spec

\* A run that has passed every layer leaves a bootable stick.
LEMMA SuccessFromIInv == IInv => SuccessMeansBootable
<1> SUFFICES ASSUME IInv, report = "ok", Honest PROVE Bootable(OwnCode)
  BY DEF SuccessMeansBootable
<1>1. config \in Configs /\ pc = "end"
  BY DEF IInv, TypeInv, TypeOK, FatTypeOK, HostTypeOK
<1>2. FilesTrusted
  BY DEF Honest, Unchecked, FilesTrusted
<1>3. pbr = "bootmgr"
  BY <1>1 DEF IInv, StickInv, RecordDone, Reached, Honest, Misled, Unchecked, Configs
<1>4. code = OwnCode
  BY <1>1 DEF IInv, StickInv, TableDone, Reached, Honest, Misled, Unchecked, Configs, OwnCode
<1> QED
  BY <1>1, <1>2, <1>3, <1>4
   DEF IInv, StickInv, TableDone, FormatDone, CopyDone, Reached, Bootable

\* A run that was not deceived reports success only over a complete, bootable
\* stick, whatever the runs before it left there.
THEOREM SuccessIsBootable == Spec => []SuccessMeansBootable
<1> QED
  BY IInvAlways, SuccessFromIInv, PTL

\* The boot record is the last thing written, in a run and across runs.
THEOREM BootRecordIsLast == Spec => BootRecordLast
<1>1. IInv /\ [Next]_vars =>
        (pbr' = "bootmgr" => \/ files' = IsoFiles
                             \/ pbr = "bootmgr" /\ files' = files
                             \/ Misled \/ "file" \in lost)
  <2> SUFFICES ASSUME IInv, [Next]_vars, pbr' = "bootmgr"
               PROVE  \/ files' = IsoFiles
                      \/ pbr = "bootmgr" /\ files' = files
                      \/ Misled \/ "file" \in lost
    OBVIOUS
  <2>i. Layers /\ FormatDone /\ CopyDone
    BY DEF IInv, StickInv
  <2>1. CASE WriteMbrSector
    <3>1. pbr' = pbr
      BY <2>1 DEF WriteMbrSector, ownVars
    <3>2. volume = "fat" /\ table = "new"
      BY <3>1, <2>i DEF Layers, IInv, TypeInv, TypeOK, FatTypeOK
    <3> QED
      BY <2>1, <3>1, <3>2 DEF WriteMbrSector, WriteFront, FrontWritten
  <2>2. CASE Newfs
    BY <2>2, <2>i DEF Newfs, FormatStep, Formatted, HalfFormatted, Goto, Bail,
                      FormatDone, Layers
  <2>3. CASE CopyFile
    <3>1. pbr = "formatter" /\ pbr' = pbr
      BY <2>3, <2>i DEF CopyFile, FormatDone, AfterFormat, AfterMount, AfterRecord
    <3> QED
      BY <3>1
  <2>4. CASE WritePbr
    <3>1. FilesTrusted => files' = IsoFiles
      BY <2>4, <2>i DEF WritePbr, CopyDone, Reached, AfterFiles, AfterCode
    <3> QED
      BY <3>1 DEF FilesTrusted
  <2>5. CASE UNCHANGED <<pbr, files>>
    BY <2>5
  <2>6. \/ WriteMbrSector \/ Newfs \/ CopyFile \/ WritePbr
        \/ UNCHANGED <<pbr, files>>
    BY DEF Next, Tool, ResolveBackend, UnmountFirst, VerifyMbrSector, CheckFront,
           UnmountAgain, MountNewTable, ForceUnmountBeforeFormat, MountVolume,
           FindMountForLabel, FindMount, LookAgain, NotThere,
         AttachIso, CopyEnds, DetachIso,
           UnmountBeforeRecords, MsSysMbr7, ForceUnmountBeforePbr, VerifyPbr,
           UnmountLast, Eject, DiskArbitrationMounts, Killed, StartAgain, FatRerun,
           Done, fatVars, ownVars, vars
  <2> QED
    BY <2>1, <2>2, <2>3, <2>4, <2>5, <2>6
<1> QED
  BY IInvAlways, <1>1, PTL DEF Spec, BootRecordLast

-----------------------------------------------------------------------------
(***************************************************************************)
(* The pipeline implements BurnContract.                                   *)
(***************************************************************************)

\* An initial stick maps to an untouched one.
LEMMA MediaInit == Init => Contract!Init
  BY DEF Init, FatInit, HostInit, Contract!Init, Media, Honest, Misled

\* No step undoes the partition table, and the one that writes it over a
\* foreign stick does not make it bootable.
LEMMA MediaStep == IInv /\ IInv' /\ [Next]_vars => Contract!Written
<1> SUFFICES ASSUME IInv, IInv', [Next]_vars PROVE Contract!Written
  OBVIOUS
<1>i. /\ Layers /\ Layers'
      /\ table \in {"old", "new"} /\ table' \in {"old", "new"}
      /\ pc \in AfterTable => table = "new"
  BY DEF IInv, StickInv, TypeInv, TypeOK, FatTypeOK, TableDone, Reached
<1>1. table' = "old" => table = "old"
  BY <1>i DEF Next, Tool, ResolveBackend, UnmountFirst, WriteMbrSector, WriteFront,
         FrontWritten, VerifyMbrSector, CheckFront,
         UnmountAgain, MountNewTable, ForceUnmountBeforeFormat, Newfs, FormatStep,
         MountVolume, FindMountForLabel, FindMount, LookAgain, NotThere,
         AttachIso, CopyFile, CopyEnds,
         DetachIso, UnmountBeforeRecords, MsSysMbr7, ForceUnmountBeforePbr, WritePbr,
         VerifyPbr, UnmountLast, Eject, DiskArbitrationMounts, Killed, StartAgain,
         FatRerun, Done, fatVars, frontVars, vars
<1>2. table = "old" /\ table' = "new" => pbr' = "none"
  <2>1. table # table' => WriteMbrSector
    BY DEF Next, Tool, ResolveBackend, UnmountFirst, VerifyMbrSector, CheckFront,
         UnmountAgain, MountNewTable, ForceUnmountBeforeFormat, Newfs, FormatStep,
         MountVolume, FindMountForLabel, FindMount, LookAgain, NotThere,
         AttachIso, CopyFile, CopyEnds,
         DetachIso, UnmountBeforeRecords, MsSysMbr7, ForceUnmountBeforePbr, WritePbr,
         VerifyPbr, UnmountLast, Eject, DiskArbitrationMounts, Killed, StartAgain,
         FatRerun, Done, fatVars, frontVars, vars
  <2> QED
    BY <2>1, <1>i DEF WriteMbrSector, ownVars, Layers
<1> QED
  BY <1>i, <1>1, <1>2 DEF Contract!Written, Media, Bootable

\* Within a run the host can only get more deceitful.
LEMMA HonestStep == IInv /\ Tool => (Honest' => Honest)
<1> SUFFICES ASSUME IInv, Tool PROVE Honest' => Honest
  OBVIOUS
<1>1. namesake' = namesake /\ config' = config
  BY DEF Tool, ResolveBackend, UnmountFirst, WriteMbrSector, WriteFront,
         VerifyMbrSector, CheckFront,
         UnmountAgain, MountNewTable, ForceUnmountBeforeFormat, Newfs, FormatStep,
         MountVolume, FindMountForLabel, FindMount, LookAgain, NotThere,
         AttachIso, CopyFile, CopyEnds,
         DetachIso, UnmountBeforeRecords, MsSysMbr7, ForceUnmountBeforePbr, WritePbr,
         VerifyPbr, UnmountLast, Eject, fatVars, ownVars
<1>2. lost \subseteq lost'
  BY DEF Tool, ResolveBackend, UnmountFirst, WriteMbrSector, WriteFront, FrontWritten,
         Dropped, VerifyMbrSector, CheckFront,
         UnmountAgain, MountNewTable, ForceUnmountBeforeFormat, Newfs, FormatStep,
         MountVolume, FindMountForLabel, FindMount, LookAgain, NotThere,
         AttachIso, CopyFile, Stored, CopyEnds,
         DetachIso, UnmountBeforeRecords, MsSysMbr7, ForceUnmountBeforePbr, WritePbr,
         VerifyPbr, UnmountLast, Eject, fatVars
<1>3. source' # source => source = "none"
  BY DEF IInv, StickInv, CopyDone, Steps, AfterFiles, AfterCode, AfterRecord, Tool, ResolveBackend, UnmountFirst, WriteMbrSector,
         VerifyMbrSector, UnmountAgain, MountNewTable, ForceUnmountBeforeFormat,
         Newfs, MountVolume, FindMountForLabel, AttachIso, ReadMountPoint,
         CopyFile, CopyEnds, DetachIso, UnmountBeforeRecords, MsSysMbr7,
         ForceUnmountBeforePbr, WritePbr, VerifyPbr, UnmountLast, Eject, ownVars
<1> QED
  BY <1>1, <1>2, <1>3 DEF Honest, Misled, Unchecked

\* The tool's steps by what they do to the report.
LEMMA ReportStep ==
  ASSUME TypeInv, Tool
  PROVE  /\ report = "running"
         /\ \/ report' = "running"
            \/ report' = "failed" /\ UNCHANGED <<namesake, lost, config, source>>
            \/ report' = "ok" /\ UNCHANGED <<fatVars, ownVars>>
<1>t. (pc = "end") <=> (report # "running")
  BY DEF TypeInv, TypeOK, FatTypeOK, HostTypeOK
<1> USE <1>t DEF Goto, Bail, Succeed, fatVars, ownVars
<1>1. CASE \/ ResolveBackend \/ UnmountFirst \/ UnmountAgain \/ UnmountBeforeRecords
           \/ UnmountLast \/ ForceUnmountBeforeFormat \/ ForceUnmountBeforePbr
           \/ MountNewTable \/ MountVolume
  BY <1>1 DEF ResolveBackend, UnmountFirst, UnmountAgain, UnmountBeforeRecords,
       UnmountLast, UnmountStep, UnmountIgnored, ForceUnmountBeforeFormat,
       ForceUnmountBeforePbr, ForceUnmountStep, MountNewTable, MountVolume, MountStep
<1>2. CASE WriteMbrSector \/ VerifyMbrSector \/ Newfs \/ FindMountForLabel
  BY <1>2 DEF WriteMbrSector, WriteFront, FrontWritten, VerifyMbrSector, CheckFront,
       Newfs, FormatStep, FindMountForLabel, FindMount, LookAgain, NotThere, controlVars
<1>3. CASE AttachIso \/ CopyFile \/ CopyEnds \/ DetachIso
  BY <1>3 DEF AttachIso, CopyFile, CopyEnds, DetachIso, controlVars
<1>4. CASE MsSysMbr7 \/ WritePbr \/ VerifyPbr \/ Eject
  BY <1>4 DEF MsSysMbr7, WritePbr, VerifyPbr, Eject, EjectStep
<1> QED
  BY <1>1, <1>2, <1>3, <1>4 DEF Tool

\* Every step of the pipeline maps to a step of the contract or to none.
LEMMA ContractStep ==
  IInv /\ IInv' /\ [Next]_vars => [Contract!Next]_(Contract!contractVars)
<1> SUFFICES ASSUME IInv, IInv', [Next]_vars
             PROVE  Contract!Next \/ UNCHANGED Contract!contractVars
  OBVIOUS
<1>i. TypeInv /\ ((pc = "end") <=> (report # "running"))
  BY DEF IInv, TypeInv, TypeOK, FatTypeOK, HostTypeOK
<1>1. CASE Tool
  <2>1. CASE report' = "running"
    <3>1. Contract!Write
      BY <1>1, <2>1, <1>i, ReportStep, HonestStep, MediaStep DEF Contract!Write, Honest
    <3> QED
      BY <3>1 DEF Contract!Next
  <2>2. CASE report' = "failed" /\ UNCHANGED <<namesake, lost, config, source>>
    <3>1. Contract!Stop
      BY <1>1, <2>2, <1>i, ReportStep, MediaStep DEF Contract!Stop, Honest, Misled, Unchecked
    <3> QED
      BY <3>1 DEF Contract!Next
  <2>3. CASE report' = "ok" /\ UNCHANGED <<fatVars, ownVars>>
    <3>1. Media' = Media /\ (Honest' <=> Honest)
      BY <2>3 DEF fatVars, ownVars, Media, Bootable, Honest, Misled, Unchecked
    <3>2. Honest => Media = "bootable"
      <4>0. SuccessMeansBootable'
        BY SuccessFromIInv, PTL
      <4>1. Honest' => Bootable(OwnCode)'
        BY <2>3, <4>0 DEF SuccessMeansBootable
      <4>2. table' = table /\ Bootable(OwnCode)' = Bootable(OwnCode)
        BY <2>3 DEF fatVars, ownVars, Bootable, OwnCode
      <4> QED
        BY <3>1, <4>1, <4>2 DEF Media, OwnCode, Bootable
    <3>3. Contract!Deliver
      BY <1>1, <2>3, <3>1, <3>2, <1>i, ReportStep DEF Contract!Deliver, Honest
    <3> QED
      BY <3>3 DEF Contract!Next
  <2> QED
    BY <1>1, <1>i, <2>1, <2>2, <2>3, ReportStep
<1>2. CASE Killed
  <2>1. Contract!Stop
    BY <1>2, <1>i, MediaStep DEF Killed, Kill, fatVars, Contract!Stop, Honest, Misled, Unchecked
  <2> QED
    BY <2>1 DEF Contract!Next
<1>3. CASE StartAgain
  <2>1. Contract!Again
    BY <1>3, <1>i DEF StartAgain, FatRerun, Rerun, Contract!Again, Honest, Media, Bootable
  <2> QED
    BY <2>1 DEF Contract!Next
<1>4. CASE DiskArbitrationMounts \/ Done \/ UNCHANGED vars
  BY <1>4 DEF DiskArbitrationMounts, AutoMount, Done, vars, controlVars, fatVars,
     ownVars, Contract!contractVars, Media, Bootable, Honest, Misled, Unchecked
<1> QED
  BY <1>1, <1>2, <1>3, <1>4 DEF Next

\* Every behaviour of the pipeline is one of the contract.
THEOREM BurnKeepsContract == Spec => ContractKept
<1> QED
  BY IInvAlways, MediaInit, ContractStep, PTL DEF Spec, ContractKept, Contract!Spec
=============================================================================
