--------------------------- MODULE Nt5Burn_proofs ---------------------------
(***************************************************************************)
(* Theorems about Nt5Burn, for both systems and every option, every device *)
(* and any number of runs.                                                 *)
(***************************************************************************)
EXTENDS Nt5Burn, TLAPS

USE MaxRunsAssumption, MaxPollsAssumption

\* Every initial state is typed.
LEMMA TypeInit == Init => TypeOK
<1> SUFFICES ASSUME Init PROVE TypeOK
  OBVIOUS
<1>1. HostTypeOK
  BY DEF Init, FatInit, HostInit, HostTypeOK, Reports
<1>2. FatTypeOK
  BY <1>1 DEF Init, FatInit, HostInit, FatTypeOK, Carries
<1>3. config \in Configs
  BY DEF Init
<1> QED
  BY <1>2, <1>3 DEF Init, FatInit, HostInit, TypeOK, Steps

\* Every step keeps the types.
LEMMA TypeStep == TypeOK /\ [Next]_vars => TypeOK'
<1> SUFFICES ASSUME TypeOK, [Next]_vars PROVE TypeOK'
  OBVIOUS
<1> USE DEF TypeOK, FatTypeOK, HostTypeOK, Steps, Reports, Carries, Goto, Bail,
            Succeed, Unmounted, UnmountRefused, ForceUnmounted, MountAsked, Probed,
            Ejected, controlVars, frontVars, fatVars, ownVars
<1>1. CASE Validate
  BY <1>1 DEF Validate
<1>2. CASE UnmountFirst \/ UnmountAgain \/ UnmountStaged
  BY <1>2 DEF UnmountFirst, UnmountAgain, UnmountStaged, UnmountStep, UnmountIgnored
<1>3. CASE WriteBootTrack
  BY <1>3 DEF WriteBootTrack, WriteFront, FrontWritten, Dropped
<1>4. CASE VerifyBootTrack
  BY <1>4 DEF VerifyBootTrack, CheckFront
<1>5. CASE MountNewTable \/ MountVolume
  BY <1>5 DEF MountNewTable, MountVolume, MountStep
<1>6. CASE ForceUnmountBeforeFormat
  BY <1>6 DEF ForceUnmountBeforeFormat, ForceUnmountStep
<1>7. CASE Newfs
  BY <1>7 DEF Newfs, FormatStep, Formatted, HalfFormatted
<1>8. CASE FindMountForLabel
  BY <1>8 DEF FindMountForLabel, FindMount, LookAgain, NotThere
<1> DEFINE Stages == StageGrldr \/ StageMenu \/ CopyIso \/ AppendDrivers
                     \/ PatchTxtsetup \/ PatchDosnet \/ InjectWinntSif \/ WriteIma
<1>9. CASE Stages
  <2>1. /\ pc' \in Steps \ {"start"} /\ runs' = runs
        /\ \/ pc' # "end" /\ report' = report
           \/ pc' = "end" /\ report' = "failed"
    BY <1>9 DEF StageGrldr, StageMenu, CopyIso, AppendDrivers, PatchTxtsetup,
                PatchDosnet, InjectWinntSif, WriteIma, Stage, EditIso, AfterIso,
                AfterFloppy, AfterIsoSif, AfterWriteIma
  <2>2. files' \subseteq Items /\ lost' \subseteq Lossy
    BY <1>9 DEF StageGrldr, StageMenu, CopyIso, AppendDrivers, PatchTxtsetup,
                PatchDosnet, InjectWinntSif, WriteIma, Stage, EditIso, Stored,
                Dropped, Items, Edits
  <2>3. /\ UNCHANGED <<mount, table, code, volume, namesake, dest, polls, config>>
        /\ floppy' \in {floppy, "plain"}
    BY <1>9 DEF StageGrldr, StageMenu, CopyIso, AppendDrivers, PatchTxtsetup,
                PatchDosnet, InjectWinntSif, WriteIma, Stage, EditIso
  <2>4. pc # "end"
    BY <1>9 DEF StageGrldr, StageMenu, CopyIso, AppendDrivers, PatchTxtsetup,
                PatchDosnet, InjectWinntSif, WriteIma, Stage, EditIso
  <2> QED
    BY <2>1, <2>2, <2>3, <2>4
<1>10. CASE AddWinntSif
  BY <1>10 DEF AddWinntSif, AfterFloppy
<1>11. CASE Eject
  BY <1>11 DEF Eject, EjectStep
<1>12. CASE DiskArbitrationMounts
  BY <1>12 DEF DiskArbitrationMounts, AutoMount
<1>13. CASE Killed
  BY <1>13 DEF Killed, Kill
<1>14. CASE StartAgain
  <2>1. HostTypeOK'
    BY <1>14 DEF StartAgain, FatRerun, Rerun
  <2>2. FatTypeOK'
    BY <1>14, <2>1 DEF StartAgain, FatRerun, Rerun
  <2> QED
    BY <1>14, <2>2 DEF StartAgain, FatRerun, Rerun
<1>15. CASE Done \/ UNCHANGED vars
  BY <1>15 DEF Done, vars
<1> QED
  BY <1>1, <1>2, <1>3, <1>4, <1>5, <1>6, <1>7, <1>8, <1>9, <1>10, <1>11, <1>12,
     <1>13, <1>14, <1>15 DEF Next, Tool

\* Type correctness: every variable of the GRUB4DOS pipelines stays in its
\* range, however they are interrupted and repeated.
THEOREM TypeCorrect == Spec => []TypeOK
  BY TypeInit, TypeStep, PTL DEF Spec

-----------------------------------------------------------------------------
(***************************************************************************)
(* Disk Arbitration against newfs.                                         *)
(***************************************************************************)

\* The forced unmount is the only way to newfs, and Disk Arbitration owes no
\* mount after it.
LEMMA FormatStepUndisturbed == TypeOK /\ FormatUndisturbed /\ [Next]_vars => FormatUndisturbed'
<1> SUFFICES ASSUME TypeOK, FormatUndisturbed, [Next]_vars, pc' = "newfs"
             PROVE  mount' = "off"
  BY DEF FormatUndisturbed
<1>1. CASE ForceUnmountBeforeFormat
  BY <1>1 DEF ForceUnmountBeforeFormat, ForceUnmountStep, ForceUnmounted, Bail
<1>2. CASE pc = "newfs" /\ UNCHANGED mount
  BY <1>2 DEF FormatUndisturbed
<1>3. CASE DiskArbitrationMounts
  BY <1>3 DEF DiskArbitrationMounts, AutoMount, controlVars, FormatUndisturbed
<1>4. CASE UnmountFirst \/ UnmountAgain \/ UnmountStaged \/ Eject
  BY <1>4 DEF UnmountFirst, UnmountAgain, UnmountStaged, UnmountStep, UnmountIgnored,
              Eject, EjectStep, Goto, Bail, Succeed
<1>5. CASE WriteBootTrack \/ VerifyBootTrack \/ Newfs \/ FindMountForLabel
  BY <1>5 DEF WriteBootTrack, WriteFront, VerifyBootTrack, CheckFront, Newfs,
              FormatStep, FindMountForLabel, FindMount, controlVars, Goto, Bail
<1>6. CASE Validate \/ MountNewTable \/ MountVolume \/ AddWinntSif
  BY <1>6 DEF Validate, MountNewTable, MountVolume, MountStep, AddWinntSif,
              AfterFloppy, Goto, Bail
<1>7. CASE \/ StageGrldr \/ StageMenu \/ CopyIso \/ AppendDrivers \/ PatchTxtsetup
           \/ PatchDosnet \/ InjectWinntSif \/ WriteIma
  BY <1>7 DEF StageGrldr, StageMenu, CopyIso, AppendDrivers, PatchTxtsetup,
              PatchDosnet, InjectWinntSif, WriteIma, Stage, EditIso, AfterIso,
              AfterFloppy, AfterIsoSif, AfterWriteIma, Goto, Bail
<1>8. CASE Killed \/ StartAgain
  BY <1>8 DEF Killed, Kill, StartAgain, FatRerun, Rerun
<1>9. CASE Done \/ UNCHANGED vars
  BY <1>2, <1>9 DEF Done, vars, controlVars
<1> QED
  BY <1>1, <1>3, <1>4, <1>5, <1>6, <1>7, <1>8, <1>9 DEF Next, Tool

\* newfs_msdos never meets a mounted volume or one about to be mounted,
\* whatever Disk Arbitration has made of the new partition table.
THEOREM NewfsAlwaysUndisturbed == Spec => []FormatUndisturbed
<1>1. Init => FormatUndisturbed
  BY DEF Init, FatInit, HostInit, FormatUndisturbed
<1> QED
  BY TypeInit, TypeStep, <1>1, FormatStepUndisturbed, PTL DEF Spec

-----------------------------------------------------------------------------
(***************************************************************************)
(* What is on the stick when the tool reaches a step.  Unlike the copy of  *)
(* the Windows pipeline, stage_files is a path through optional steps; its *)
(* order depends on the system, and an edit is only made where the file it *)
(* edits already lies.                                                     *)
(***************************************************************************)

Base    == {"GRLDR", "menu.lst", "iso"}
Ahci(c) == IF c.ahci THEN {"drivers", "txtsetup", "dosnet"} ELSE {}

AfterMount  == {"grldr", "menu", "copy-iso", "drivers", "txtsetup", "dosnet",
                "floppy-sif", "iso-sif", "write-ima"}
AfterFiles  == {"unmount3", "eject"}
AfterFormat == {"mount2", "find"} \cup AfterMount \cup AfterFiles
AfterTable  == {"unmount2", "mount1", "force1", "newfs"} \cup AfterFormat

Reached(steps) == pc \in steps \/ report = "ok"

\* No file this run wrote went elsewhere or nowhere, and the boot track was
\* read back or did arrive.
FilesTrusted == ~namesake /\ "file" \notin lost
FrontTrusted == config.verify \/ "front" \notin lost

FilesNeedVolume == volume # "fat" => files = {}

TableDone ==
  /\ pc = "track-check" /\ "front" \notin lost => table = "new" /\ code = "grub4dos"
  /\ Reached(AfterTable) /\ FrontTrusted => table = "new" /\ code = "grub4dos"

FormatDone == Reached(AfterFormat) => volume = "fat"

\* The options that lead to a step, and the floppy image there.
PathTaken ==
  /\ pc \in {"drivers", "txtsetup", "dosnet"} => config.ahci
  /\ pc \in {"floppy-sif", "iso-sif"} => config.unattended
  /\ pc \in {"drivers", "txtsetup", "dosnet", "floppy-sif"} => floppy = "plain"
  /\ pc = "iso-sif" => floppy = "sif"
  /\ pc = "write-ima" => floppy = IF config.unattended THEN "sif" ELSE "plain"
  /\ pc \in AfterMount /\ ~namesake => dest = "stick"

StagedSoFar ==
  FilesTrusted =>
    /\ pc \in {"mount2", "find", "grldr"} => files = {}
    /\ pc = "menu" => files = {"GRLDR"}
    /\ pc = "copy-iso" => files = {"GRLDR", "menu.lst"}
    /\ pc = "drivers" => files = Base
    /\ pc = "txtsetup" => files = Base \cup {"drivers"}
    /\ pc = "dosnet" => files = Base \cup {"drivers", "txtsetup"}
    /\ pc = "floppy-sif" => files = Base \cup Ahci(config)
    /\ pc = "iso-sif" =>
         files = Base \cup Ahci(config)
                 \cup (IF config.system = "w2k" THEN {"ima-sif"} ELSE {})
    /\ pc = "write-ima" =>
         files = Base \cup Ahci(config)
                 \cup (IF config.system = "xp" /\ config.unattended
                         THEN {"iso-sif"} ELSE {})
    /\ Reached(AfterFiles) => files = Payload(config)

StickInv == FilesNeedVolume /\ TableDone /\ FormatDone /\ PathTaken /\ StagedSoFar

IInv == TypeOK /\ StickInv

\* On a stick never written the claims about finished layers are void.
LEMMA StickInit == Init => StickInv
  BY DEF Init, FatInit, HostInit, StickInv, FilesNeedVolume, TableDone, FormatDone,
         PathTaken, StagedSoFar, Reached, AfterTable, AfterFormat, AfterMount, AfterFiles

\* Up to the mounted volume each step finishes or keeps a layer.
LEMMA StickFormatted ==
  ASSUME TypeOK, StickInv,
         \/ Validate \/ UnmountFirst \/ WriteBootTrack \/ VerifyBootTrack \/ UnmountAgain
         \/ MountNewTable \/ ForceUnmountBeforeFormat \/ Newfs \/ MountVolume
         \/ FindMountForLabel
  PROVE  StickInv'
<1>t. /\ pc \in Steps /\ (pc = "end") <=> (report # "running")
      /\ namesake \in BOOLEAN /\ config \in Configs
  BY DEF TypeOK, FatTypeOK, HostTypeOK
<1> USE <1>t DEF StickInv, FilesNeedVolume, TableDone, FormatDone, PathTaken,
            StagedSoFar, FilesTrusted, FrontTrusted, Reached, AfterTable, AfterFormat,
            AfterMount, AfterFiles, Steps, Configs, Goto, Bail, controlVars, frontVars,
            fatVars, ownVars
<1>1. CASE Validate \/ UnmountFirst \/ UnmountAgain
  BY <1>1 DEF Validate, UnmountFirst, UnmountAgain, UnmountStep, UnmountIgnored
<1>2. CASE WriteBootTrack
  BY <1>2 DEF WriteBootTrack, WriteFront, FrontWritten, Dropped
<1>3. CASE VerifyBootTrack
  BY <1>3 DEF VerifyBootTrack, CheckFront
<1>4. CASE MountNewTable \/ MountVolume \/ ForceUnmountBeforeFormat
  BY <1>4 DEF MountNewTable, MountVolume, MountStep, ForceUnmountBeforeFormat,
              ForceUnmountStep
<1>5. CASE Newfs
  BY <1>5 DEF Newfs, FormatStep, Formatted, HalfFormatted
<1>6. CASE FindMountForLabel
  BY <1>6 DEF FindMountForLabel, FindMount, LookAgain, NotThere
<1> QED
  BY <1>1, <1>2, <1>3, <1>4, <1>5, <1>6

\* Each step of stage_files adds its own item to what was staged before it.
LEMMA StickStaged ==
  ASSUME TypeOK, StickInv,
         \/ StageGrldr \/ StageMenu \/ CopyIso \/ AppendDrivers \/ PatchTxtsetup
         \/ PatchDosnet \/ AddWinntSif \/ InjectWinntSif \/ WriteIma
  PROVE  StickInv'
<1>t. /\ pc \in Steps /\ (pc = "end") <=> (report # "running")
      /\ namesake \in BOOLEAN /\ config \in Configs /\ floppy \in {"plain", "sif"}
  BY DEF TypeOK, FatTypeOK, HostTypeOK
<1>c. /\ config.system \in {"xp", "w2k"} /\ config.ahci \in BOOLEAN
      /\ config.unattended \in BOOLEAN /\ (config.ahci => config.system = "xp")
  BY <1>t DEF Configs
<1>s. pc \in AfterMount /\ UNCHANGED <<table, code, volume, namesake, dest, config>>
  BY DEF AfterMount, StageGrldr, StageMenu, CopyIso, AppendDrivers, PatchTxtsetup,
         PatchDosnet, AddWinntSif, InjectWinntSif, WriteIma, Stage, EditIso, fatVars,
         ownVars
<1>l. "front" \in lost => "front" \in lost'
  BY DEF StageGrldr, StageMenu, CopyIso, AppendDrivers, PatchTxtsetup,
         PatchDosnet, AddWinntSif, InjectWinntSif, WriteIma, Stage, EditIso, Stored,
         Dropped, fatVars, ownVars
<1>p. \/ pc' \in AfterMount \cup AfterFiles /\ report' = "running"
      \/ pc' = "end" /\ report' = "failed"
  BY <1>t, <1>c DEF StageGrldr, StageMenu, CopyIso, AppendDrivers, PatchTxtsetup,
         PatchDosnet, AddWinntSif, InjectWinntSif, WriteIma, Stage, EditIso, Goto, Bail,
         AfterIso, AfterFloppy, AfterIsoSif, AfterWriteIma, AfterMount, AfterFiles
<1>1. FilesNeedVolume' /\ TableDone' /\ FormatDone'
  BY <1>t, <1>s, <1>l, <1>p DEF StickInv, FilesNeedVolume, TableDone, FormatDone,
     FrontTrusted, Reached, AfterTable, AfterFormat, AfterMount, AfterFiles
<1>f. \/ \E f \in Items : Stored(f)
      \/ pc' = "end"
      \/ UNCHANGED <<files, lost>>
  BY <1>t DEF StageGrldr, StageMenu, CopyIso, AppendDrivers, PatchTxtsetup,
         PatchDosnet, AddWinntSif, InjectWinntSif, WriteIma, Stage, EditIso, Bail,
         Items, Edits, fatVars, ownVars
<1>k. FilesTrusted' => FilesTrusted \/ pc' = "end"
  BY <1>s, <1>f DEF FilesTrusted, Stored, Dropped
<1> DEFINE Put(f) == FilesTrusted' => files' = files \cup {f}
<1>w. \A f \in Items : Stored(f) => Put(f)
  <2>1. namesake' = FALSE => dest = "stick"
    BY <1>t, <1>s DEF StickInv, PathTaken
  <2> QED
    BY <1>s, <2>1 DEF Stored, Dropped, FilesTrusted
<1>2. CASE pc' = "end"
  BY <1>1, <1>2, <1>p DEF StickInv, PathTaken, StagedSoFar, Reached, AfterMount, AfterFiles
<1>3. ASSUME pc' # "end" PROVE PathTaken'
  BY <1>3, <1>c, <1>s, <1>t DEF StageGrldr, StageMenu, CopyIso, AppendDrivers,
     PatchTxtsetup, PatchDosnet, AddWinntSif, InjectWinntSif, WriteIma, Stage, EditIso,
     Goto, Bail, AfterIso, AfterFloppy, AfterIsoSif, AfterWriteIma, AfterMount,
     ownVars, StickInv, PathTaken
<1>4. ASSUME pc' # "end" PROVE StagedSoFar'
  <2> SUFFICES ASSUME FilesTrusted' PROVE StagedSoFar'
    BY DEF StagedSoFar
  <2>1. FilesTrusted /\ report' # "ok" /\ config' = config
    BY <1>4, <1>k, <1>p, <1>s
  <2> USE <1>4, <1>c, <1>s, <1>w, <2>1 DEF StagedSoFar, StickInv, Base, Ahci, Reached,
          AfterFiles, Goto, Bail, Items, Edits
  <2>2. CASE StageGrldr
    BY <2>2 DEF StageGrldr, Stage
  <2>3. CASE StageMenu
    BY <2>3 DEF StageMenu, Stage
  <2>4. CASE CopyIso
    BY <2>4 DEF CopyIso, Stage, AfterIso
  <2>5. CASE AppendDrivers
    BY <2>5 DEF AppendDrivers, EditIso
  <2>6. CASE PatchTxtsetup
    BY <2>6 DEF PatchTxtsetup, EditIso
  <2>7. CASE PatchDosnet
    BY <2>7 DEF PatchDosnet, EditIso, AfterIso, PathTaken
  <2>8. CASE AddWinntSif
    BY <2>8 DEF AddWinntSif, AfterFloppy, fatVars, PathTaken
  <2>9. CASE InjectWinntSif
    BY <2>9 DEF InjectWinntSif, EditIso, AfterIsoSif, Payload, PathTaken
  <2>10. CASE WriteIma
    BY <2>10 DEF WriteIma, Stage, AfterWriteIma, Payload, PathTaken
  <2> QED
    BY <2>2, <2>3, <2>4, <2>5, <2>6, <2>7, <2>8, <2>9, <2>10
<1> QED
  BY <1>1, <1>2, <1>3, <1>4 DEF StickInv

\* Every step keeps, layer by layer, what the run has finished on the stick.
LEMMA StickStep == TypeOK /\ StickInv /\ [Next]_vars => StickInv'
<1> SUFFICES ASSUME TypeOK, StickInv, [Next]_vars PROVE StickInv'
  OBVIOUS
<1>t. pc \in Steps /\ ((pc = "end") <=> (report # "running"))
  BY DEF TypeOK, FatTypeOK, HostTypeOK
<1> USE <1>t DEF StickInv, FilesNeedVolume, TableDone, FormatDone, PathTaken,
            StagedSoFar, FilesTrusted, FrontTrusted, Reached, AfterTable, AfterFormat,
            AfterMount, AfterFiles, Steps, Goto, Bail, Succeed, controlVars, frontVars,
            fatVars, ownVars
<1>1. CASE UnmountStaged \/ Eject
  BY <1>1 DEF UnmountStaged, UnmountStep, Eject, EjectStep
<1>2. CASE DiskArbitrationMounts
  BY <1>2 DEF DiskArbitrationMounts, AutoMount
<1>3. CASE Killed
  BY <1>3 DEF Killed, Kill
<1>4. CASE StartAgain
  BY <1>4 DEF StartAgain, FatRerun, Rerun
<1>5. CASE Done \/ UNCHANGED vars
  BY <1>5 DEF Done, vars
<1> QED
  BY <1>1, <1>2, <1>3, <1>4, <1>5, StickFormatted, StickStaged DEF Next, Tool

\* The inductive invariant of the pipelines.
LEMMA IInvAlways == Spec => []IInv
<1>1. Init => IInv
  BY TypeInit, StickInit DEF IInv
<1>2. IInv /\ [Next]_vars => IInv'
  BY TypeStep, StickStep DEF IInv
<1> QED
  BY <1>1, <1>2, PTL DEF Spec

\* A run that has passed every layer leaves the payload of its configuration.
LEMMA SuccessFromIInv == IInv => SuccessMeansInstallable
  BY DEF IInv, StickInv, TableDone, FormatDone, StagedSoFar, Reached, FilesTrusted,
         FrontTrusted, SuccessMeansInstallable, Honest, Unchecked, Installs, TypeOK, Configs

\* A run that was not deceived reports success only over the payload it was asked
\* for: both manifests patched or neither, the answer file on both media or on
\* neither, and nothing of an earlier configuration.
THEOREM SuccessIsInstallable == Spec => []SuccessMeansInstallable
  BY IInvAlways, SuccessFromIInv, PTL

-----------------------------------------------------------------------------
(***************************************************************************)
(* The pipelines implement BurnContract.                                   *)
(***************************************************************************)

\* An initial stick maps to an untouched one.
LEMMA MediaInit == Init => Contract!Init
  BY DEF Init, FatInit, HostInit, Contract!Init, Media, Honest

\* Only the boot track's writing changes the table, to a new one over a volume
\* it finds and does not make.
LEMMA TableStep ==
  ASSUME TypeOK, [Next]_vars, table' # table
  PROVE  table = "old" /\ table' = "new" /\ files' = {}
<1>1. CASE WriteBootTrack
  BY <1>1 DEF WriteBootTrack, WriteFront, FrontWritten, frontVars, TypeOK, FatTypeOK
<1>2. CASE ~WriteBootTrack
  BY <1>2 DEF Next, Tool, Validate, UnmountFirst, VerifyBootTrack, CheckFront,
     UnmountAgain, MountNewTable, ForceUnmountBeforeFormat, Newfs, FormatStep,
     MountVolume, FindMountForLabel, FindMount, StageGrldr, StageMenu, CopyIso, Stage,
     AppendDrivers, PatchTxtsetup, PatchDosnet, AddWinntSif, InjectWinntSif, EditIso,
     WriteIma, UnmountStaged, Eject, DiskArbitrationMounts, Killed, StartAgain,
     FatRerun, Done, vars, fatVars, frontVars
<1> QED
  BY <1>1, <1>2

\* No step undoes the partition table, and the one that writes it over a foreign
\* stick does not make it bootable.
LEMMA MediaStep == TypeOK /\ [Next]_vars => Contract!Written
<1> SUFFICES ASSUME TypeOK, [Next]_vars PROVE Contract!Written
  OBVIOUS
<1>1. CASE table' = table
  BY <1>1 DEF Contract!Written, Media
<1>2. CASE table' # table
  <2>1. table = "old" /\ table' = "new" /\ files' = {}
    BY <1>2, TableStep
  <2>2. \A c \in Configs : Payload(c) # {}
    BY DEF Payload
  <2>3. Media' = "partial"
    BY <2>1, <2>2 DEF Media, Installs
  <2> QED
    BY <2>3 DEF Contract!Written
<1> QED
  BY <1>1, <1>2

\* Within a run the host can only get more deceitful.
LEMMA HonestStep == Tool => (Honest' => Honest)
<1> SUFFICES ASSUME Tool PROVE Honest' => Honest
  OBVIOUS
<1>1. namesake' = namesake /\ config' = config /\ lost \subseteq lost'
  BY DEF Tool, Validate, UnmountFirst, WriteBootTrack, WriteFront, FrontWritten, Dropped,
     VerifyBootTrack, CheckFront, UnmountAgain, MountNewTable, ForceUnmountBeforeFormat,
     Newfs, FormatStep, MountVolume, FindMountForLabel, FindMount, StageGrldr, StageMenu,
     CopyIso, Stage, AppendDrivers, PatchTxtsetup, PatchDosnet, AddWinntSif,
     InjectWinntSif, EditIso, Stored, WriteIma, UnmountStaged, Eject, fatVars, ownVars
<1> QED
  BY <1>1 DEF Honest, Unchecked

\* The tool's steps by what they do to the report.
LEMMA ReportStep ==
  ASSUME TypeOK, Tool
  PROVE  /\ report = "running"
         /\ \/ report' = "running"
            \/ report' = "failed" /\ UNCHANGED <<namesake, lost, config>>
            \/ report' = "ok" /\ UNCHANGED <<fatVars, ownVars>>
<1>t. pc \in Steps /\ ((pc = "end") <=> (report # "running"))
  BY DEF TypeOK, FatTypeOK, HostTypeOK
<1> USE <1>t DEF Goto, Bail, Succeed, controlVars, fatVars, ownVars
<1>1. CASE \/ Validate \/ UnmountFirst \/ UnmountAgain \/ UnmountStaged \/ MountNewTable
           \/ ForceUnmountBeforeFormat \/ MountVolume \/ Eject
  BY <1>1 DEF Validate, UnmountFirst, UnmountAgain, UnmountStaged, UnmountStep,
     UnmountIgnored, MountNewTable, MountVolume, MountStep, ForceUnmountBeforeFormat,
     ForceUnmountStep, Eject, EjectStep
<1>2. CASE WriteBootTrack \/ VerifyBootTrack \/ Newfs \/ FindMountForLabel
  BY <1>2 DEF WriteBootTrack, WriteFront, FrontWritten, VerifyBootTrack, CheckFront,
     Newfs, FormatStep, FindMountForLabel, FindMount
<1>3. CASE \/ StageGrldr \/ StageMenu \/ CopyIso \/ AppendDrivers \/ PatchTxtsetup
           \/ PatchDosnet \/ AddWinntSif \/ InjectWinntSif \/ WriteIma
  BY <1>3 DEF StageGrldr, StageMenu, CopyIso, Stage, AppendDrivers, PatchTxtsetup,
     PatchDosnet, AddWinntSif, InjectWinntSif, EditIso, WriteIma
<1> QED
  BY <1>1, <1>2, <1>3 DEF Tool

\* Every step of the pipelines maps to a step of the contract or to none.
LEMMA ContractStep ==
  IInv /\ IInv' /\ [Next]_vars => [Contract!Next]_(Contract!contractVars)
<1> SUFFICES ASSUME IInv, IInv', [Next]_vars
             PROVE  Contract!Next \/ UNCHANGED Contract!contractVars
  OBVIOUS
<1>i. TypeOK /\ ((pc = "end") <=> (report # "running"))
  BY DEF IInv, TypeOK, FatTypeOK, HostTypeOK
<1>1. CASE Tool
  <2>1. CASE report' = "running"
    <3>1. Contract!Write
      BY <1>1, <2>1, <1>i, ReportStep, HonestStep, MediaStep DEF Contract!Write, Honest
    <3> QED
      BY <3>1 DEF Contract!Next
  <2>2. CASE report' = "failed" /\ UNCHANGED <<namesake, lost, config>>
    <3>1. Contract!Stop
      BY <1>1, <2>2, <1>i, ReportStep, MediaStep DEF Contract!Stop, Honest, Unchecked
    <3> QED
      BY <3>1 DEF Contract!Next
  <2>3. CASE report' = "ok" /\ UNCHANGED <<fatVars, ownVars>>
    <3>1. Media' = Media /\ (Honest' <=> Honest)
      BY <2>3 DEF fatVars, ownVars, Media, Installs, Honest, Unchecked
    <3>2. Honest => Media = "bootable"
      <4>1. SuccessMeansInstallable'
        BY SuccessFromIInv, PTL
      <4>2. Honest' => Installs(config)'
        BY <2>3, <4>1 DEF SuccessMeansInstallable
      <4>3. Honest => Installs(config)
        BY <2>3, <3>1, <4>2 DEF fatVars, ownVars, Installs
      <4> QED
        BY <1>i, <4>3 DEF Media, Installs, TypeOK
    <3>3. Contract!Deliver
      BY <1>1, <2>3, <3>1, <3>2, <1>i, ReportStep DEF Contract!Deliver, Honest
    <3> QED
      BY <3>3 DEF Contract!Next
  <2> QED
    BY <1>1, <1>i, <2>1, <2>2, <2>3, ReportStep
<1>2. CASE Killed
  <2>1. Contract!Stop
    BY <1>2, <1>i, MediaStep
    DEF Killed, Kill, fatVars, ownVars, Contract!Stop, Honest, Unchecked
  <2> QED
    BY <2>1 DEF Contract!Next
<1>3. CASE StartAgain
  <2>1. Media' = Media
    BY <1>3 DEF StartAgain, FatRerun, Media, Installs
  <2>2. Contract!Again
    BY <1>3, <1>i, <2>1 DEF StartAgain, FatRerun, Rerun, Contract!Again, Honest
  <2> QED
    BY <2>2 DEF Contract!Next
<1>4. CASE DiskArbitrationMounts \/ Done \/ UNCHANGED vars
  BY <1>4 DEF DiskArbitrationMounts, AutoMount, Done, vars, controlVars, fatVars,
     ownVars, Contract!contractVars, Media, Installs, Honest, Unchecked
<1> QED
  BY <1>1, <1>2, <1>3, <1>4 DEF Next

\* Every behaviour of the XP and of the Windows 2000 pipeline is one of the
\* contract, the same as of the Windows pipeline.
THEOREM BurnKeepsContract == Spec => ContractKept
  BY IInvAlways, MediaInit, ContractStep, PTL DEF Spec, ContractKept, Contract!Spec
=============================================================================
