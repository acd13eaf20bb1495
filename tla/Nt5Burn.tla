------------------------------- MODULE Nt5Burn -------------------------------
(***************************************************************************)
(* windows_ntxp::run and windows_2000::run, the two GRUB4DOS pipelines.    *)
(* They write the same boot track and format the same partition; XP stages *)
(* FiraDisk and may slipstream an AHCI driver into the staged ISO, Windows *)
(* 2000 stages SVBus.  An unattended install puts its answer file on the   *)
(* driver floppy and into the staged ISO.                                  *)
(***************************************************************************)
EXTENDS FatStick

VARIABLES
  config,     \* Of this run: the system, its options, whether it verifies.
  floppy      \* The driver floppy image in memory: "plain" or "sif".

ownVars == <<config, floppy>>
vars    == <<controlVars, mount, fatVars, ownVars>>

\* --ahci-driver-dir is for XP only (pipeline::run).
Configs ==
  {c \in [system : {"xp", "w2k"}, ahci : BOOLEAN, unattended : BOOLEAN,
          verify : BOOLEAN] : c.ahci => c.system = "xp"}

\* What can be on the volume: three files written once, four edits of the
\* staged ISO, and the floppy image with or without the answer file.
Edits == {"drivers", "txtsetup", "dosnet", "iso-sif"}
Items == {"GRLDR", "menu.lst", "iso", "ima", "ima-sif"} \cup Edits

\* What an install with configuration c needs.
Payload(c) ==
  {"GRLDR", "menu.lst", "iso"}
  \cup (IF c.ahci THEN {"drivers", "txtsetup", "dosnet"} ELSE {})
  \cup (IF c.unattended THEN {"iso-sif", "ima-sif"} ELSE {"ima"})

\* The order of stage_files.
AfterIso      == IF config.unattended THEN "floppy-sif" ELSE "write-ima"
AfterFloppy   == IF config.system = "xp" THEN "iso-sif" ELSE "write-ima"
AfterIsoSif   == IF config.system = "xp" THEN "write-ima" ELSE "unmount3"
AfterWriteIma == IF config.system = "w2k" /\ config.unattended
                   THEN "iso-sif" ELSE "unmount3"

Steps == {"start", "unmount1", "track", "track-check", "unmount2", "mount1",
          "force1", "newfs", "mount2", "find", "grldr", "menu", "copy-iso",
          "drivers", "txtsetup", "dosnet", "floppy-sif", "iso-sif",
          "write-ima", "unmount3", "eject", "end"}

TypeOK ==
  /\ FatTypeOK
  /\ pc \in Steps
  /\ code \in {"old", "torn", "grub4dos"}
  /\ files \subseteq Items
  /\ config \in Configs
  /\ floppy \in {"plain", "sif"}

-----------------------------------------------------------------------------

\* The assets are compiled in; what can fail here is the capacity.
Validate ==
  /\ pc = "start"
  /\ Goto("unmount1") \/ Bail
  /\ UNCHANGED <<mount, fatVars, ownVars>>

UnmountFirst ==
  /\ UnmountStep("unmount1", "track")
  /\ UNCHANGED <<fatVars, ownVars>>

WriteBootTrack ==
  /\ WriteFront("track", "track-check", "grub4dos", "torn")
  /\ UNCHANGED ownVars

VerifyBootTrack ==
  /\ CheckFront("track-check", "unmount2", "grub4dos", config.verify)
  /\ UNCHANGED ownVars

UnmountAgain ==
  /\ UnmountIgnored("unmount2", "mount1")
  /\ UNCHANGED <<fatVars, ownVars>>

MountNewTable ==
  /\ MountStep("mount1", "force1", Carries)
  /\ UNCHANGED <<fatVars, ownVars>>

NoForceUnmount ==
  /\ UnmountStep("force1", "newfs")
  /\ UNCHANGED <<fatVars, ownVars>>

ForceUnmountBeforeFormat ==
  /\ ForceUnmountStep("force1", "newfs")
  /\ UNCHANGED <<fatVars, ownVars>>

Newfs ==
  /\ FormatStep("newfs", "mount2")
  /\ UNCHANGED ownVars

MountVolume ==
  /\ MountStep("mount2", "find", Carries)
  /\ UNCHANGED <<fatVars, ownVars>>

FindMountForLabel ==
  /\ FindMount("find", "grldr")
  /\ UNCHANGED ownVars

-----------------------------------------------------------------------------
(***************************************************************************)
(* stage_files.                                                            *)
(***************************************************************************)

\* A file is written through the mount point, or the run ends.
Stage(at, item, next) ==
  /\ pc = at
  /\ \/ Stored(item) /\ Goto(next)
     \/ UNCHANGED <<files, lost>> /\ Bail
  /\ UNCHANGED <<mount, table, code, volume, namesake, dest, polls, config>>

\* The staged ISO is edited in place.  A failure may leave it torn.
EditIso(at, edit, next) ==
  /\ pc = at
  /\ \/ Stored(edit) /\ Goto(next)
     \/ files' \in {files, files \ {"iso"}} /\ UNCHANGED lost /\ Bail
  /\ UNCHANGED <<mount, table, code, volume, namesake, dest, polls,
                 ownVars>>

StageGrldr == Stage("grldr", "GRLDR", "menu") /\ UNCHANGED floppy

StageMenu == Stage("menu", "menu.lst", "copy-iso") /\ UNCHANGED floppy

CopyIso ==
  /\ Stage("copy-iso", "iso", IF config.ahci THEN "drivers" ELSE AfterIso)
  /\ floppy' = "plain"

\* slipstream_ahci_into_iso: the driver's files, then the two manifests.
AppendDrivers == EditIso("drivers", "drivers", "txtsetup")

PatchForgetsDosnet == EditIso("txtsetup", "txtsetup", AfterIso)

PatchTxtsetup == EditIso("txtsetup", "txtsetup", "dosnet")

PatchDosnet == EditIso("dosnet", "dosnet", AfterIso)

\* The answer file goes onto the floppy image in memory.
AddWinntSif ==
  /\ pc = "floppy-sif"
  /\ \/ floppy' = "sif" /\ Goto(AfterFloppy)
     \/ UNCHANGED floppy /\ Bail
  /\ UNCHANGED <<mount, fatVars, config>>

InjectFailureIgnored ==
  /\ pc = "iso-sif"
  /\ \/ Stored("iso-sif") /\ Goto(AfterIsoSif)
     \/ files' \in {files, files \ {"iso"}} /\ UNCHANGED lost /\ Goto(AfterIsoSif)
  /\ UNCHANGED <<mount, table, code, volume, namesake, dest, polls,
                 ownVars>>

InjectWinntSif == EditIso("iso-sif", "iso-sif", AfterIsoSif)

WriteIma ==
  /\ Stage("write-ima", IF floppy = "sif" THEN "ima-sif" ELSE "ima", AfterWriteIma)
  /\ UNCHANGED floppy

UnmountStaged ==
  /\ UnmountStep("unmount3", "eject")
  /\ UNCHANGED <<fatVars, ownVars>>

Eject ==
  /\ EjectStep("eject")
  /\ UNCHANGED <<fatVars, ownVars>>

-----------------------------------------------------------------------------

Tool ==
  \/ Validate \/ UnmountFirst \/ WriteBootTrack \/ VerifyBootTrack
  \/ UnmountAgain \/ MountNewTable \/ ForceUnmountBeforeFormat \/ Newfs
  \/ MountVolume \/ FindMountForLabel \/ StageGrldr \/ StageMenu \/ CopyIso
  \/ AppendDrivers \/ PatchTxtsetup \/ PatchDosnet \/ AddWinntSif
  \/ InjectWinntSif \/ WriteIma \/ UnmountStaged \/ Eject

DiskArbitrationMounts ==
  /\ AutoMount({"track-check"})
  /\ UNCHANGED <<fatVars, ownVars>>

Killed ==
  /\ Kill
  /\ UNCHANGED <<fatVars, ownVars>>

StartAgain ==
  /\ FatRerun
  /\ config' \in Configs
  /\ floppy' = "plain"

Done ==
  /\ pc = "end"
  /\ runs = MaxRuns
  /\ UNCHANGED vars

Init ==
  /\ FatInit
  /\ config \in Configs
  /\ floppy = "plain"

Next == Tool \/ DiskArbitrationMounts \/ Killed \/ StartAgain \/ Done

Spec == Init /\ [][Next]_vars

-----------------------------------------------------------------------------
(***************************************************************************)
(* Properties.                                                             *)
(***************************************************************************)

\* The stick starts GRUB4DOS and carries the payload of configuration c and
\* nothing left over from another run.
Installs(c) ==
  /\ table = "new"
  /\ code = "grub4dos"
  /\ volume = "fat"
  /\ files = Payload(c)

\* Writes this run drops without looking: no staged file is read back.
Unchecked == {"file"} \cup (IF config.verify THEN {} ELSE {"front"})

Honest == ~namesake /\ lost \cap Unchecked = {}

\* newfs_msdos meets neither a mounted volume nor one about to be mounted.
FormatUndisturbed ==
  pc = "newfs" => mount = "off"

\* Success is reported over exactly the payload this configuration asks for:
\* the answer file is on both media or on neither, the driver's manifests are
\* both patched, and no edit of an earlier configuration survives.
SuccessMeansInstallable ==
  report = "ok" /\ Honest => Installs(config)

\* The stick as BurnContract sees it: the payload of some configuration.
Media ==
  IF table = "old" THEN "untouched"
  ELSE IF \E c \in Configs : Installs(c) THEN "bootable"
  ELSE "partial"

Contract == INSTANCE BurnContract WITH media <- Media, honest <- Honest

\* The pipeline keeps the contract, with stage_files in place of the copy and
\* a boot track that is read back only on request.
ContractKept == Contract!Spec
=============================================================================
