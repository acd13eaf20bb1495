----------------------------- MODULE WindowsBurn -----------------------------
(***************************************************************************)
(* windows::run, the Windows 7+ pipeline (pipeline/windows.rs), with both  *)
(* boot-record backends, started up to MaxRuns times on one stick.  The    *)
(* environment is DiskHost (diskutil, Disk Arbitration) and FatStick (the  *)
(* medium); hdiutil and ms-sys are steps here.                             *)
(***************************************************************************)
EXTENDS FatStick

CONSTANTS
  IsoFiles,      \* The files on the installer ISO.
  OtherFiles     \* The files on another volume of the host.

VARIABLES
  config,     \* Of this run: the backend, and whether it verifies.
  pbr,        \* The partition boot record: "none", "formatter", "torn" or "bootmgr".
  attached,   \* How many images of the ISO are attached on the host.
  orphans,    \* How many of these no run will detach: hdiutil failed, its
              \* output was misread, or the run was killed.
  source,     \* Whose files are at the mount point read from hdiutil's output:
              \* "none", "iso", "other" (another volume, or no such path) or
              \* "stick" (the volume just formatted).
  copied,     \* The files the copy loop is done with.
  copyOk      \* What copy_iso_contents has returned.

ownVars == <<config, pbr, attached, orphans, source, copied, copyOk>>
vars    == <<controlVars, mount, fatVars, ownVars>>

Configs == [backend : {"ms-sys", "bootrec"}, verify : BOOLEAN]

\* The boot code a run of this configuration means to leave in sector 0.
OwnCode == IF config.backend = "ms-sys" THEN "ms-sys" ELSE "bootrec"

Steps == {"start", "unmount1", "mbr", "mbr-check", "unmount2", "mount1",
          "force1", "newfs", "mount2", "find", "attach", "copy", "detach",
          "unmount3", "mbr7", "force2", "pbr", "pbr-check", "unmount4",
          "eject", "end"}

TypeOK ==
  /\ FatTypeOK
  /\ pc \in Steps
  /\ code \in {"old", "bootrec", "ms-sys"}
  /\ files \subseteq IsoFiles \cup OtherFiles
  /\ config \in Configs
  /\ pbr \in {"none", "formatter", "torn", "bootmgr"}
  /\ attached \in Nat
  /\ orphans \in Nat
  /\ source \in {"none", "iso", "other", "stick"}
  /\ copied \subseteq IsoFiles \cup OtherFiles
  /\ copyOk \in BOOLEAN

-----------------------------------------------------------------------------

\* What the backend needs (the ms-sys binary, or the embedded blobs) is looked
\* up before anything is written, and may be missing.
ResolveBackend ==
  /\ pc = "start"
  /\ Goto("unmount1") \/ Bail
  /\ UNCHANGED <<mount, fatVars, ownVars>>

\* Steps 1 to 3 of the pipeline.
UnmountFirst ==
  /\ UnmountStep("unmount1", "mbr")
  /\ UNCHANGED <<fatVars, ownVars>>

WriteMbrSector ==
  /\ WriteFront("mbr", "mbr-check", "bootrec", "bootrec")
  /\ UNCHANGED ownVars

MbrNotReadBack ==
  /\ CheckFront("mbr-check", "unmount2", "bootrec", FALSE)
  /\ UNCHANGED ownVars

\* The MBR is read back with and without --no-verify.
VerifyMbrSector ==
  /\ CheckFront("mbr-check", "unmount2", "bootrec", TRUE)
  /\ UNCHANGED ownVars

UnmountAgain ==
  /\ UnmountIgnored("unmount2", "mount1")
  /\ UNCHANGED <<fatVars, ownVars>>

MountNewTable ==
  /\ MountStep("mount1", "force1", Carries)
  /\ UNCHANGED <<fatVars, ownVars>>

PlainUnmountBeforeFormat ==
  /\ UnmountStep("force1", "newfs")
  /\ UNCHANGED <<fatVars, ownVars>>

ForceUnmountBeforeFormat ==
  /\ ForceUnmountStep("force1", "newfs")
  /\ UNCHANGED <<fatVars, ownVars>>

\* Steps 4 and 5.
Newfs ==
  /\ FormatStep("newfs", "mount2")
  /\ pbr' = IF pc' = "mount2" THEN "formatter"
            ELSE IF volume' = "fat" THEN pbr ELSE "none"
  /\ UNCHANGED <<config, attached, orphans, source, copied, copyOk>>

MountVolume ==
  /\ MountStep("mount2", "find", Carries)
  /\ UNCHANGED <<fatVars, ownVars>>

FindMountForLabel ==
  /\ FindMount("find", "attach")
  /\ UNCHANGED ownVars

\* What the first word of hdiutil's output that starts with /Volumes/ names.
\* A mount point with a blank in it is cut short there: the ISO's own name has
\* one, or macOS has added " 1" because a volume of that name is mounted, and
\* that may be the stick.
ReadMountPoint ==
  {"iso", "other"} \cup (IF dest = "stick" THEN {"stick"} ELSE {})

\* Step 6.  An attach whose output names no mount point is an error, and the
\* image stays attached.
AttachIso ==
  /\ pc = "attach"
  /\ \/ /\ source' \in ReadMountPoint
        /\ Goto("copy")
        /\ attached' = attached + 1
        /\ UNCHANGED orphans
     \/ Bail /\ UNCHANGED <<attached, orphans, source>>
     \/ /\ Bail
        /\ attached' = attached + 1
        /\ orphans' = orphans + 1
        /\ UNCHANGED source
  /\ UNCHANGED <<mount, fatVars, config, pbr, copied, copyOk>>

\* What walk_files lists there; nothing is on the stick yet.
Listed ==
  CASE source = "iso"   -> IsoFiles
    [] source = "other" -> OtherFiles
    [] OTHER            -> {}

\* Step 7, one file of the walk.
CopyFile ==
  /\ pc = "copy"
  /\ \E f \in Listed \ copied :
       /\ Stored(f)
       /\ copied' = copied \cup {f}
  /\ UNCHANGED <<controlVars, mount, table, code, volume, namesake, dest,
                 polls, config, pbr, attached, orphans, source, copyOk>>

CopyErrorSkipsDetach ==
  /\ pc = "copy"
  /\ copyOk' \in BOOLEAN
  /\ copyOk' => copied = Listed
  /\ IF copyOk' THEN Goto("detach") ELSE Bail
  /\ UNCHANGED <<mount, fatVars, config, pbr, attached, orphans, source, copied>>

\* The copy is over: after the last file, or at its first error.
CopyEnds ==
  /\ pc = "copy"
  /\ copyOk' \in BOOLEAN
  /\ copyOk' => copied = Listed
  /\ Goto("detach")
  /\ UNCHANGED <<mount, fatVars, config, pbr, attached, orphans, source, copied>>

\* hdiutil detach on the path that was copied from: it fails, or takes down
\* what is there.
Detached ==
  \/ /\ source = "iso"
     /\ attached' = attached - 1
     /\ UNCHANGED <<orphans, mount>>
  \/ /\ orphans' = orphans + 1
     /\ (source = "stick" /\ mount' = "off") \/ UNCHANGED mount
     /\ UNCHANGED attached

CopyErrorForgotten ==
  /\ pc = "detach"
  /\ Detached
  /\ Goto("unmount3")
  /\ UNCHANGED <<fatVars, config, pbr, source, copied, copyOk>>

\* Step 8, whose outcome does not matter, and only then that of the copy.
DetachIso ==
  /\ pc = "detach"
  /\ Detached
  /\ IF copyOk THEN Goto("unmount3") ELSE Bail
  /\ UNCHANGED <<fatVars, config, pbr, source, copied, copyOk>>

UnmountBeforeRecordsIgnored ==
  /\ UnmountIgnored("unmount3", IF config.backend = "ms-sys" THEN "mbr7" ELSE "force2")
  /\ UNCHANGED <<fatVars, ownVars>>

\* Step 9.  ms-sys rewrites the MBR's boot code, bootrec has it in place.
UnmountBeforeRecords ==
  /\ UnmountStep("unmount3", IF config.backend = "ms-sys" THEN "mbr7" ELSE "force2")
  /\ UNCHANGED <<fatVars, ownVars>>

\* Step 10.  ms-sys --mbr7 on the buffered whole disk; nothing reads it back.
MsSysMbr7 ==
  /\ pc = "mbr7"
  /\ \/ mount # "on" /\ code' = "ms-sys" /\ Goto("force2") /\ Probed(Carries)
        /\ UNCHANGED lost
     \/ mount # "on" /\ Dropped("mbr7") /\ Goto("force2") /\ Probed(Carries)
        /\ UNCHANGED code
     \/ mount # "on" /\ code' = "ms-sys" /\ Bail /\ Probed(Carries)
        /\ UNCHANGED lost
     \/ Bail /\ Probed(Carries) /\ UNCHANGED <<code, lost>>
  /\ UNCHANGED <<table, volume, files, namesake, dest, polls, ownVars>>

ForceUnmountBeforePbr ==
  /\ ForceUnmountStep("force2", "pbr")
  /\ UNCHANGED <<fatVars, ownVars>>

\* splice_pbr reads the formatter's sectors, merges and writes; ms-sys
\* --fat32pe does the same on its own.  Several sectors are written; an error
\* may come before, between or, from the sync, after them.
WritePbr ==
  /\ pc = "pbr"
  /\ LET next == IF config.backend = "bootrec" /\ config.verify
                   THEN "pbr-check" ELSE "unmount4"
     IN \/ mount # "on" /\ pbr' = "bootmgr" /\ Goto(next) /\ UNCHANGED lost
        \/ mount # "on" /\ Dropped("pbr") /\ Goto(next) /\ UNCHANGED pbr
        \/ mount # "on" /\ pbr' \in {pbr, "torn", "bootmgr"} /\ Bail /\ UNCHANGED lost
        \/ mount = "on" /\ Bail /\ UNCHANGED <<pbr, lost>>
  /\ Probed(Carries)
  /\ UNCHANGED <<table, code, volume, files, namesake, dest, polls,
                 config, attached, orphans, source, copied, copyOk>>

PbrNotCompared ==
  /\ pc = "pbr-check"
  /\ Goto("unmount4")
  /\ Probed(Carries)
  /\ UNCHANGED <<fatVars, ownVars>>

VerifyPbr ==
  /\ pc = "pbr-check"
  /\ (pbr = "bootmgr" /\ Goto("unmount4")) \/ Bail
  /\ Probed(Carries)
  /\ UNCHANGED <<fatVars, ownVars>>

\* Step 11.
UnmountLast ==
  /\ UnmountIgnored("unmount4", "eject")
  /\ UNCHANGED <<fatVars, ownVars>>

Eject ==
  /\ EjectStep("eject")
  /\ UNCHANGED <<fatVars, ownVars>>

-----------------------------------------------------------------------------

\* The tool itself: one thread, one step after the other.
Tool ==
  \/ ResolveBackend \/ UnmountFirst \/ WriteMbrSector \/ VerifyMbrSector
  \/ UnmountAgain \/ MountNewTable \/ ForceUnmountBeforeFormat \/ Newfs
  \/ MountVolume \/ FindMountForLabel \/ AttachIso \/ CopyFile \/ CopyEnds
  \/ DetachIso \/ UnmountBeforeRecords \/ MsSysMbr7 \/ ForceUnmountBeforePbr
  \/ WritePbr \/ VerifyPbr \/ UnmountLast \/ Eject

DiskArbitrationMounts ==
  /\ AutoMount({"mbr-check", "pbr-check"})
  /\ UNCHANGED <<fatVars, ownVars>>

\* An image the killed run had attached stays attached.
Killed ==
  /\ Kill
  /\ orphans' = IF pc \in {"copy", "detach"} THEN orphans + 1 ELSE orphans
  /\ UNCHANGED <<fatVars, config, pbr, attached, source, copied, copyOk>>

StartAgain ==
  /\ FatRerun
  /\ config' \in Configs
  /\ source' = "none"
  /\ copied' = {}
  /\ copyOk' = FALSE
  /\ UNCHANGED <<pbr, attached, orphans>>

\* The user is done with the stick.
Done ==
  /\ pc = "end"
  /\ runs = MaxRuns
  /\ UNCHANGED vars

Init ==
  /\ FatInit
  /\ config \in Configs
  /\ pbr = "none"
  /\ attached = 0
  /\ orphans = 0
  /\ source = "none"
  /\ copied = {}
  /\ copyOk = FALSE

Next == Tool \/ DiskArbitrationMounts \/ Killed \/ StartAgain \/ Done

\* Every external command exits (Command::output waits for it), so the tool
\* takes its next step; Disk Arbitration and the user owe nothing.
Fairness == WF_vars(Tool)

Spec == Init /\ [][Next]_vars /\ Fairness

-----------------------------------------------------------------------------
(***************************************************************************)
(* Properties.                                                             *)
(***************************************************************************)

\* The stick boots the complete installer with boot code c.
Bootable(c) ==
  /\ table = "new"
  /\ code = c
  /\ volume = "fat"
  /\ pbr = "bootmgr"
  /\ files = IsoFiles

\* Writes this run drops without ever looking.
Unchecked ==
  {"file"} \cup (IF config.backend = "ms-sys" THEN {"mbr7", "pbr"}
                 ELSE IF config.verify THEN {} ELSE {"pbr"})

\* The run took another volume for the stick, or for the ISO.
Misled == namesake \/ source \in {"other", "stick"}

\* Nothing has gone wrong in this run that the tool does not notice.
Honest == ~Misled /\ lost \cap Unchecked = {}

\* The second force-unmount and the third keep Disk Arbitration out of the
\* destructive steps on the partition: newfs_msdos and the boot record never
\* meet a mounted volume, nor one about to be mounted.
PartitionStepsUndisturbed ==
  pc \in {"newfs", "pbr"} => mount = "off"

\* ms-sys --mbr7 follows a plain unmount only; it is safe because the mount
\* that step waits out is the one the copy went through.
Mbr7Undisturbed ==
  pc = "mbr7" /\ ~namesake => mount = "off"

\* The partition boot record comes last: whatever runs were interrupted, have
\* failed or were repeated, the stick starts BOOTMGR only over the complete set
\* of files.  A run that was misled about where its files come from or went is
\* excepted.
BootRecordLast ==
  [][pbr' = "bootmgr" =>
       \/ files' = IsoFiles
       \/ pbr = "bootmgr" /\ files' = files
       \/ Misled \/ "file" \in lost]_vars

\* Success is reported over a bootable stick with the boot code of the chosen
\* backend, whatever earlier runs left there.
SuccessMeansBootable ==
  report = "ok" /\ Honest => Bootable(OwnCode)

\* The ISO is detached however the copy ended; an image stays attached only
\* where hdiutil failed, its output was misread, or the run was killed.
IsoReleased ==
  pc \notin {"copy", "detach"} => attached = orphans

\* Every run comes to an end: no step waits for Disk Arbitration for ever.
RunsEnd == (report = "running") ~> (report # "running")

\* The stick as BurnContract sees it: an installer with either boot code.
Media ==
  IF table = "old" THEN "untouched"
  ELSE IF Bootable("bootrec") \/ Bootable("ms-sys") THEN "bootable"
  ELSE "partial"

Contract == INSTANCE BurnContract WITH media <- Media, honest <- Honest

\* The pipeline keeps the contract: in particular success is never reported
\* over a stick that earlier runs, crashes or dropped writes left incomplete.
ContractKept == Contract!Spec

-----------------------------------------------------------------------------
(***************************************************************************)
(* What the repository says of the program, and the code does not do.      *)
(***************************************************************************)

\* "The new volume shows up under /Volumes with its label as the directory
\* name" (find_mount_for_label): then what it finds would be the new volume.
FoundVolumeIsNew == pc = "attach" => dest = "stick"

\* "Returns the temporary mount point that hdiutil chose", "we read it back from
\* hdiutil's output" (hdiutil_attach_iso): then a run that reports success would
\* have copied the files of the ISO.
IsoIsCopied == report = "ok" => copied = IsoFiles
=============================================================================
