------------------------------ MODULE Pipeline ------------------------------
(***************************************************************************)
(* pipeline::run: from the command line to the pipeline of one mode, with  *)
(* the checks that decide which disk it is let loose on.  The tool knows a *)
(* disk by its BSD name only; between the look-up and the last write a     *)
(* stick can be unplugged and another one take its name.                   *)
(*                                                                         *)
(* The Mac has one system disk.  With APFS its root volume lies in a       *)
(* synthesized container, a whole disk of its own with a name of its own.  *)
(***************************************************************************)
EXTENDS Naturals

CONSTANTS
  Sticks,      \* External disks.
  Large,       \* Those over 256 GiB.
  Ports,       \* BSD names an external disk can get.
  Media,       \* Images: the product, and what its two file systems list.
  MaxReplugs   \* Bound: how often a stick is plugged in or out during the run.

ASSUME DisksAssumption ==
  /\ Large \subseteq Sticks
  /\ {"system", "container", "none"} \cap Sticks = {}
  /\ {"disk0", "disk1"} \cap Ports = {}
  /\ MaxReplugs \in Nat

Products == {"nt5.0", "nt5.1", "nt6", "linux", "other"}

Entries ==
  {"I386/TXTSETUP.SIF", "I386/SETUPLDR.BIN", "I386/NTDETECT.COM", "WIN51*",
   "WIN52*", "BOOTMGR", "SOURCES/*", "SOURCES/INSTALL.WIM",
   "SOURCES/INSTALL.ESD", "ISOLINUX/ISOLINUX.BIN", "EFI/BOOT/BOOTX64.EFI"}

Nt6Entries ==
  {"BOOTMGR", "SOURCES/*", "SOURCES/INSTALL.WIM", "SOURCES/INSTALL.ESD"}

\* How the products are mastered (the comment at the top of bootsmith-iso and
\* its tests): NT 5.x media carry Setup in ISO 9660, XP and 2003 with a marker
\* in the root that 2000 has not; later media may have their tree in UDF only,
\* but one that carries an NT 5.x Setup as well lists both in ISO 9660.
ASSUME MediaAssumption ==
  \A m \in Media :
    LET all == m.iso \cup m.udf
    IN /\ m.product \in Products /\ m.iso \subseteq Entries /\ m.udf \subseteq Entries
       /\ m.product \in {"nt5.0", "nt5.1"} =>
            "I386/TXTSETUP.SIF" \in m.iso /\ all \cap Nt6Entries = {}
       /\ m.product = "nt5.0" =>
            /\ {"I386/SETUPLDR.BIN", "I386/NTDETECT.COM"} \cap m.iso # {}
            /\ all \cap {"WIN51*", "WIN52*"} = {}
       /\ m.product = "nt5.1" => m.iso \cap {"WIN51*", "WIN52*"} # {}
       /\ m.product = "nt6" /\ "I386/TXTSETUP.SIF" \in all => m.iso \cap Nt6Entries # {}
       /\ m.product \in {"linux", "other"} =>
            /\ "I386/TXTSETUP.SIF" \notin all
            /\ all \cap {"SOURCES/INSTALL.WIM", "SOURCES/INSTALL.ESD"} = {}

VARIABLES
  pc,          \* The next step; "end" when the process has exited.
  options,     \* The command line.
  mac,         \* The system disk: internal, with APFS, over 256 GiB?
  mode,        \* plan.mode.
  product,     \* What is on the image, "unread" as long as nobody has looked.
  names,       \* Which disk has which BSD name.
  boot,        \* What boot_disk_whole has returned.
  info,        \* The DeviceInfo: the name, and the disk it was read from.
  stale,       \* The name has changed hands since.
  touched,     \* The disks the mode's pipeline was let loose on.
  exit,        \* The exit code, 255 while the process runs.
  failure,     \* The error it ended with.
  replugs

world == <<mac, names, replugs>>
vars  == <<pc, options, mac, mode, product, names, boot, info, stale, touched,
           exit, failure, replugs>>

Modes    == {"windows", "windows-ntxp", "windows-2000", "hybrid", "linux", "uefi"}
Nt5Modes == {"windows-ntxp", "windows-2000"}
Targets  == {"disk0", "disk1"} \cup Ports
Disks    == {"system", "container"} \cup Sticks

Options ==
  [type : Modes \cup {"auto"}, target : Targets, dry_run : BOOLEAN,
   force : BOOLEAN, unattended : BOOLEAN, ahci : BOOLEAN]

Failures == {"none", "plan", "option", "no-device", "refused", "size",
             "aborted", "unsupported", "pipeline"}

\* What diskutil says of a disk.
Internal(d) == d \in {"system", "container"} /\ mac.internal
TooLarge(d) == d \in Large \/ (d \in {"system", "container"} /\ mac.large)

\* The whole disk `/' is mounted from.
RootDisk == IF mac.apfs THEN "container" ELSE "system"
RootName == IF mac.apfs THEN "disk1" ELSE "disk0"

TypeOK ==
  /\ pc \in {"plan", "check-options", "boot-disk", "look-up", "check-writable",
             "check-size", "confirm", "dispatch", "burn", "end"}
  /\ options \in Options
  /\ mac \in [internal : BOOLEAN, apfs : BOOLEAN, large : BOOLEAN]
  /\ mode \in Modes \cup {"none"}
  /\ product \in Products \cup {"unread"}
  /\ names \in [Targets -> Disks \cup {"none"}]
  /\ \A n, m \in Targets : names[n] = names[m] /\ names[n] # "none" => n = m
  /\ boot \in {"unknown", "disk0", "disk1"}
  /\ info \in [name : Targets, disk : Disks \cup {"none"}]
  /\ stale \in BOOLEAN
  /\ touched \subseteq Disks
  /\ exit \in 0..255 /\ ((pc = "end") <=> (exit # 255))
  /\ failure \in Failures /\ (exit \in {0, 255} => failure = "none")
  /\ replugs \in 0..MaxReplugs

-----------------------------------------------------------------------------

Goto(next) ==
  /\ pc' = next
  /\ UNCHANGED <<exit, failure>>

ErrorSwallowed(error) ==
  /\ pc' = "end"
  /\ exit' = 0
  /\ failure' = error

\* main prints every error and exits with 1.
Bail(error) ==
  /\ pc' = "end"
  /\ exit' = 1
  /\ failure' = error

Return ==
  /\ pc' = "end"
  /\ exit' = 0
  /\ UNCHANGED failure

\* has_win51_or_win52_marker.
HasMarker(found) == found \cap {"WIN51*", "WIN52*"} # {}

Nt6NotExcluded(found) ==
  /\ "I386/TXTSETUP.SIF" \in found
  /\ found \cap {"I386/SETUPLDR.BIN", "I386/NTDETECT.COM"} # {} \/ HasMarker(found)

\* is_nt5_install_media.
IsNt5(found) ==
  /\ "I386/TXTSETUP.SIF" \in found
  /\ found \cap {"I386/SETUPLDR.BIN", "I386/NTDETECT.COM"} # {} \/ HasMarker(found)
  /\ found \cap Nt6Entries = {}

\* classify; "none" when it cannot tell.
Classify(found) ==
  IF IsNt5(found)
    THEN IF HasMarker(found) THEN "windows-ntxp" ELSE "windows-2000"
  ELSE IF "BOOTMGR" \in found
          /\ found \cap {"SOURCES/INSTALL.WIM", "SOURCES/INSTALL.ESD"} # {} THEN "windows"
  ELSE IF "ISOLINUX/ISOLINUX.BIN" \in found THEN "linux"
  ELSE IF "EFI/BOOT/BOOTX64.EFI" \in found THEN "uefi"
  ELSE "none"

-----------------------------------------------------------------------------

\* resolve_mode with --type=auto.  The UDF tree counts as far as it can be read.
Detect ==
  \E m \in Media : \E seen \in SUBSET m.udf :
    /\ mode' = Classify(m.iso \cup seen)
    /\ product' = m.product
    /\ IF mode' = "none" THEN Bail("plan") ELSE Goto("check-options")

\* build_plan: the ISO is there, and its mode is given or can be told.
BuildPlan ==
  /\ pc = "plan"
  /\ \/ options.type = "auto" /\ Detect
     \/ /\ options.type # "auto"
        /\ mode' = options.type
        /\ Goto("check-options")
        /\ UNCHANGED product
     \/ Bail("plan") /\ UNCHANGED <<mode, product>>
  /\ UNCHANGED <<options, world, boot, info, stale, touched>>

\* A dry run ends here.
CheckOptions ==
  /\ pc = "check-options"
  /\ IF (options.unattended /\ mode \notin Nt5Modes) \/ (options.ahci /\ mode # "windows-ntxp")
       THEN Bail("option")
     ELSE IF options.dry_run THEN Return
     ELSE Goto("boot-disk")
  /\ UNCHANGED <<options, world, mode, product, boot, info, stale, touched>>

\* info_for asks statfs first, and goes on without an answer.
BootDiskWhole ==
  /\ pc = "boot-disk"
  /\ boot' \in {RootName, "unknown"}
  /\ Goto("look-up")
  /\ UNCHANGED <<options, world, mode, product, info, stale, touched>>

\* Then diskutil info on the name.
InfoFor ==
  /\ pc = "look-up"
  /\ \/ /\ names[options.target] # "none"
        /\ info' = [name |-> options.target, disk |-> names[options.target]]
        /\ stale' = FALSE
        /\ Goto("check-writable")
     \/ Bail("no-device") /\ UNCHANGED <<info, stale>>
  /\ UNCHANGED <<options, world, mode, product, boot, touched>>

\* --force skips every guard.
ForceSkipsAll ==
  /\ pc = "check-writable"
  /\ IF ~options.force /\ (info.name = boot \/ Internal(info.disk) \/ TooLarge(info.disk))
       THEN Bail("refused")
     ELSE Goto("check-size")
  /\ UNCHANGED <<options, world, mode, product, boot, info, stale, touched>>

\* The boot-disk guard is trusted to cover internal disks.
InternalUnchecked ==
  /\ pc = "check-writable"
  /\ IF info.name = boot \/ (~options.force /\ TooLarge(info.disk))
       THEN Bail("refused")
     ELSE Goto("check-size")
  /\ UNCHANGED <<options, world, mode, product, boot, info, stale, touched>>

\* check_writable, on what the look-up has read.
CheckWritable ==
  /\ pc = "check-writable"
  /\ IF info.name = boot \/ (~options.force /\ (Internal(info.disk) \/ TooLarge(info.disk)))
       THEN Bail("refused")
     ELSE Goto("check-size")
  /\ UNCHANGED <<options, world, mode, product, boot, info, stale, touched>>

CheckSize ==
  /\ pc = "check-size"
  /\ \/ Goto(IF options.force THEN "dispatch" ELSE "confirm")
     \/ Bail("size")
  /\ UNCHANGED <<options, world, mode, product, boot, info, stale, touched>>

\* The user reads info, and may take as long as he likes.
Confirm ==
  /\ pc = "confirm"
  /\ Goto("dispatch") \/ Bail("aborted")
  /\ UNCHANGED <<options, world, mode, product, boot, info, stale, touched>>

Dispatch ==
  /\ pc = "dispatch"
  /\ IF mode \in {"linux", "uefi"} THEN Bail("unsupported") ELSE Goto("burn")
  /\ UNCHANGED <<options, world, mode, product, boot, info, stale, touched>>

NameLookedUpAgain ==
  \E n \in Ports : names[n] # "none" /\ touched' = touched \cup {names[n]}

\* One operation of the mode's pipeline: diskutil, the raw device, newfs and
\* ms-sys are all given the name.
WorkOnTarget == names[info.name] # "none" /\ touched' = touched \cup {names[info.name]}

\* It succeeds after at least one of them.
Burn ==
  /\ pc = "burn"
  /\ \/ WorkOnTarget /\ Goto("burn")
     \/ touched # {} /\ Return /\ UNCHANGED touched
     \/ Bail("pipeline") /\ UNCHANGED touched
  /\ UNCHANGED <<options, world, mode, product, boot, info, stale>>

-----------------------------------------------------------------------------

\* A stick is pulled, or put into a free port.
Replug ==
  /\ pc # "end"
  /\ replugs < MaxReplugs
  /\ replugs' = replugs + 1
  /\ \E n \in Ports :
       /\ IF names[n] # "none" THEN names' = [names EXCEPT ![n] = "none"]
          ELSE \E s \in Sticks \ {names[m] : m \in Ports} :
                 names' = [names EXCEPT ![n] = s]
       /\ stale' = (stale \/ n = info.name)
  /\ UNCHANGED <<pc, options, mac, mode, product, boot, info, touched, exit, failure>>

Done == pc = "end" /\ UNCHANGED vars

Init ==
  /\ pc = "plan"
  /\ options \in Options
  /\ mac \in [internal : BOOLEAN, apfs : BOOLEAN, large : BOOLEAN]
  /\ mode = "none"
  /\ product = "unread"
  /\ names \in {f \in [Targets -> Disks \cup {"none"}] :
                  /\ f["disk0"] = "system"
                  /\ f["disk1"] = IF mac.apfs THEN "container" ELSE "none"
                  /\ \A n \in Ports : f[n] \in Sticks \cup {"none"}
                  /\ \A n, m \in Ports : f[n] = f[m] /\ f[n] # "none" => n = m}
  /\ boot = "unknown"
  /\ info = [name |-> "disk0", disk |-> "none"]
  /\ stale = FALSE
  /\ touched = {}
  /\ exit = 255
  /\ failure = "none"
  /\ replugs = 0

Next ==
  \/ BuildPlan \/ CheckOptions \/ BootDiskWhole \/ InfoFor \/ CheckWritable
  \/ CheckSize \/ Confirm \/ Dispatch \/ Burn
  \/ Replug \/ Done

Spec == Init /\ [][Next]_vars

-----------------------------------------------------------------------------
(***************************************************************************)
(* Properties.                                                             *)
(***************************************************************************)

\* Without --force no internal disk is ever worked on, even when statfs fails,
\* when the root lies in a container, and when sticks are exchanged meanwhile.
InternalSpared ==
  ~options.force => \A d \in touched : ~Internal(d)

\* The disk `/' is mounted from is not worked on even with --force, wherever it
\* is and whatever the user typed, unless statfs has failed.
RootSpared ==
  boot # "unknown" => RootDisk \notin touched

\* The pipeline works on one disk, the one the look-up described and the user
\* was asked about, and only on one it was allowed to: as long as nobody
\* exchanges the sticks.
ConsentCovers ==
  ~stale /\ touched # {} =>
    /\ touched = {info.disk}
    /\ ~options.force => ~TooLarge(info.disk)

\* The mode that installs a product: SVBus serves Windows 2000, FiraDisk XP and
\* 2003.
ModeOf(p) ==
  CASE p = "nt5.0" -> "windows-2000"
    [] p = "nt5.1" -> "windows-ntxp"
    [] p = "nt6"   -> "windows"
    [] OTHER       -> "none"

\* With --type=auto a disk is only ever given to the pipeline of the product on
\* the image, also when part of the image cannot be read, and to none when the
\* product has none.
ModeFitsImage ==
  options.type = "auto" /\ touched # {} => mode = ModeOf(product)

-----------------------------------------------------------------------------
(***************************************************************************)
(* What the repository says of the program, and the code does not do.      *)
(***************************************************************************)

\* "bootsmith will refuse to write to: the boot disk" (README.md).  The disk
\* under an APFS container holds the system just as well.
BootDiskRefused == boot # "unknown" => "system" \notin touched

\* "It refuses [...] disks > 256 GiB without --force" (docs/ARCHITECTURE.md, of
\* the one handle every raw write goes through).
LargeDisksRefused == ~options.force => \A d \in touched : ~TooLarge(d)
=============================================================================
