------------------------------ MODULE FatStick ------------------------------
(***************************************************************************)
(* A stick with one active FAT32 partition, as the Windows 7+ and the      *)
(* NT 5.x pipelines make it: the boot code and the partition table at the  *)
(* front of the disk, the volume on the partition, and what has been       *)
(* stored on that volume in full.  The two pipelines share the steps from  *)
(* the new partition table to the mounted, empty volume.                   *)
(***************************************************************************)
EXTENDS DiskHost

CONSTANTS
  Lossy,      \* The writes the device may acknowledge and drop.
  MaxPolls    \* How often find_mount_for_label looks at most (20 in the code).

ASSUME MaxPollsAssumption == MaxPolls \in Nat

VARIABLES
  table,      \* The partition table: "old" or "new".
  code,       \* The boot code at the front of the disk.
  volume,     \* What the partition carries: "none", "foreign" or "fat".
  files,      \* What is stored, in full, on the FAT volume.
  lost,       \* Which writes of this run the device has dropped.
  namesake,   \* Another volume is already mounted at /Volumes/<label>.
  dest,       \* Whose volume the pipeline copies into.
  polls       \* How often it has looked for the mount point in vain.

frontVars == <<table, code>>
fatVars   == <<table, code, volume, files, lost, namesake, dest, polls>>

\* Something on the stick can be mounted.
Carries == volume # "none"

FatTypeOK ==
  /\ HostTypeOK
  /\ table \in {"old", "new"}
  /\ volume \in {"none", "foreign", "fat"}
  /\ lost \subseteq Lossy
  /\ namesake \in BOOLEAN
  /\ dest \in {"none", "stick", "namesake"}
  /\ polls \in 0..MaxPolls
  /\ Carries \/ mount = "off"

-----------------------------------------------------------------------------

\* Sector 0 carries the new table and boot code c.  A stick partitioned like
\* this before keeps its volume; otherwise the partition starts at whatever
\* used to be at that place.
FrontWritten(c) ==
  /\ table' = "new"
  /\ code' = c
  /\ \/ table = "new" /\ UNCHANGED <<volume, files>>
     \/ table = "old" /\ volume' \in {"none", "foreign"} /\ files' = {}
  /\ mount' = IF volume' = "none" THEN "off" ELSE mount
  /\ UNCHANGED lost

\* A write that was acknowledged and never reached the medium.
Dropped(w) ==
  /\ w \in Lossy
  /\ lost' = lost \cup {w}

\* Writing the front of the disk, up to and including the sync.  An error may
\* come before the first sector, between two (`torn'), or from the sync.
WriteFront(at, next, c, torn) ==
  /\ pc = at
  /\ \/ mount # "on" /\ FrontWritten(c) /\ Goto(next)
     \/ mount # "on" /\ Dropped("front") /\ Goto(next)
        /\ UNCHANGED <<mount, frontVars, volume, files>>
     \/ mount # "on" /\ (\E d \in {c, torn} : FrontWritten(d)) /\ Bail
     \/ UNCHANGED <<mount, frontVars, volume, files, lost>> /\ Bail
  /\ UNCHANGED <<namesake, dest, polls>>

\* Reading it back, which may fail too; the device is closed in either case.
CheckFront(at, next, c, verify) ==
  /\ pc = at
  /\ \/ (verify => table = "new" /\ code = c) /\ Goto(next)
     \/ verify /\ Bail
  /\ Probed(Carries)
  /\ UNCHANGED fatVars

\* newfs_msdos on the partition.  It is refused while the volume is mounted,
\* and may fail half-way.
Formatted ==
  /\ volume' = "fat"
  /\ files' = {}
  /\ mount' \in {"off", "owed"}

HalfFormatted ==
  /\ volume' = "none"
  /\ files' = {}
  /\ mount' = "off"

FormatStep(at, next) ==
  /\ pc = at
  /\ \/ mount # "on" /\ Formatted /\ Goto(next)
     \/ mount # "on" /\ HalfFormatted /\ Bail
     \/ UNCHANGED <<mount, volume, files>> /\ Bail
  /\ UNCHANGED <<frontVars, lost, namesake, dest, polls>>

NotThere == ~namesake /\ mount # "on"

LooksForEver ==
  /\ NotThere
  /\ UNCHANGED polls

LooksOnceMore ==
  /\ NotThere
  /\ polls <= MaxPolls
  /\ polls' = polls + 1

\* The path does not exist yet: sleep, and look again.
LookAgain ==
  /\ NotThere
  /\ polls < MaxPolls
  /\ polls' = polls + 1

\* The path /Volumes/<label> is polled until it exists, MaxPolls times at most.
\* It belongs to whichever volume of that name was mounted first.
FindMount(at, next) ==
  /\ pc = at
  /\ \/ /\ polls < MaxPolls
        /\ ~NotThere
        /\ dest' = IF namesake THEN "namesake" ELSE "stick"
        /\ Goto(next)
        /\ UNCHANGED polls
     \/ LookAgain /\ UNCHANGED <<controlVars, dest>>
     \/ polls = MaxPolls /\ Bail /\ UNCHANGED <<dest, polls>>
  /\ UNCHANGED <<mount, table, code, volume, files, lost, namesake>>

\* Item f of the payload is written through the mount point.
Stored(f) ==
  \/ files' = (IF dest = "stick" THEN files \cup {f} ELSE files)
     /\ UNCHANGED lost
  \/ Dropped("file") /\ UNCHANGED files

-----------------------------------------------------------------------------

FatInit ==
  /\ table = "old"
  /\ code = "old"
  /\ volume \in {"none", "foreign"}
  /\ files = {}
  /\ lost = {}
  /\ namesake \in BOOLEAN
  /\ dest = "none"
  /\ polls = 0
  /\ HostInit(Carries)

\* A new run starts with its own variables, on the stick as it is.
FatRerun ==
  /\ Rerun(Carries)
  /\ lost' = {}
  /\ dest' = "none"
  /\ polls' = 0
  /\ namesake' \in BOOLEAN
  /\ UNCHANGED <<table, code, volume, files>>
=============================================================================
