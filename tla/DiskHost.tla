------------------------------ MODULE DiskHost ------------------------------
(***************************************************************************)
(* The macOS host a bootsmith pipeline runs on, as far as the pipelines    *)
(* can tell it apart: whether a volume of the target stick is mounted,     *)
(* whether Disk Arbitration still owes the stick an automatic mount, and   *)
(* the tool's own control (the step it is in, what it has reported).       *)
(*                                                                         *)
(* The wrappers of pipeline/diskutil.rs block until the command they run   *)
(* exits, so each is one step with the outcomes of its Result.  Disk       *)
(* Arbitration is a second actor: it may mount the stick at any moment     *)
(* while a mount is owed.  Opening a device for writing fails with EBUSY   *)
(* while one of its volumes is mounted (pipeline/windows.rs, the comment   *)
(* above the second force-unmount).                                        *)
(***************************************************************************)
EXTENDS Naturals

CONSTANT
  MaxRuns     \* Bound: how often the user starts the tool on this stick.

ASSUME MaxRunsAssumption == MaxRuns \in Nat \ {0}

VARIABLES
  pc,         \* The step the tool is about to take; "end" when it has exited.
  report,     \* What the tool has told the user.
  runs,       \* How many times it has been started.
  mount       \* Of the volume on the stick: "on", "off", or "owed" when Disk
              \* Arbitration has noticed it and will mount it.

controlVars == <<pc, report, runs>>
Reports == {"running", "ok", "failed", "killed"}

HostTypeOK ==
  /\ report \in Reports
  /\ runs \in 1..MaxRuns
  /\ mount \in {"off", "owed", "on"}
  /\ (pc = "end") <=> (report # "running")

-----------------------------------------------------------------------------
(***************************************************************************)
(* Control: the `?' operator of a pipeline's run, and the exits of the     *)
(* process.                                                                *)
(***************************************************************************)

Goto(next) ==
  /\ pc' = next
  /\ UNCHANGED <<report, runs>>

\* An error is propagated: the process prints it and exits.
Bail ==
  /\ pc' = "end"
  /\ report' = "failed"
  /\ UNCHANGED runs

Succeed ==
  /\ pc' = "end"
  /\ report' = "ok"
  /\ UNCHANGED runs

-----------------------------------------------------------------------------
(***************************************************************************)
(* The diskutil wrappers.  `carries' says whether the stick holds a volume *)
(* that can be mounted.                                                    *)
(***************************************************************************)

\* unmountDisk without force returns although a mount is still on its way.
Unmounted == mount' = IF mount = "on" THEN "off" ELSE mount

\* A failed unmountDisk may have unmounted what it could.
UnmountRefused == Unmounted \/ UNCHANGED mount

\* unmountDisk force waits for the mount on its way and takes it down.
ForceUnmounted == mount' = "off"

\* mountDisk succeeds when the request was accepted; the volume may appear later.
MountAsked(carries) ==
  IF carries /\ mount # "on" THEN mount' \in {"off", "owed", "on"}
  ELSE UNCHANGED mount

\* A device opened for writing is closed: Disk Arbitration looks at it again
\* and may decide to mount what it finds.
Probed(carries) ==
  \/ UNCHANGED mount
  \/ carries /\ mount = "off" /\ mount' = "owed"
  \/ mount = "owed" /\ mount' = "off"

Ejected == mount' = "off"

-----------------------------------------------------------------------------
(***************************************************************************)
(* The same wrappers as steps of a pipeline: on success the pipeline goes  *)
(* from step `at' to step `next', on an error it bails.                    *)
(***************************************************************************)

UnmountStep(at, next) ==
  /\ pc = at
  /\ \/ Unmounted /\ Goto(next)
     \/ UnmountRefused /\ Bail

\* `let _ = unmount_disk(..)': the outcome does not matter.
UnmountIgnored(at, next) ==
  /\ pc = at
  /\ Unmounted \/ UnmountRefused
  /\ Goto(next)

ForceUnmountStep(at, next) ==
  /\ pc = at
  /\ \/ ForceUnmounted /\ Goto(next)
     \/ UnmountRefused /\ Bail

MountStep(at, next, carries) ==
  /\ pc = at
  /\ \/ MountAsked(carries) /\ Goto(next)
     \/ UNCHANGED mount /\ Bail

\* The last step of every pipeline.
EjectStep(at) ==
  /\ pc = at
  /\ \/ Ejected /\ Succeed
     \/ UnmountRefused /\ Bail

-----------------------------------------------------------------------------
(***************************************************************************)
(* The other actors.                                                       *)
(***************************************************************************)

\* Disk Arbitration performs the mount it owes.  The kernel refuses it while
\* the tool holds the device open for writing (the comment on O_EXCL in
\* bootsmith-disk/src/raw.rs).
AutoMount(held) ==
  /\ mount = "owed"
  /\ pc \notin held
  /\ mount' = "on"
  /\ UNCHANGED controlVars

\* The user interrupts the tool, or the machine takes it away.
Kill ==
  /\ pc # "end"
  /\ pc' = "end"
  /\ report' = "killed"
  /\ UNCHANGED <<runs, mount>>

\* The user starts the tool once more, with the stick plugged in again.
Rerun(carries) ==
  /\ pc = "end"
  /\ runs < MaxRuns
  /\ pc' = "start"
  /\ report' = "running"
  /\ runs' = runs + 1
  /\ mount' \in {"off", "owed", "on"}
  /\ carries \/ mount' = "off"

HostInit(carries) ==
  /\ pc = "start"
  /\ report = "running"
  /\ runs = 1
  /\ mount \in {"off", "owed", "on"}
  /\ carries \/ mount = "off"
=============================================================================
