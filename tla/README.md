# A model of bootsmith

bootsmith (Rust, `src/crates/`) writes Windows XP, 2000 and 7+ install sticks,
and raw hybrid ISOs, from macOS. This directory holds TLA+ modules of the parts
of it whose correctness depends on order, interruption, other actors or
boundaries, the TLC runs that check them on small instances, and theorems about
every component with a state, for every value of the constants, with proofs
checked by TLAPS.

    tlc -config MCWindowsBurn.cfg MCWindowsBurn.tla      # and so on, see "Runs"
    tlapm WindowsBurn_proofs.tla                         # and every other *_proofs.tla

## The system

| Part | Source (under `src/crates/`) | State it keeps | What it does, with whom | What is hard |
|---|---|---|---|---|
| Dispatch | `bootsmith/src/main.rs`, `pipeline.rs`, `pipeline/confirm.rs` | options, the plan, the `DeviceInfo` read once | plan, look-up, safety check, prompt, one mode's pipeline, exit code | the disk is known by name, and names change hands |
| Disk identification | `bootsmith-disk/src/{lib,macos}.rs` | none | `statfs("/")`, `diskutil info`, the refusal policy | APFS containers, a failing `statfs` |
| Raw device | `bootsmith-disk/src/raw.rs`, `bootsmith-core/src/device.rs` | an open file | block reads and writes, sync | lost writes, EBUSY while mounted |
| Command wrappers | `bootsmith/src/pipeline/diskutil.rs` | what is mounted and attached on the host | blocking `diskutil`, `newfs_msdos`, `hdiutil`, `ms-sys` | Disk Arbitration mounts on its own; partial failures |
| Windows 7+ pipeline | `pipeline/windows.rs`, `boot_records.rs` | the stick, the attached ISO | 11 steps: table, format, copy, boot records | interruption, races with Disk Arbitration, what is read back |
| NT 5.x pipelines | `pipeline/windows_ntxp.rs`, `windows_2000.rs` | the stick, the floppy image in memory | boot track, format, staging, edits of the staged ISO | partial failure over several media, two orders |
| Hybrid pipeline | `pipeline/hybrid.rs` | offset in the ISO and on the device | copy, compare, eject | alignment, an ISO that changes |
| ISO editor | `pipeline/ntxp_iso.rs` | an ISO 9660 file, edited in place | append to and replace in `I386` | several writes per call, sector boundaries |
| Floppy editor | `pipeline/ntxp_floppy.rs` | a FAT12 image | add, read, remove, replace | shared bytes, reuse, exhaustion |
| Slipstream | `pipeline/windows_ntxp.rs` (`slipstream_ahci_into_iso`), `ntxp_slipstream.rs`, `ntxp_txtsetup.rs` | the staged ISO | reads a driver pack, appends its files to `I386`, patches two manifests, all through the ISO editor | which of several sections is meant, the order of the edits, readers of one file that disagree |
| Classifier | `bootsmith-iso/src/{lib,udf}.rs` | none | markers to mode | overlapping markers |
| Evaluation harness | `bootsmith/src/bin/eval.rs` | a QEMU process, a QMP socket | boots an image, takes screendumps, lets tesseract read them | late replies, events, deadlines, a machine left running |

The pipelines run in one thread; the concurrency is with macOS (Disk
Arbitration mounts volumes on its own), with the user (who kills the tool,
starts it again, exchanges sticks) and with whoever else writes to the ISO
file. Nothing is persisted but the stick itself, so recovery means: what a run
finds on a stick that earlier runs left in any state.

What makes the parts correct, in a sentence each:

- *Pipelines*: success is reported only over a stick that installs, and no
  destructive step meets a mounted volume, whatever happened before.
- *Dispatch and policy*: only the disk the user agreed to, and none that the
  policy refuses, is ever worked on.
- *Hybrid*: a verified success means that the device begins with the ISO.
- *ISO and floppy editors*: any sequence of calls leaves a sound file system in
  which every file reads back; a failing call does not damage others' files.
- *Slipstream*: the manifests keep every line they had, announce no file that is
  not there, and after a success Setup finds, loads and binds the driver.
- *Evaluation harness*: a verdict rests on a screen of the machine under test,
  every run ends, and no machine outlives its run.

## Modules

| Module | Models | Composition |
|---|---|---|
| `DiskHost` | the host: the mount of the stick's volume (`mount`), the tool's control (`pc`, `report`, `runs`), the `diskutil` wrappers as steps, Disk Arbitration, kill and restart | extended by the pipelines |
| `FatStick` | a stick with one FAT32 partition: table, boot code, volume, stored files, dropped writes; the steps both stick pipelines share up to the mounted, empty volume, and the poll for the mount point | extends `DiskHost` |
| `WindowsBurn` | `windows::run`, one action per step, both backends | extends `FatStick`, implements `BurnContract` |
| `Nt5Burn` | `windows_ntxp::run` and `windows_2000::run` | extends `FatStick`, implements `BurnContract` |
| `BurnContract` | what any stick-writing mode promises | abstract; instantiated by the two above |
| `HybridBurn` | `hybrid::run`, one action per chunk | extends `DiskHost` |
| `FatFloppy` | `ntxp_floppy.rs`; a call is one step, since the image is private memory | on its own |
| `IsoImage` | `ntxp_iso.rs`; every write to the file is a step | on its own |
| `Pipeline` | `pipeline::run`, the look-up, the policy, the prompt, the classifier | on its own; hands over to the pipelines |
| `OemPack` | a TXTSETUP.OEM as sections, and what each function of `ntxp_txtsetup.rs` and `collect_services` computes from it | operators only |
| `Slipstream` | `slipstream_ahci_into_iso`, one action per file or manifest, and the two patches | extends `OemPack`; the writes inside an edit of the ISO are `IsoImage`'s |
| `EvalHarness` | `eval.rs`: the harness, QEMU and the monitor between them | on its own |
| `WindowsBurn_proofs`, `Nt5Burn_proofs`, `HybridBurn_proofs`, `FatFloppy_proofs`, `IsoImage_proofs`, `Pipeline_proofs`, `Slipstream_proofs`, `EvalHarness_proofs` | theorems and proofs about the module of that name | each extends it |
| `MC...` | small instances | |

How state corresponds to code:

- A step of a pipeline's `run` is a value of `pc`; the `?` after a call is a
  disjunct that ends in `Bail`, `let _ = ...` and `if let Err` are
  `UnmountIgnored`. A wrapper waits for its command (`Command::output`), so a
  call is one step with the outcomes of its `Result`.
- `mount` has three values because `diskutil mountDisk` and the closing of a
  device return before Disk Arbitration acts: `"owed"` is a mount on its way. A
  plain unmount does not take back an owed mount, a forced one does. This is
  what the comments in `windows.rs` above the two force-unmounts describe. The
  kernel refuses a mount while the tool holds the device open for writing, and
  opening for writing fails while the volume is mounted. These facts, and
  those about `newfs_msdos`, `hdiutil` and `ms-sys`, are not in `src/`: they
  are modelled from the way the pipelines use them, and `map` marks them
  external.
- In `FatStick`, `lost` records the writes of this run that the device
  acknowledged and dropped, `namesake` that another volume is mounted at
  `/Volumes/<label>`. Both are what the tool can be deceived by; a property
  says which deceptions it excepts. `polls` counts the looks for the mount point
  that found nothing; the code takes 20, `MaxPolls` stands for them.
- In `WindowsBurn` `source` says whose files are at the mount point that
  `hdiutil_attach_iso` has read from hdiutil's output. It takes the first *word*
  that starts with `/Volumes/`, so a mount point with a blank (a volume name with
  one, or the `/Volumes/LABEL 1` macOS chooses when the label is taken) is cut
  short: what is copied, and later detached, is another volume, a path that does
  not exist, or the stick itself when it has that label. `Misled` names this and
  the namesake; the properties that except it say so, and `iso_source` shows
  what happens then.
- The payload of a stick is a set of items. In `Nt5Burn` the edits of the
  staged ISO are items of their own, so that "the answer file is on the floppy
  and in the ISO" can be said.
- In `HybridBurn` byte *i* of the ISO has the value *i*: every misplaced,
  missing or padded byte shows.
- In `FatFloppy` the allocation table is bytes, read and written with the
  arithmetic of the code, because the sharing of bytes is the hazard; a file's
  contents are stamped with the number of the call that brought them.
- In `IsoImage` the directory is its records in order, and their positions
  follow from their lengths by the rule of the code (no record crosses a
  sector).
- In `Pipeline` `names` says which disk has which BSD name *now*, `info` what
  the look-up saw; `touched` is the set of disks the mode's pipeline was let
  loose on. Whether a system disk that is busy can be unmounted is for macOS to
  say; the properties are about what the tool itself refuses. `product` is what
  is on the image, whatever the classifier makes of it: `ModeFitsImage` compares
  the two, where `Media` says which paths each product lists in ISO 9660 and in
  UDF, and of the UDF tree any part may be unreadable (`walk_dir` returns
  silently). `failure` is the kind of the error the run ended with, which the
  exit code does not tell.
- In `Slipstream` a manifest is its lines: a header, a body line or a blank. The
  anchors are sets of line numbers, not loops: for TXTSETUP.SIF the last body
  line before a header of *another* name, from the first header on; for
  DOSNET.INF the last body line of the last `[Files]`. An edit that fails may
  have taken effect, or (`Lost`) have redirected a manifest's record to data
  that is not there. A pack's section says whether `collect_services`, which
  looks for the header to the letter, sees it (`exact`), and a driver line what
  `collect_services` takes for the service (`raw`) beside what Setup and the
  other readers do (`extra`): it keeps comments and quotes, which they strip,
  and wants `driver` in lower case. `NamedAfter` is the test that a driver's name ends in `<service>.sys`.
- In `EvalHarness` a command is the number of its capture, and a reply carries
  that number although the harness cannot see it. `files` are the captures by
  name: whose (this run's or an earlier one's), what they show, and whether
  QEMU has written all of them. `gaveUp`, `answered` and `shown` are history.
  An exchange with tesseract is one step that reads any part of the marks.

## Runs

Passing runs (deadlock is checked in all of them; a `Done` step stands for the
end):

| Run | Instance | Shows |
|---|---|---|
| `windows` | 2 files and 1 of another volume, 2 runs, 2 looks for the mount point, any write may be dropped | `PartitionStepsUndisturbed`, `Mbr7Undisturbed`: no destructive step meets a mount. `SuccessMeansBootable`: success means a complete stick with the boot code of the chosen backend. `BootRecordLast`: BOOTMGR's boot record is only written over the complete files, also after failed and killed runs. `IsoReleased`: no attached image is forgotten. `RunsEnd`. `ContractKept`: it implements `BurnContract` |
| `nt5` | 2 runs, every configuration, 2 looks | `SuccessMeansInstallable`: exactly the payload this configuration asks for. `FormatUndisturbed`, `ContractKept` |
| `hybrid` | 8 bytes, blocks of 2, chunks of 4, ISOs of 0 to 9 bytes, 2 runs, 1 change of the ISO | `VerifiedMeansIdentical`, `WrittenExactly`, `RunsEnd` |
| `floppy` | 3 clusters, 2 slots, 3 names, files of 1 to 3 clusters, 5 calls | `FilesReadBack`, `TableExact`, `CopiesAgree` |
| `iso` | 4 names with records of 2 lengths, sectors of 8 bytes, 3 calls, every subset of the names present at first | `DirectorySound`, `FilesReadBack`, `OthersSurvive` |
| `pipeline` | a small and a large stick, one port, 2 plug actions, every command line and kind of Mac, 10 images: two of Windows 2000, XP, 2003, Vista in UDF, later ones, one with an NT 5.x Setup besides, a repair disc, Linux for BIOS and for EFI; every part of their UDF trees | `InternalSpared`, `RootSpared`, `ConsentCovers`, `ModeFitsImage` |
| `slipstream` | packs of two controllers with every combination of driver lines, extra files, ids and header spelling, whose `[Disks]` names the embedded disk, or another one before it, with a comment on a driver line or its key in capitals (18816); every tail of 2 to 5 lines after the first two sections of TXTSETUP.SIF; every DOSNET.INF of 1 to 3 lines, with files missing or present already | `OriginalKept`, `PresentBeforeNamed`, `DriverBinds`; `MergeSeparates`, `OneFloppy` for the dormant `merge` and `strip_controllers` |
| `eval` | 2 captures, 2 messages per reply, 3 unread messages, a new or used work directory, with and without `--keep-running` | `QemuReaped`, `VerdictJustified`, `ReplyLag`, `RunsEnd` |

Why the bounds are enough:

- Two runs: the second meets every state the first can leave behind, and
  nothing of an earlier run survives but the stick (and attached images, which
  are counted). The theorems hold for any number.
- Two looks: success at once, success after a wait and expiry happen.
- Two files: one stored and one missing; one file elsewhere, so that copying the
  wrong volume shows.
- Hybrid: sizes on a chunk, on a block, inside a block, at and beyond the
  capacity; two runs so that old contents differ from padding.
- Floppy: an odd number of clusters, so entries share bytes both ways; both the
  clusters and the slots run out; five calls suffice to fill, free and reuse.
- ISO: records of unequal length, so that room depends on the order; three
  calls, so that an append follows an append and dies.
- Pipeline: two plug actions exchange the sticks under one name. The images are
  those for which the classifier has a rule of its own, each marker present
  alone or with the others.
- Slipstream: two controllers are the least that can disagree; five lines hold
  a repeated section with its body, one that adjoins, and another between.
- Evaluation: one late reply and the capture it is mistaken for; the code's 32
  messages per reply are 2, so that events use them up. Three captures (4.8
  million states, two minutes) hold as well.

Runs that refute what the repository says (each finding in `PROJECT.json`
quotes the sentence):

| Run | Property | What the code does |
|---|---|---|
| `boot_disk` | `BootDiskRefused` | With APFS, `/` is mounted from a synthesized disk; the physical one is not recognised as the boot disk. `--force` (or an external system disk) lets it pass |
| `large_disk` | `LargeDisksRefused` | The policy is applied to the name once, before the prompt; a disk that takes the name later is not checked |
| `found_volume` | `FoundVolumeIsNew` | A mounted volume of the same label is taken for the stick |
| `iso_source` | `IsoIsCopied` | A mount point with a blank in it is cut short: another volume, or nothing, is copied and success reported. The detach is then given the shorter path as well, so the image stays attached and the other volume, or the stick, may be unmounted |

More disagreements have no run of their own; the models follow the code in each
of them:

- *Read-back.* `src/README.md:129` says that every write is verified unless
  `--no-verify` is given. Copied files never are (`windows.rs:100`): a stick that
  lost one is reported as done. `SuccessMeansBootable` excepts a lost file
  (`Unchecked`), whatever the options.
- *Exit codes.* `main.rs:3-10` lists 3 (device refused), 4 (verification), 5
  (classification) and 6 (blobs), and `docs/ARCHITECTURE.md:43` says that every
  error variant is mapped to a numbered exit code. `main` ends with 1 whatever the
  error (`main.rs:196`). `Bail` does that; `failure` keeps the kind of the error, so
  that the loss shows in the state, and no property asserts that 1 is right.
- *Windows 2000 with `--type=auto`.* `src/README.md:114-116` and
  `docs/ARCHITECTURE.md:61-63` send it to `windows-ntxp`. `classify` takes NT 5.x
  media without a WIN51 or WIN52 marker for Windows 2000, and `build_plan` keeps
  that (`bootsmith-iso/src/lib.rs:68-73`). The tests in `bootsmith-iso` agree with
  the code, and so does `ModeOf`.
- *Comments in a pack.* `ntxp_txtsetup.rs:116` says that `;` starts a comment.
  `collect_services` (`windows_ntxp.rs:453-468`) keeps comments and quotes as part
  of a driver line's service and wants its key in lower case, unlike the other
  readers: of `driver = disk1, iaStor.sys, iaStor ; AHCI` it gives `[SCSI.Load]`
  the service `iaStor ; AHCI` while the hardware ids name `iaStor`, and the burn
  succeeds with a driver that does not bind. `DriverBinds` without `ReadAlike` is
  false for this reason.
- *One service per pack.* `docs/AHCI_DRIVER.md:202` says that every driver line of
  a pack must name the same service. A section whose header is not spelled as in
  `[scsi]` escapes the check (`windows_ntxp.rs:444`), while its ids are registered.
  Without `exact` in `WellFormed`, `DriverBinds` is false for this reason.
- *Hybrid images.* The comment at the top of `bootsmith-iso` has `classify` look
  for a hybrid marker and an MBR signature, and `docs/HARDWARE_TESTS.md` (row 4)
  has an Ubuntu image resolve to hybrid with `--type=auto`; `classify` never
  returns hybrid (`ModeOf` gives such an image no mode, and `linux` and `uefi` are
  refused in `Dispatch`).

`IsoImage` found a window worth knowing about although no text denies it:
between the rewritten directory and its new length in the root record, a death
hides the last record of the directory, which is another file's
(`OthersSurvive` excepts exactly this window and a torn directory write). The
next run copies the ISO anew, so it matters only to a user who boots the stick
of a failed run.

Facts the new runs pin down, which no text denies either:

- `DriverBinds` excepts two things. A TXTSETUP.SIF in which two sections of one
  name adjoin gets its additions at the end of the second, since only a header
  of another name ends the first (`apply_additions`). And a pack that is not
  `Regular`: `WellFormed` is the shape `docs/AHCI_DRIVER.md` asks for (headers
  as in `[scsi]`, every service on a driver line, one `.sys`; the loaded `.sys`
  is the first one referenced, not the driver line's), `ReadAlike` that
  `collect_services` and the other readers see the same in its driver lines. Packs
  outside either are accepted and need not bind, see above.
- `ModeFitsImage` rests on `MediaAssumption`. Media that carry an NT 5.x Setup
  beside a later one, with the later tree in UDF only, are not covered: were
  that part unreadable, the image would pass for NT 5.x. Nor are discs that
  carry XP's files for another purpose (boot discs made from them).
- `ReplyLag` is an equation: each reply that was given up on shifts all later
  ones by one capture, for the rest of the run. The comment in `screendump`
  ("returns synchronously once the file is written") holds while none was.
  `VerdictJustified` shows where it can matter: in a work directory used
  before, the next capture's old file is judged.
- When QEMU dies, the captures that are left fail one after the other and the
  verdict is TIMEOUT, not an error.

### Fairness

`WF_vars(Tool)` in `WindowsBurn` and `HybridBurn`: the tool is one thread whose
calls return (commands exit, device I/O completes or fails), so it takes its
next step when it has one. Nothing is assumed of Disk Arbitration, of the user
or of the ISO's other writers: a mount that is owed may never come, which is
why the poll in `find_mount_for_label` must be bounded. `Nt5Burn` has the same
poll and no other loop that waits, so liveness is not checked again there.

`WF_vars(Harness)` in `EvalHarness`: connecting and reading have deadlines of 15
seconds, a reply is looked for in at most 32 messages, and the main loop ends
with `--timeout`; so the harness always has a next step and takes it. Nothing is
assumed of QEMU, which may never answer or emit events for ever. tesseract is
run without a deadline; that it ends is assumed.

## Proofs

Each `X_proofs` module proves theorems of `X`'s specification for every value of
its constants, under the assumptions `X` states about them. What the code
guarantees, or fixes, is all they say: bounds on runs, polls, calls, edits and
the like are naturals, so the theorems hold for histories of any length.

| Assumption | Says | Because |
|---|---|---|
| `MaxRunsAssumption`, `MaxPollsAssumption`, `BoundsAssumption` | the bounds are naturals | they only cap the models |
| `GeometryAssumption` (`HybridBurn`) | a chunk and the capacity are whole blocks | a chunk is 4 MiB, the device is addressed in blocks |
| `LayoutAssumption` (`FatFloppy`) | 1 to 4084 clusters, at least one table and one slot | `parse_layout` refuses the rest |
| `DirectoryAssumption` (`IsoImage`) | finitely many names, no record longer than a sector | ISO 9660 |
| `DisksAssumption` (`Pipeline`) | sticks are not the internal disks | names of values |
| `MediaAssumption` (`Pipeline`) | how products are mastered: NT 5.x media have TXTSETUP.SIF in ISO 9660 and nothing of BOOTMGR or SOURCES, XP and 2003 a WIN51 or WIN52 marker that 2000 has not; a later image with an NT 5.x Setup shows both in ISO 9660; only installers have INSTALL.WIM or .ESD | the comment at the top of `bootsmith-iso` and its tests; Microsoft's media |
| `GivenAssumption` (`Slipstream`) | packs are sequences of sections of lines, a `[Files.scsi.<id>]` or `[HardwareIds.scsi.<id>]` having its id; manifests are sequences, and their original lines are not marked as added | what `parse` builds; the mark is the model's: it tells the added lines apart |
| `FloppyAssumption` (`Slipstream`) | the embedded file is such a pack, with a single `[Disks]` that declares no disk twice | it is a constant of the program, the TXTSETUP.OEM in `ntxp_assets/firadisk.ima`, whose `[Disks]` is one line |

### What is proved

| Module | Theorem | States |
|---|---|---|
| `WindowsBurn` | `TypeCorrect` | `[]TypeOK` |
| | `FormatUndisturbed` | `[]PartitionStepsUndisturbed` |
| | `BootCodeUndisturbed` | `[]Mbr7Undisturbed` |
| | `NoAttachedImageForgotten` | `[]IsoReleased` |
| | `SuccessIsBootable` | `[]SuccessMeansBootable` |
| | `BootRecordIsLast` | `BootRecordLast`, an action property |
| | `BurnKeepsContract` | `ContractKept`: it implements `BurnContract` |
| `Nt5Burn` | `TypeCorrect` | `[]TypeOK` |
| | `NewfsAlwaysUndisturbed` | `[]FormatUndisturbed` |
| | `SuccessIsInstallable` | `[]SuccessMeansInstallable` |
| | `BurnKeepsContract` | `ContractKept` |
| `HybridBurn` | `TypeCorrect` | `[]TypeOK` |
| | `VerifiedIsIdentical` | `[]VerifiedMeansIdentical` |
| | `SuccessWritesExactly` | `[]WrittenExactly` |
| `FatFloppy` | `TypeCorrect` | `[]TypeOK` |
| | `CopiesAlwaysAgree` | `[]CopiesAgree` |
| | `TableAlwaysExact` | `[]TableExact` |
| | `FilesAlwaysReadBack` | `[]FilesReadBack` |
| `IsoImage` | `TypeCorrect` | `[]TypeOK` |
| | `DirectoryAlwaysSound` | `[]DirectorySound` |
| | `FilesAlwaysReadBack` | `[]FilesReadBack` |
| | `OthersAlwaysSurvive` | `[]OthersSurvive` |
| `Pipeline` | `TypeCorrect` | `[]TypeOK` |
| | `InternalAlwaysSpared` | `[]InternalSpared` |
| | `RootAlwaysSpared` | `[]RootSpared` |
| | `ConsentAlwaysCovers` | `[]ConsentCovers` |
| | `ModeAlwaysFits` | `[]ModeFitsImage` |
| `Slipstream` | `TypeCorrect` | `[]TypeOK` |
| | `OriginalAlwaysKept` | `[]OriginalKept` |
| | `PresentAlwaysBeforeNamed` | `[]PresentBeforeNamed` |
| | `DriverAlwaysBinds` | `[]DriverBinds` |
| | `MergeAlwaysSeparates` | `[]MergeSeparates` |
| | `FloppyAlwaysOne` | `[]OneFloppy` |
| `EvalHarness` | `TypeCorrect` | `[]TypeOK` |
| | `QemuAlwaysReaped` | `[]QemuReaped` |
| | `ReplyLagHolds` | `[]ReplyLag` |
| | `VerdictAlwaysJustified` | `[]VerdictJustified` |

### Along which argument

Hardly any of the properties is inductive. Each module proves an invariant that
is (`IInv` in most), checked with TLC before it was proved.

`WindowsBurn`: `IInv` has three parts. `TypeInv`: the types, and `AttachCount`,
one image more than the orphans is attached exactly while the copy runs.
`MountInv`: from the poll to the end of the copy the stick's volume is mounted,
unless a namesake misled the run. This is why the *plain* unmount before `ms-sys
--mbr7` is enough: a mounted volume owes no further mount. `StickInv`: layer by
layer, what a run past a step has established on the stick: the table (read
back), the format, the files, the boot code and the boot record, each unless one
of its writes was dropped unread, or the run misled about where its files come
from or go. That the layers *below* stay intact while the
ones above are written is what makes success mean a bootable stick.
`BurnKeepsContract` maps the stick to `Media` and the run's deceptions to
`Honest`, and shows every step of `Next` to be a step of the contract or a
stutter.

`Nt5Burn`: the same `StickInv` idea with `StagedSoFar`, the payload a run of
this configuration has stored when it is at this step; both orders of staging go
through the one lemma `StickStaged`.

`HybridBurn`: `ComparedInv`, the device begins with the `offset` bytes that have
been compared; `WrittenInv`, while nothing disturbs the run, the device is the
`offset` bytes written over what was there before. The lemmas are about whole
blocks: padding a last chunk to a block is padding the whole ISO
(`AlignUpShift`).

`FatFloppy`: `IInv` says that there *is* a chain of clusters for every entry in
use such that image, entries and contents are `Sound` together; the chains are
not in the state. `ReadWritten` is the lemma on which all else rests: an entry of
12 bits reads back as written, and the other entry that shares one of its bytes
is not disturbed. Then: a walk of the table finds the chain (`ChainOfUsed`), and
freeing or allocating keeps the others' chains (`LinkedKeeps`).

`IsoImage`: `IInv` states for every value of `pc` what of directory, lengths,
volume size and data is already new. `InsertedAscending` and `InsertedLayout`
are about inserting a record into sorted ones, where no record crosses a sector.
That data is only appended keeps the other files (`KeptWhenAdding`).

`Pipeline`: `TypeInv` adds that the internal disks keep their names, `CheckInv`
what plan, look-up and policy have established so far; only the exchange of
sticks between look-up and write stays open, and `ConsentCovers` says so.
`PlanFits` is that the mode is the product's from the plan on: `ClassifyFits`
shows it of every image `MediaAssumption` admits and every part of its UDF tree
by the rules of `classify` in their order.

`Slipstream`: `FilesInv`, the files before `next` are appended, and all are when
a patch starts; `ManifestInv`, each manifest is the given one until its step.
The lemmas are about filters and concatenations: what a patch splices in can be
taken out again without a trace, wherever the anchors are (`SplicedWithout`),
and every added line that names a file names a referenced one (`AddedLines`).
`DriverAlwaysBinds` needs where each line goes. `Added` numbers the lines of a
patched manifest; from that follow where the first and the last header of a name
are (`NamedFacts`) and that an addition is under a header when no other stands
between that and its anchor (`AddedInBlock`). Two sections of TXTSETUP.SIF never
share an anchor (`AnchorsApart`), so each gets its own lines; where two of one
name adjoin, the anchor is in the second, which is why `DriverBinds` excepts
them. `Settled` is what a burn
has established when it succeeds: one service, and both manifests the patched
ones. `OneService` is the other half: what `collect_services` sees of a regular
pack is the service of each driver line, and so of each hardware id; without
`ReadAlike` that is not so, as said under "Runs".

The two theorems about `merge` say nothing of the shape of the pack that joins:
its sections come in any order, any number and any spelling, and it may declare
one disk twice itself. Their invariant is only that the pack is one of those
given; the work is what `combine` computes for every pack, by induction on the
sections that join (`CombineFacts`). Only the *first* section of a kind grows
(`Lead`), the later ones (`Follow`) stay as they are: so the lines under
`[SCSI]` become the base's first section, then all of the pack's, then the
base's other sections; files and hardware ids go to the end; `[Defaults]` is the
base's (`Joins` is that statement for one section, `JoinedFacts` its proof for
each of the ways a section can join). Everything a reader or `strip_controllers`
does is a filter (`Picked`) of these sequences. `MergeLeaves` is then about
filtering a concatenation: a controller one file mentions is not one the other
mentions (the hypothesis of `MergeSeparates`), so the filter passes all of one
part and nothing of the other, or only what was inserted (`PickedAround`,
`PickedBetween`). For `OneFloppy`, `MergedOnce` shows that the first `[Disks]`
declares each disk once at every step. Lines that join are compared with the
first `[Disks]` only, so with a second one in the base the merge *could* declare
a disk twice: that is why `FloppyAssumption` says that the embedded file has
one. A pack that names a disk twice within one section brings both lines along,
since a section is compared with what was there before it: hence "unless the
pack does".

`EvalHarness`: `OrderInv`, the replies queued and the commands not yet served
are those of consecutive captures, up to the last one sent; from it, that the
next reply is the one due (`NextReplyIsDue`). `FileInv` relates the files to what
the machine has shown, `ProcessInv` QEMU to the end of the run.

The library's induction theorems take an operator as a parameter, which the
provers cannot instantiate. The proofs about what a recursive function computes
instead use `LeastElement`, `IntervalInduction` (the predicate is a set) and
`Recursion` (a function that starts with a value and goes on by steps exists).
For their sake the models write recursion as functions: `Visited`, `Tables`,
`Written` and `Found` in `FatFloppy`, `Ends` in `IsoImage`, and in `OemPack`
`Chosen`, in place of `SelectSeq`, and `Combine`, in place of a fold.

### Only model-checked

Liveness (`RunsEnd` in `WindowsBurn`, `HybridBurn` and `EvalHarness`) is out of
the provers' reach. Every other property of the passing runs is proved: each
type invariant, safety invariant and action property, and that two pipelines
implement `BurnContract`. The four runs that refute a sentence of the repository
have nothing to prove.

## Not modelled

- Parsing and formatting: property lists, ISO 9660 and UDF directory walks,
  boot sectors, 8.3 names, `menu.lst` and `WINNT.SIF`, progress bars.
- `append_file_to_root` (not called), `write_and_verify` and `MemoryDevice`
  (tests only).
- The boot code itself: it is a value that is there or not.
- In `Slipstream`: the wording and fields of the added lines beyond what Setup
  looks up, comments, lines before the first section of a pack. In
  `EvalHarness`: QEMU's command line, the guest beyond the marks it shows, what
  an earlier run's `target.img` does to a new guest, messages in pieces, a
  tesseract that hangs.
- The inside of the UDF reader: it only reads, one structure after the other,
  and yields a set of paths; `Pipeline` takes every part of the image's.
- For `collect_services`, a header spelled out in a comment, or indented: its
  search of the text would stop there, or run on.

## Plan

1. *Done*: `DiskHost`, `FatStick`, `WindowsBurn` with its proofs and contract,
   `Nt5Burn`, `HybridBurn`, `FatFloppy`, `IsoImage`, `Pipeline`.
2. *Done*: `OemPack` and `Slipstream`, `EvalHarness`.
3. *Done*: proofs about every module with a specification, by the tables above.
4. *Done*: `OneFloppy` and `MergeSeparates` for every pack of the shape of a
   TXTSETUP.OEM.
