----------------------------- MODULE HybridBurn -----------------------------
(***************************************************************************)
(* hybrid::run (pipeline/hybrid.rs): the ISO is written to the raw device  *)
(* chunk by chunk and compared in a second pass.  Offsets and sizes are    *)
(* counted in bytes of a small device.  The ISO is a file of the host that *)
(* may still be growing, or be cut short, while the tool reads it; both    *)
(* passes read to its end, not to the size the plan was made for.          *)
(***************************************************************************)
EXTENDS DiskHost

CONSTANTS
  Chunk,      \* CHUNK_SIZE, in bytes.
  Block,      \* The block size of the device.
  Capacity,   \* The size of the device.
  IsoSizes,   \* The sizes the ISO file may have.
  MaxEdits    \* Bound: how often the ISO file changes.

ASSUME GeometryAssumption ==
  /\ Chunk \in Nat \ {0} /\ Block \in Nat \ {0} /\ Capacity \in Nat
  /\ Chunk % Block = 0 /\ Capacity % Block = 0
  /\ IsoSizes \subseteq Nat
  /\ MaxEdits \in Nat

VARIABLES
  verify,     \* Of this run: not --no-verify.
  iso,        \* The size of the ISO file; its byte i has the value i.
  edits,      \* How often it has changed.
  edited,     \* Since the start of this run it has changed before the second
              \* pass ("write"), or since that has begun ("verify").
  device,     \* The bytes of the device.
  before,     \* Its bytes at the start of this run.
  offset,     \* Where the current pass is, in the file and on the device.
  dropped     \* The device has dropped a write of this run.

isoVars == <<iso, edits, edited>>
ownVars == <<verify, isoVars, device, before, offset, dropped>>
vars    == <<controlVars, mount, ownVars>>

Bytes  == 0..(Capacity - 1)
Old    == Capacity  \* What the device held before the first run.
Zero   == Capacity + 1  \* The padding of the last chunk.
Values == Bytes \cup {Old, Zero}
Passes == {"write", "verify"}

\* The steps at which the tool holds the device open.
Holding == {"write", "sync", "reopen", "verify"}

Steps == {"start", "unmount1", "open", "unmount2", "eject", "end"} \cup Holding

TypeOK ==
  /\ HostTypeOK
  /\ pc \in Steps
  /\ verify \in BOOLEAN
  /\ iso \in IsoSizes
  /\ edits \in 0..MaxEdits
  /\ edited \subseteq Passes
  /\ device \in [Bytes -> Values]
  /\ before \in [Bytes -> Values]
  /\ offset \in 0..Capacity
  /\ dropped \in BOOLEAN

-----------------------------------------------------------------------------

Least(a, b)  == IF a < b THEN a ELSE b
AlignUp(n)   == ((n + Block - 1) \div Block) * Block

\* How much read_full gets: a full chunk, or what is left of the file.
Read == IF offset < iso THEN Least(Chunk, iso - offset) ELSE 0

\* The device after the first k bytes of a padded chunk of n.
Written(n, k) ==
  [i \in Bytes |->
     IF i < offset \/ i >= offset + k THEN device[i]
     ELSE IF i < offset + n THEN i ELSE Zero]

-----------------------------------------------------------------------------

\* pipeline::run compares the size the ISO has now with the device.
Plan ==
  /\ pc = "start"
  /\ IF iso > Capacity THEN Bail ELSE Goto("unmount1")
  /\ UNCHANGED <<mount, ownVars>>

UnmountFirst ==
  /\ UnmountStep("unmount1", "open")
  /\ UNCHANGED ownVars

\* The device and the ISO are opened.
Open ==
  /\ pc = "open"
  /\ \/ mount # "on" /\ Goto("write")
     \/ Bail
  /\ offset' = 0
  /\ UNCHANGED <<mount, verify, isoVars, device, before, dropped>>

\* A short read does not end the loop, and only full chunks advance it.
ShortReadLoops ==
  /\ pc = "write"
  /\ IF Read = 0 \/ offset + AlignUp(Read) > Capacity
     THEN Goto("sync") /\ UNCHANGED <<device, offset>>
     ELSE /\ device' = Written(Read, AlignUp(Read))
          /\ offset' = offset + (Read \div Chunk) * Chunk
          /\ Goto("write")
  /\ UNCHANGED <<mount, verify, isoVars, before, dropped>>

\* The last chunk is written as long as its buffer.
WholeBufferWritten ==
  /\ pc = "write"
  /\ IF Read = 0 \/ offset + AlignUp(Read) > Capacity
     THEN Goto("sync") /\ UNCHANGED <<device, offset>>
     ELSE /\ device' = Written(Read, Chunk)
          /\ offset' = offset + Read
          /\ Goto(IF Read < Chunk THEN "sync" ELSE "write")
  /\ UNCHANGED <<mount, verify, isoVars, before, dropped>>

\* A chunk past the end of the device is no error.
EndOfDeviceIgnored ==
  /\ pc = "write"
  /\ device' = Written(Read, AlignUp(Read))
  /\ offset' = offset + Read
  /\ Goto(IF Read < Chunk THEN "sync" ELSE "write")
  /\ UNCHANGED <<mount, verify, isoVars, before, dropped>>

\* One round of write_iso_to_device.  A chunk that does not fit, or an error
\* of the device, leaves some of its blocks written.
WriteChunk ==
  /\ pc = "write"
  /\ IF Read = 0
     THEN Goto("sync") /\ UNCHANGED <<device, offset, dropped>>
     ELSE \/ /\ offset + AlignUp(Read) <= Capacity
             /\ \/ device' = Written(Read, AlignUp(Read)) /\ UNCHANGED dropped
                \/ UNCHANGED device /\ dropped' = TRUE
             /\ offset' = offset + Read
             /\ Goto(IF Read < Chunk THEN "sync" ELSE "write")
          \/ /\ \E k \in 0..AlignUp(Read) :
                  k % Block = 0 /\ device' = Written(Read, k)
             /\ Bail
             /\ UNCHANGED <<offset, dropped>>
  /\ UNCHANGED <<mount, verify, isoVars, before>>

Sync ==
  /\ pc = "sync"
  /\ \/ Goto(IF verify THEN "reopen" ELSE "unmount2")
     \/ Bail
  /\ IF pc' = "reopen" THEN UNCHANGED mount ELSE Probed(TRUE)
  /\ UNCHANGED ownVars

\* The second pass starts over, on the file as it is now.
Reopen ==
  /\ pc = "reopen"
  /\ Goto("verify") \/ Bail
  /\ offset' = 0
  /\ IF pc' = "verify" THEN UNCHANGED mount ELSE Probed(TRUE)
  /\ UNCHANGED <<verify, isoVars, device, before, dropped>>

\* The comparison ends after the first chunk.
OneChunkCompared ==
  /\ pc = "verify"
  /\ \/ /\ \A i \in 0..(Read - 1) : device[i] = i
        /\ offset' = offset + Read
        /\ Goto("unmount2")
     \/ Bail /\ UNCHANGED offset
  /\ Probed(TRUE)
  /\ UNCHANGED <<verify, isoVars, device, before, dropped>>

\* One round of verify_device_matches_iso.  The device is read in whole
\* blocks, and compared as far as the file goes.
VerifyChunk ==
  /\ pc = "verify"
  /\ \/ /\ offset + AlignUp(Read) <= Capacity
        /\ \A i \in offset..(offset + Read - 1) : device[i] = i
        /\ offset' = offset + Read
        /\ Goto(IF Read < Chunk THEN "unmount2" ELSE "verify")
     \/ Bail /\ UNCHANGED offset
  /\ IF pc' = "verify" THEN UNCHANGED mount ELSE Probed(TRUE)
  /\ UNCHANGED <<verify, isoVars, device, before, dropped>>

UnmountLast ==
  /\ UnmountIgnored("unmount2", "eject")
  /\ UNCHANGED ownVars

Eject ==
  /\ EjectStep("eject")
  /\ UNCHANGED ownVars

-----------------------------------------------------------------------------

Tool ==
  \/ Plan \/ UnmountFirst \/ Open \/ WriteChunk \/ Sync \/ Reopen
  \/ VerifyChunk \/ UnmountLast \/ Eject

DiskArbitrationMounts ==
  /\ AutoMount(Holding)
  /\ UNCHANGED ownVars

\* Another process writes to the ISO file, or cuts it.
EditIso ==
  /\ edits < MaxEdits
  /\ edits' = edits + 1
  /\ iso' \in IsoSizes \ {iso}
  /\ edited' = edited \cup {IF verify /\ pc \in {"verify", "unmount2", "eject", "end"}
                             THEN "verify" ELSE "write"}
  /\ UNCHANGED <<controlVars, mount, verify, device, before, offset, dropped>>

Killed ==
  /\ Kill
  /\ UNCHANGED ownVars

StartAgain ==
  /\ Rerun(TRUE)
  /\ verify' \in BOOLEAN
  /\ edited' = {}
  /\ before' = device
  /\ offset' = 0
  /\ dropped' = FALSE
  /\ UNCHANGED <<iso, edits, device>>

Done ==
  /\ pc = "end"
  /\ runs = MaxRuns
  /\ UNCHANGED vars

Init ==
  /\ verify \in BOOLEAN
  /\ iso \in IsoSizes
  /\ edits = 0
  /\ edited = {}
  /\ device = [i \in Bytes |-> Old]
  /\ before = device
  /\ offset = 0
  /\ dropped = FALSE
  /\ HostInit(TRUE)

Next ==
  Tool \/ DiskArbitrationMounts \/ EditIso \/ Killed \/ StartAgain \/ Done

\* Reads, writes and external commands return; the other actors owe nothing.
Fairness == WF_vars(Tool)

Spec == Init /\ [][Next]_vars /\ Fairness

-----------------------------------------------------------------------------
(***************************************************************************)
(* Properties.                                                             *)
(***************************************************************************)

Holds(n) == n <= Capacity /\ \A i \in 0..(n - 1) : device[i] = i

\* A verified success means that the device begins with the ISO, whatever the
\* device dropped and however the file changed while it was being written: only
\* a change during or after the second pass goes unnoticed.
VerifiedMeansIdentical ==
  report = "ok" /\ verify /\ "verify" \notin edited => Holds(iso)

\* An undisturbed success leaves the ISO, zeros up to the block boundary, and
\* behind them what was there before: no byte more is overwritten.
WrittenExactly ==
  report = "ok" /\ edited = {} /\ ~dropped =>
    device = [i \in Bytes |->
                IF i < iso THEN i
                ELSE IF i < AlignUp(iso) THEN Zero ELSE before[i]]

\* Both passes come to an end, also when they chase a growing file.
RunsEnd == (report = "running") ~> (report # "running")
=============================================================================
