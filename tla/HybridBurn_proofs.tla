------------------------- MODULE HybridBurn_proofs -------------------------
(***************************************************************************)
(* Theorems about HybridBurn, for every chunk, block and device size, every *)
(* set of ISO sizes, and any number of runs and of changes to the file.    *)
(***************************************************************************)
EXTENDS HybridBurn, Integers, TLAPS

USE MaxRunsAssumption, GeometryAssumption

(***************************************************************************)
(* Arithmetic of blocks.                                                   *)
(***************************************************************************)

\* Quotient and remainder.
LEMMA Division ==
  ASSUME NEW a \in Nat, NEW b \in Nat \ {0}
  PROVE  a \div b \in Nat /\ a % b \in 0..(b - 1) /\ a = (a \div b) * b + (a % b)
  OBVIOUS

\* They are the only ones.
LEMMA DivisionUnique ==
  ASSUME NEW q \in Nat, NEW r \in Nat, NEW b \in Nat \ {0}, r < b
  PROVE  (q * b + r) % b = r /\ (q * b + r) \div b = q
  OBVIOUS

\* Multiples are the numbers without remainder.
LEMMA Multiples ==
  ASSUME NEW b \in Nat \ {0}
  PROVE  /\ \A q \in Nat : q * b \in Nat /\ (q * b) % b = 0
         /\ \A a \in Nat : a % b = 0 => a \div b \in Nat /\ a = (a \div b) * b
<1>1. ASSUME NEW q \in Nat PROVE q * b \in Nat /\ (q * b) % b = 0
  <2>1. q * b \in Nat /\ q * b + 0 = q * b
    OBVIOUS
  <2>2. (q * b + 0) % b = 0
    BY DivisionUnique
  <2> QED
    BY <2>1, <2>2
<1>2. ASSUME NEW a \in Nat, a % b = 0 PROVE a \div b \in Nat /\ a = (a \div b) * b
  <2> DEFINE q == a \div b
  <2>1. q \in Nat /\ a = q * b + (a % b)
    BY Division
  <2>2. q * b \in Nat
    BY <2>1
  <2> QED
    BY <1>2, <2>1, <2>2
<1> QED
  BY <1>1, <1>2

\* Two block boundaries add up to one.
LEMMA BoundariesAdd ==
  ASSUME NEW a \in Nat, NEW c \in Nat, a % Block = 0, c % Block = 0
  PROVE  (a + c) % Block = 0
<1> DEFINE q == a \div Block
           p == c \div Block
<1>1. a = q * Block /\ q \in Nat /\ c = p * Block /\ p \in Nat
  BY Multiples
<1> HIDE DEF q, p
<1>2. a + c = (p + q) * Block /\ p + q \in Nat
  BY <1>1
<1> QED
  BY <1>2, Multiples

\* The next block boundary is less than a block away, and a boundary is its own.
LEMMA AlignUpBounds ==
  ASSUME NEW n \in Nat
  PROVE  /\ AlignUp(n) \in Nat /\ n <= AlignUp(n) /\ AlignUp(n) < n + Block
         /\ AlignUp(n) % Block = 0
         /\ n % Block = 0 => AlignUp(n) = n
<1> DEFINE q == n \div Block
           r == n % Block
<1>1. q \in Nat /\ r \in 0..(Block - 1) /\ n = q * Block + r
  BY Division
<1> HIDE DEF q, r
<1>2. CASE r = 0
  <2>1. n + Block - 1 = q * Block + (Block - 1) /\ Block - 1 \in Nat
    BY <1>1, <1>2
  <2>2. AlignUp(n) = q * Block
    BY <1>1, <2>1, DivisionUnique DEF AlignUp
  <2>3. q * Block = n
    BY <1>1, <1>2
  <2> QED
    BY <1>1, <1>2, <2>2, <2>3, Multiples DEF r
<1>3. CASE r # 0
  <2>1. n + Block - 1 = (q + 1) * Block + (r - 1) /\ r - 1 \in Nat /\ q + 1 \in Nat
    BY <1>1, <1>3
  <2>2. AlignUp(n) = (q + 1) * Block
    BY <1>1, <2>1, DivisionUnique DEF AlignUp
  <2>3. (q + 1) * Block = q * Block + Block
    BY <1>1
  <2>4. q * Block \in Nat
    BY <1>1
  <2>5. AlignUp(n) \in Nat /\ n <= AlignUp(n) /\ AlignUp(n) < n + Block
    BY <1>1, <1>3, <2>1, <2>2, <2>3, <2>4
  <2>6. AlignUp(n) % Block = 0
    <3>1. ((q + 1) * Block) % Block = 0
      BY <2>1, Multiples
    <3> QED
      BY <2>2, <3>1
  <2>7. n % Block # 0
    BY <1>3 DEF r
  <2> QED
    BY <2>5, <2>6, <2>7
<1> QED
  BY <1>2, <1>3

\* Aligning from a block boundary on is aligning from the start.
LEMMA AlignUpShift ==
  ASSUME NEW a \in Nat, NEW m \in Nat, a % Block = 0
  PROVE  AlignUp(a + m) = a + AlignUp(m)
<1> DEFINE p == a \div Block
           s == (m + Block - 1) \div Block
           t == (m + Block - 1) % Block
<1>1. a = p * Block /\ p \in Nat
  BY Multiples
<1>2. m + Block - 1 \in Nat
  OBVIOUS
<1>3. s \in Nat /\ t \in 0..(Block - 1) /\ m + Block - 1 = s * Block + t
  BY <1>2, Division
<1>4. AlignUp(m) = s * Block
  BY DEF AlignUp
<1> HIDE DEF p, s, t
<1>5. a + m + Block - 1 = (p + s) * Block + t /\ p + s \in Nat
  BY <1>1, <1>3
<1>6. AlignUp(a + m) = (p + s) * Block
  BY <1>3, <1>5, DivisionUnique DEF AlignUp
<1> QED
  BY <1>1, <1>3, <1>4, <1>6

\* What a round reads: a chunk, or all that is left of the file.
LEMMA ReadFacts ==
  ASSUME NEW o \in Nat, o = offset, iso \in Nat
  PROVE  /\ Read \in Nat /\ Read <= Chunk
         /\ Read < Chunk => iso <= offset + Read
         /\ offset <= iso => offset + Read <= iso
         /\ Read = 0 => iso <= offset
  BY DEF Read, Least

-----------------------------------------------------------------------------
(***************************************************************************)
(* Types.                                                                  *)
(***************************************************************************)

\* Every initial state is typed.
LEMMA TypeInit == Init => TypeOK
<1> SUFFICES ASSUME Init PROVE TypeOK
  OBVIOUS
<1>1. HostTypeOK
  BY DEF Init, HostInit, HostTypeOK, Reports
<1>2. device \in [Bytes -> Values] /\ before \in [Bytes -> Values]
  BY DEF Init, Values
<1>3. pc \in Steps /\ verify \in BOOLEAN /\ iso \in IsoSizes /\ dropped \in BOOLEAN
  BY DEF Init, HostInit, Steps
<1>4. edits \in 0..MaxEdits /\ edited \subseteq Passes
  BY DEF Init
<1>5. offset \in 0..Capacity
  BY DEF Init
<1> QED
  BY <1>1, <1>2, <1>3, <1>4, <1>5 DEF TypeOK

\* A chunk makes bytes of bytes.
LEMMA WrittenType ==
  ASSUME device \in [Bytes -> Values], NEW n, NEW k
  PROVE  Written(n, k) \in [Bytes -> Values]
  BY DEF Written, Values

\* Every step keeps the types; no pass runs off the end of the device.
LEMMA TypeStep == TypeOK /\ [Next]_vars => TypeOK'
<1> SUFFICES ASSUME TypeOK, [Next]_vars PROVE TypeOK'
  OBVIOUS
<1>r. Read \in Nat /\ AlignUp(Read) \in Nat /\ Read <= AlignUp(Read)
  BY ReadFacts, AlignUpBounds DEF TypeOK
<1> USE DEF TypeOK, HostTypeOK, Steps, Holding, Reports, Goto, Bail, Succeed,
            Unmounted, UnmountRefused, Probed, Ejected, controlVars, isoVars, ownVars
<1>1. CASE Plan \/ UnmountFirst \/ Open
  BY <1>1 DEF Plan, UnmountFirst, UnmountStep, Open
<1>2. CASE WriteChunk
  <2>1. device' \in [Bytes -> Values]
    BY <1>2, WrittenType DEF WriteChunk
  <2>2. offset' \in 0..Capacity
    BY <1>2, <1>r DEF WriteChunk
  <2> QED
    BY <1>2, <2>1, <2>2 DEF WriteChunk
<1>3. CASE Sync \/ Reopen
  BY <1>3 DEF Sync, Reopen
<1>4. CASE VerifyChunk
  <2>1. offset' \in 0..Capacity
    BY <1>4, <1>r DEF VerifyChunk
  <2> QED
    BY <1>4, <2>1 DEF VerifyChunk
<1>5. CASE UnmountLast \/ Eject
  BY <1>5 DEF UnmountLast, UnmountIgnored, Eject, EjectStep
<1>6. CASE DiskArbitrationMounts
  BY <1>6 DEF DiskArbitrationMounts, AutoMount
<1>7. CASE EditIso
  BY <1>7 DEF EditIso, Passes
<1>8. CASE Killed
  BY <1>8 DEF Killed, Kill
<1>9. CASE StartAgain
  <2>1. HostTypeOK'
    BY <1>9 DEF StartAgain, Rerun
  <2>2. offset' \in 0..Capacity /\ pc' \in Steps
    BY <1>9 DEF StartAgain, Rerun
  <2>3. /\ verify' \in BOOLEAN /\ dropped' \in BOOLEAN /\ edited' \subseteq Passes
        /\ UNCHANGED <<iso, edits, device>> /\ before' = device
    BY <1>9 DEF StartAgain
  <2> QED
    BY <2>1, <2>2, <2>3
<1>10. CASE Done \/ UNCHANGED vars
  BY <1>10 DEF Done, vars
<1> QED
  BY <1>1, <1>2, <1>3, <1>4, <1>5, <1>6, <1>7, <1>8, <1>9, <1>10 DEF Next, Tool

\* Type correctness: neither pass leaves the device, whatever the file does.
THEOREM TypeCorrect == Spec => []TypeOK
  BY TypeInit, TypeStep, PTL DEF Spec

-----------------------------------------------------------------------------
(***************************************************************************)
(* The second pass.                                                        *)
(***************************************************************************)

\* As far as the second pass has come, the device holds the file's bytes; when
\* it has ended, that is as far as the file went.
ComparedInv ==
  /\ pc = "verify" => \A i \in 0..(offset - 1) : device[i] = i
  /\ pc \in {"unmount2", "eject"} \/ report = "ok" =>
       (verify /\ "verify" \notin edited => Holds(iso))

\* Every step keeps that.
LEMMA ComparedStep == TypeOK /\ ComparedInv /\ [Next]_vars => ComparedInv'
<1> SUFFICES ASSUME TypeOK, ComparedInv, [Next]_vars PROVE ComparedInv'
  OBVIOUS
<1>t. /\ offset \in 0..Capacity /\ iso \in Nat /\ device \in [Bytes -> Values]
      /\ pc \in Steps /\ ((pc = "end") <=> (report # "running"))
      /\ verify \in BOOLEAN
  BY DEF TypeOK, HostTypeOK
<1>r. /\ Read \in Nat /\ AlignUp(Read) \in Nat /\ Read <= AlignUp(Read)
      /\ Read < Chunk => iso <= offset + Read
  BY <1>t, ReadFacts, AlignUpBounds
<1> USE <1>t DEF ComparedInv, Holds, Steps, Holding, Goto, Bail, Succeed, controlVars,
                 isoVars, ownVars
<1>1. CASE Plan \/ UnmountFirst \/ Open
  BY <1>1 DEF Plan, UnmountFirst, UnmountStep, Open
<1>2. CASE WriteChunk
  BY <1>2 DEF WriteChunk
<1>3. CASE Sync
  BY <1>3 DEF Sync
<1>10. CASE Reopen
  <2>1. \A i \in 0..(offset' - 1) : FALSE
    BY <1>10 DEF Reopen
  <2>2. pc' \in {"verify", "end"} /\ report' # "ok"
    BY <1>10 DEF Reopen
  <2> QED
    BY <2>1, <2>2
<1>4. CASE VerifyChunk
  <2>1. CASE pc' = "end"
    BY <1>4, <2>1 DEF VerifyChunk
  <2>2. CASE pc' # "end"
    <3>1. /\ offset + AlignUp(Read) <= Capacity
          /\ \A i \in offset..(offset + Read - 1) : device[i] = i
          /\ offset' = offset + Read /\ report' # "ok"
          /\ pc = "verify" /\ pc' = (IF Read < Chunk THEN "unmount2" ELSE "verify")
          /\ UNCHANGED <<device, iso, verify, edited>>
      BY <1>4, <2>2 DEF VerifyChunk
    <3>2. \A i \in 0..(offset + Read - 1) :
            i \in 0..(offset - 1) \/ i \in offset..(offset + Read - 1)
      BY <1>r
    <3>3. \A i \in 0..(offset + Read - 1) : device[i] = i
      BY <3>1, <3>2
    <3>4. Read < Chunk => iso <= offset + Read /\ iso <= Capacity
      BY <1>r, <3>1
    <3> QED
      BY <1>r, <3>1, <3>3, <3>4
  <2> QED
    BY <2>1, <2>2
<1>5. CASE UnmountLast \/ Eject
  BY <1>5 DEF UnmountLast, UnmountIgnored, Eject, EjectStep
<1>6. CASE DiskArbitrationMounts
  BY <1>6 DEF DiskArbitrationMounts, AutoMount
<1>7. CASE EditIso
  BY <1>7 DEF EditIso
<1>8. CASE Killed \/ StartAgain
  BY <1>8 DEF Killed, Kill, StartAgain, Rerun
<1>9. CASE Done \/ UNCHANGED vars
  BY <1>9 DEF Done, vars
<1> QED
  BY <1>1, <1>2, <1>3, <1>4, <1>5, <1>6, <1>7, <1>8, <1>9, <1>10
     DEF Next, Tool

\* A verified success means that the device begins with the ISO as it is, as
\* long as the file did not change during or after the second pass.
THEOREM VerifiedIsIdentical == Spec => []VerifiedMeansIdentical
<1>1. Init => ComparedInv
  BY DEF Init, HostInit, ComparedInv
<1>2. ComparedInv => VerifiedMeansIdentical
  BY DEF ComparedInv, VerifiedMeansIdentical
<1> QED
  BY TypeInit, TypeStep, <1>1, ComparedStep, <1>2, PTL DEF Spec

-----------------------------------------------------------------------------
(***************************************************************************)
(* The first pass, when nothing disturbs it.                               *)
(***************************************************************************)

Undisturbed == edited = {} /\ ~dropped

\* The ISO's bytes up to n, zeros to z, and what was there before.
Image(n, z) ==
  [i \in Bytes |-> IF i < n THEN i ELSE IF i < z THEN Zero ELSE before[i]]

WrittenInv ==
  /\ pc \in {"start", "unmount1", "open"} => device = before
  /\ pc = "write" /\ Undisturbed =>
       offset <= iso /\ offset % Block = 0 /\ device = Image(offset, offset)
  /\ pc \in {"sync", "reopen", "verify", "unmount2", "eject"} \/ report = "ok" =>
       (Undisturbed => device = Image(iso, AlignUp(iso)))

\* A round continues the image: by a chunk, or by the rest of the file and its
\* padding.
LEMMA ChunkContinues ==
  ASSUME TypeOK, offset <= iso, offset % Block = 0, device = Image(offset, offset)
  PROVE  /\ Read = 0 => device = Image(iso, AlignUp(iso))
         /\ Read = Chunk =>
              /\ Written(Read, AlignUp(Read)) = Image(offset + Chunk, offset + Chunk)
              /\ (offset + Chunk) % Block = 0
         /\ Read < Chunk =>
              Written(Read, AlignUp(Read)) = Image(iso, AlignUp(iso))
<1>t. offset \in Nat /\ iso \in Nat
  BY DEF TypeOK
<1>r. /\ Read \in Nat /\ offset + Read <= iso
      /\ Read < Chunk => offset + Read = iso
      /\ AlignUp(Read) \in Nat /\ Read <= AlignUp(Read)
  BY <1>t, ReadFacts, AlignUpBounds
<1>w. Written(Read, AlignUp(Read)) = Image(offset + Read, offset + AlignUp(Read))
  BY <1>t, <1>r DEF Written, Image, Bytes
<1>a. AlignUp(offset + Read) = offset + AlignUp(Read)
  BY <1>t, <1>r, AlignUpShift
<1>1. ASSUME Read = 0 PROVE device = Image(iso, AlignUp(iso))
  <2>1. iso = offset /\ AlignUp(iso) = iso
    BY <1>1, <1>t, <1>r, AlignUpBounds
  <2> QED
    BY <2>1
<1>2. ASSUME Read = Chunk
      PROVE  /\ Written(Read, AlignUp(Read)) = Image(offset + Chunk, offset + Chunk)
             /\ (offset + Chunk) % Block = 0
  BY <1>2, <1>t, <1>w, AlignUpBounds, BoundariesAdd
<1>3. ASSUME Read < Chunk
      PROVE  Written(Read, AlignUp(Read)) = Image(iso, AlignUp(iso))
  BY <1>3, <1>r, <1>w, <1>a
<1> QED
  BY <1>1, <1>2, <1>3

\* Every step keeps the image.
LEMMA WrittenStep == TypeOK /\ WrittenInv /\ [Next]_vars => WrittenInv'
<1> SUFFICES ASSUME TypeOK, WrittenInv, [Next]_vars PROVE WrittenInv'
  OBVIOUS
<1>t. /\ offset \in 0..Capacity /\ iso \in Nat /\ before \in [Bytes -> Values]
      /\ pc \in Steps /\ ((pc = "end") <=> (report # "running"))
      /\ dropped \in BOOLEAN
  BY DEF TypeOK, HostTypeOK
<1> USE <1>t DEF WrittenInv, Undisturbed, Steps, Holding, Goto, Bail, Succeed,
                 controlVars, isoVars, ownVars
<1>1. CASE Plan \/ UnmountFirst
  BY <1>1 DEF Plan, UnmountFirst, UnmountStep
<1>2. CASE Open
  <2>1. before = Image(0, 0)
    BY DEF Image, Bytes
  <2>2. 0 % Block = 0
    BY DivisionUnique
  <2>3. Image(0, 0)' = Image(0, 0)
    BY <1>2 DEF Open, Image
  <2> QED
    BY <1>2, <2>1, <2>2, <2>3 DEF Open
<1>3. CASE WriteChunk
  <2>1. CASE pc' = "end"
    BY <1>3, <2>1 DEF WriteChunk
  <2>2. CASE pc' # "end" /\ Undisturbed'
    <3>1. /\ Undisturbed /\ pc = "write" /\ before' = before /\ iso' = iso
          /\ report' # "ok"
          /\ \/ Read = 0 /\ pc' = "sync" /\ UNCHANGED <<device, offset>>
             \/ /\ Read # 0 /\ device' = Written(Read, AlignUp(Read))
                /\ offset' = offset + Read
                /\ pc' = (IF Read < Chunk THEN "sync" ELSE "write")
      BY <1>3, <2>2 DEF WriteChunk
    <3>2. \A n, z : Image(n, z)' = Image(n, z)
      BY <3>1 DEF Image
    <3>3. Read \in Nat /\ Read <= Chunk /\ offset + Read <= iso
      BY <3>1, ReadFacts
    <3>4. AlignUp(iso)' = AlignUp(iso)
      BY <3>1
    <3> QED
      BY <3>1, <3>2, <3>3, <3>4, ChunkContinues
  <2>3. CASE pc' # "end" /\ ~Undisturbed'
    BY <1>3, <2>3 DEF WriteChunk
  <2> QED
    BY <2>1, <2>2, <2>3
<1>4. CASE Sync \/ Reopen \/ VerifyChunk
  BY <1>4 DEF Sync, Reopen, VerifyChunk, Image
<1>5. CASE UnmountLast \/ Eject
  BY <1>5 DEF UnmountLast, UnmountIgnored, Eject, EjectStep, Image
<1>6. CASE DiskArbitrationMounts
  BY <1>6 DEF DiskArbitrationMounts, AutoMount, Image
<1>7. CASE EditIso
  <2>1. edited' # {} /\ UNCHANGED <<pc, report, device, before>>
    BY <1>7 DEF EditIso
  <2> QED
    BY <2>1
<1>8. CASE Killed
  BY <1>8 DEF Killed, Kill
<1>9. CASE StartAgain
  BY <1>9 DEF StartAgain, Rerun
<1>10. CASE Done \/ UNCHANGED vars
  BY <1>10 DEF Done, vars, Image
<1> QED
  BY <1>1, <1>2, <1>3, <1>4, <1>5, <1>6, <1>7, <1>8, <1>9, <1>10 DEF Next, Tool

\* A run that nothing disturbed and that succeeds has written the ISO and the
\* padding of its last block, and no byte more.
THEOREM SuccessWritesExactly == Spec => []WrittenExactly
<1>1. Init => WrittenInv
  BY DEF Init, HostInit, WrittenInv
<1>2. WrittenInv => WrittenExactly
  BY DEF WrittenInv, WrittenExactly, Undisturbed, Image
<1> QED
  BY TypeInit, TypeStep, <1>1, WrittenStep, <1>2, PTL DEF Spec
=============================================================================
