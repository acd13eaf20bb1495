-------------------------- MODULE Pipeline_proofs --------------------------
(***************************************************************************)
(* Theorems about Pipeline: what the checks before the first write are     *)
(* worth, for any number of sticks and ports and however often the sticks  *)
(* are exchanged.                                                          *)
(***************************************************************************)
EXTENDS Pipeline, TLAPS

USE DisksAssumption

(***************************************************************************)
(* Types, and who can have which name.  The system's names are fixed; a    *)
(* port has a stick or nothing, and no disk has two names.                 *)
(***************************************************************************)

NamesFixed ==
  /\ names["disk0"] = "system"
  /\ names["disk1"] = IF mac.apfs THEN "container" ELSE "none"
  /\ \A n \in Ports : names[n] \in Sticks \cup {"none"}

TypeInv == TypeOK /\ NamesFixed

\* Every initial state is typed.
LEMMA TypeInit == Init => TypeInv
<1> SUFFICES ASSUME Init PROVE TypeInv
  OBVIOUS
<1>1. NamesFixed
  BY DEF Init, NamesFixed
<1>2. names \in [Targets -> Disks \cup {"none"}]
  BY DEF Init
<1>3. \A n, m \in Targets : names[n] = names[m] /\ names[n] # "none" => n = m
  <2>1. \A n, m \in Ports : names[n] = names[m] /\ names[n] # "none" => n = m
    BY DEF Init
  <2> QED
    BY <1>1, <2>1 DEF NamesFixed, Targets
<1>4. info \in [name : Targets, disk : Disks \cup {"none"}]
  BY DEF Init, Targets
<1>5. /\ options \in Options
      /\ mac \in [internal : BOOLEAN, apfs : BOOLEAN, large : BOOLEAN]
      /\ pc = "plan" /\ mode = "none" /\ product = "unread" /\ boot = "unknown"
      /\ stale = FALSE /\ touched = {} /\ exit = 255 /\ failure = "none"
      /\ replugs \in 0..MaxReplugs
  BY DEF Init
<1>6. mode \in Modes \cup {"none"} /\ product \in Products \cup {"unread"} /\ stale \in BOOLEAN
  BY <1>5
<1>7. touched \subseteq Disks /\ boot \in {"unknown", "disk0", "disk1"}
  BY <1>5
<1>8. failure \in Failures /\ (exit \in {0, 255} => failure = "none")
  BY <1>5 DEF Failures
<1>9. exit \in 0..255 /\ ((pc = "end") <=> (exit # 255))
  BY <1>5
<1> QED
  BY <1>1, <1>2, <1>3, <1>4, <1>5, <1>6, <1>7, <1>8, <1>9 DEF TypeInv, TypeOK

\* A replug changes the owner of one port, and keeps the names apart.
LEMMA ReplugStep ==
  ASSUME TypeInv, Replug
  PROVE  /\ names' \in [Targets -> Disks \cup {"none"}]
         /\ NamesFixed'
         /\ \A n, m \in Targets : names'[n] = names'[m] /\ names'[n] # "none" => n = m
<1> USE DEF TypeInv, TypeOK, NamesFixed, Targets, Disks
<1>1. PICK n \in Ports :
        \/ names' = [names EXCEPT ![n] = "none"]
        \/ \E s \in Sticks \ {names[m] : m \in Ports} :
             names' = [names EXCEPT ![n] = s]
  BY DEF Replug
<1>2. mac' = mac
  BY DEF Replug
<1>3. CASE names' = [names EXCEPT ![n] = "none"]
  BY <1>2, <1>3
<1>4. ASSUME NEW s \in Sticks \ {names[m] : m \in Ports},
             names' = [names EXCEPT ![n] = s]
      PROVE  /\ names' \in [Targets -> Disks \cup {"none"}]
             /\ NamesFixed'
             /\ \A k, m \in Targets :
                  names'[k] = names'[m] /\ names'[k] # "none" => k = m
  <2>1. \A k \in Targets : names[k] # s
    BY <1>4
  <2>2. \A k \in Targets : names'[k] = IF k = n THEN s ELSE names[k]
    BY <1>4
  <2> QED
    BY <1>2, <1>4, <2>1, <2>2
<1> QED
  BY <1>1, <1>3, <1>4

\* The classifier saw some image, and a part of its UDF tree.
LEMMA Detected ==
  ASSUME Detect
  PROVE  /\ \E m \in Media :
              /\ \E seen \in SUBSET m.udf : mode' = Classify(m.iso \cup seen)
              /\ product' = m.product
         /\ Goto("check-options") \/ Bail("plan")
<1>1. PICK m \in Media :
        \E seen \in SUBSET m.udf :
          /\ mode' = Classify(m.iso \cup seen)
          /\ product' = m.product
          /\ IF mode' = "none" THEN Bail("plan") ELSE Goto("check-options")
  BY Zenon DEF Detect
<1>2. PICK seen \in SUBSET m.udf :
          /\ mode' = Classify(m.iso \cup seen)
          /\ product' = m.product
          /\ IF mode' = "none" THEN Bail("plan") ELSE Goto("check-options")
  BY Zenon, <1>1
<1> QED
  BY Zenon, <1>2

\* Every step keeps the types and the names.
LEMMA TypeStep == TypeInv /\ [Next]_vars => TypeInv'
<1> SUFFICES ASSUME TypeInv, [Next]_vars PROVE TypeInv'
  OBVIOUS
<1> USE DEF TypeInv, TypeOK, NamesFixed, Failures, Goto, Bail, Return, world
<1>1. CASE BuildPlan
  <2>1. CASE options.type = "auto" /\ Detect
    <3>1. PICK m \in Media :
            /\ \E seen \in SUBSET m.udf : mode' = Classify(m.iso \cup seen)
            /\ product' = m.product
      BY Zenon, <2>1, Detected
    <3>2. product' \in Products
      BY <3>1, MediaAssumption
    <3>3. mode' \in Modes \cup {"none"}
      BY <3>1 DEF Classify, Modes
    <3>4. Goto("check-options") \/ Bail("plan")
      BY Zenon, <2>1, Detected
    <3> QED
      BY <1>1, <3>2, <3>3, <3>4 DEF BuildPlan, Detect
  <2>2. CASE options.type # "auto" /\ mode' = options.type /\ UNCHANGED product
    BY <1>1, <2>2 DEF BuildPlan, Detect, Options
  <2>3. CASE Bail("plan") /\ UNCHANGED <<mode, product>>
    BY <1>1, <2>3 DEF BuildPlan
  <2> QED
    BY <1>1, <2>1, <2>2, <2>3 DEF BuildPlan
<1>2. CASE CheckOptions
  BY <1>2 DEF CheckOptions
<1>3. CASE BootDiskWhole
  BY <1>3 DEF BootDiskWhole, RootName
<1>4. CASE InfoFor
  <2>1. options.target \in Targets /\ names[options.target] \in Disks \cup {"none"}
    BY DEF Options
  <2>2. info' \in [name : Targets, disk : Disks \cup {"none"}]
    <3> DEFINE found == [name |-> options.target, disk |-> names[options.target]]
    <3>1. found \in [name : Targets, disk : Disks \cup {"none"}]
      BY <2>1
    <3>2. info' \in {info, found}
      BY <1>4 DEF InfoFor
    <3>3. info \in [name : Targets, disk : Disks \cup {"none"}]
      OBVIOUS
    <3> QED
      BY <3>1, <3>2, <3>3
  <2>3. stale' \in BOOLEAN
    BY <1>4 DEF InfoFor
  <2>4. /\ UNCHANGED <<options, mac, mode, product, names, boot, touched, replugs>>
        /\ \/ pc' = "check-writable" /\ UNCHANGED <<exit, failure>>
           \/ pc' = "end" /\ exit' = 1 /\ failure' = "no-device"
        /\ pc # "end"
    BY <1>4 DEF InfoFor
  <2> QED
    BY <2>2, <2>3, <2>4
<1>5. CASE CheckWritable
  BY <1>5 DEF CheckWritable
<1>6. CASE CheckSize
  BY <1>6 DEF CheckSize
<1>7. CASE Confirm
  BY <1>7 DEF Confirm
<1>8. CASE Dispatch
  BY <1>8 DEF Dispatch
<1>9. CASE Burn
  <2>1. WorkOnTarget => touched' \subseteq Disks
    BY DEF WorkOnTarget
  <2> QED
    BY <1>9, <2>1 DEF Burn, WorkOnTarget
<1>10. CASE Replug
  <2>1. replugs' \in 0..MaxReplugs /\ stale' \in BOOLEAN
    BY <1>10 DEF Replug
  <2> QED
    BY <1>10, <2>1, ReplugStep DEF Replug
<1>11. CASE Done \/ UNCHANGED vars
  BY <1>11 DEF Done, vars
<1> QED
  BY <1>1, <1>2, <1>3, <1>4, <1>5, <1>6, <1>7, <1>8, <1>9, <1>10, <1>11 DEF Next

\* Type correctness, with no BSD name shared by two disks.
THEOREM TypeCorrect == Spec => []TypeOK
<1>1. TypeInv => TypeOK
  BY DEF TypeInv
<1> QED
  BY TypeInit, TypeStep, <1>1, PTL DEF Spec

-----------------------------------------------------------------------------
(***************************************************************************)
(* What each check has established, in the steps after it.  The look-up    *)
(* describes the disk with the name until somebody exchanges it; nobody    *)
(* exchanges the system's own disks, so what was read of those stays true. *)
(***************************************************************************)

LookedUp == {"check-writable", "check-size", "confirm", "dispatch", "burn"}
Cleared == LookedUp \ {"check-writable"}

\* plan.mode was found before anything else was, and no pipeline is entered in
\* a mode that has none.
PlanFits ==
  /\ pc \notin {"plan", "end"} /\ options.type = "auto"
       => mode \in {ModeOf(product), "linux", "uefi"}
  /\ pc = "burn" => mode \notin {"linux", "uefi"}

BootFound == boot # "unknown" => boot = RootName

InfoHolds ==
  pc \in LookedUp =>
    /\ info.name \in {"disk0", "disk1"} \/ ~stale => names[info.name] = info.disk
    /\ info.disk # "none"

\* check_writable let this disk pass.
Allowed ==
  pc \in Cleared =>
    /\ info.name # boot
    /\ ~options.force => ~Internal(info.disk) /\ ~TooLarge(info.disk)

UntouchedBefore == pc \notin {"burn", "end"} => touched = {}

CheckInv ==
  /\ PlanFits /\ BootFound /\ InfoHolds /\ Allowed /\ UntouchedBefore
  /\ InternalSpared /\ RootSpared /\ ConsentCovers /\ ModeFitsImage

\* However much of its UDF tree is read, an image is classified by its product,
\* or as one no pipeline takes, or not at all.
LEMMA ClassifyFits ==
  ASSUME NEW m \in Media, NEW seen \in SUBSET m.udf
  PROVE  Classify(m.iso \cup seen) \in {ModeOf(m.product), "linux", "uefi", "none"}
<1> DEFINE found == m.iso \cup seen
           all   == m.iso \cup m.udf
<1>1. m.iso \subseteq found /\ found \subseteq all
  OBVIOUS
<1>2. m.product \in Products
  BY MediaAssumption
<1>3. CASE m.product \in {"nt5.0", "nt5.1"}
  <2>1. found \cap Nt6Entries = {} /\ "I386/TXTSETUP.SIF" \in found
    BY <1>1, <1>3, MediaAssumption
  <2>2. m.product = "nt5.0" => IsNt5(found) /\ ~HasMarker(found)
    BY <1>1, <2>1, MediaAssumption DEF IsNt5, HasMarker
  <2>3. m.product = "nt5.1" => IsNt5(found) /\ HasMarker(found)
    BY <1>1, <2>1, MediaAssumption DEF IsNt5, HasMarker
  <2> QED
    BY <1>3, <2>2, <2>3 DEF Classify, ModeOf
<1>4. CASE m.product = "nt6"
  <2>1. ~IsNt5(found)
    BY <1>1, <1>4, MediaAssumption DEF IsNt5
  <2> QED
    BY <1>4, <2>1 DEF Classify, ModeOf
<1>5. CASE m.product \in {"linux", "other"}
  <2>1. ~IsNt5(found)
    BY <1>1, <1>5, MediaAssumption DEF IsNt5
  <2>2. found \cap {"SOURCES/INSTALL.WIM", "SOURCES/INSTALL.ESD"} = {}
    BY <1>1, <1>5, MediaAssumption
  <2> QED
    BY <2>1, <2>2 DEF Classify
<1> QED
  BY <1>2, <1>3, <1>4, <1>5 DEF Products

\* The disk with the name of the target, once check_writable has passed: it is
\* not the root's, and without --force it is external.
LEMMA TargetSpared ==
  ASSUME TypeInv, CheckInv, pc = "burn", names[info.name] # "none"
  PROVE  /\ ~options.force => ~Internal(names[info.name])
         /\ boot # "unknown" => names[info.name] # RootDisk
         /\ ~stale => names[info.name] = info.disk
<1> USE DEF TypeInv, TypeOK, NamesFixed, CheckInv, Targets
<1>1. CASE info.name \in Ports
  <2>1. names[info.name] \in Sticks
    BY <1>1
  <2> QED
    BY <2>1 DEF Internal, RootDisk, InfoHolds, LookedUp
<1>2. CASE info.name \in {"disk0", "disk1"}
  <2>1. names[info.name] = info.disk /\ info.name # boot
    BY <1>2 DEF InfoHolds, Allowed, LookedUp, Cleared
  <2> QED
    BY <1>2, <2>1 DEF Allowed, BootFound, RootName, RootDisk, LookedUp, Cleared
<1> QED
  BY <1>1, <1>2

\* Nothing is touched and nothing found out before the first step.
LEMMA CheckInit == Init => CheckInv
  BY DEF Init, CheckInv, PlanFits, BootFound, InfoHolds, Allowed, LookedUp,
         Cleared, UntouchedBefore, InternalSpared, RootSpared, ConsentCovers,
         ModeFitsImage

\* Every step keeps what the checks have established.
LEMMA CheckStep == TypeInv /\ CheckInv /\ [Next]_vars => CheckInv'
<1> SUFFICES ASSUME TypeInv, CheckInv, [Next]_vars PROVE CheckInv'
  OBVIOUS
<1>t. /\ pc \in {"plan", "check-options", "boot-disk", "look-up", "check-writable",
                 "check-size", "confirm", "dispatch", "burn", "end"}
      /\ options.force \in BOOLEAN /\ stale \in BOOLEAN
  BY DEF TypeInv, TypeOK, Options
<1> USE <1>t DEF CheckInv, PlanFits, BootFound, InfoHolds, Allowed, LookedUp,
        Cleared, UntouchedBefore, InternalSpared, RootSpared, ConsentCovers,
        ModeFitsImage, Internal, TooLarge, RootDisk, RootName, Goto, Bail,
        Return, world
<1>1. CASE BuildPlan
  <2>1. options.type = "auto" /\ pc' # "end"
          => mode' \in {ModeOf(product)', "linux", "uefi"}
    BY <1>1, ClassifyFits DEF BuildPlan, Detect, ModeOf
  <2> QED
    BY <1>1, <2>1 DEF BuildPlan, Detect
<1>2. CASE CheckOptions
  BY <1>2 DEF CheckOptions
<1>3. CASE BootDiskWhole
  BY <1>3 DEF BootDiskWhole
<1>4. CASE InfoFor
  BY <1>4 DEF InfoFor
<1>5. CASE CheckWritable
  BY <1>5 DEF CheckWritable
<1>6. CASE CheckSize
  BY <1>6 DEF CheckSize
<1>7. CASE Confirm
  BY <1>7 DEF Confirm
<1>8. CASE Dispatch
  BY <1>8 DEF Dispatch
<1>9. CASE Burn
  <2>1. CASE WorkOnTarget /\ Goto("burn")
    BY <1>9, <2>1, TargetSpared DEF Burn, WorkOnTarget
  <2>2. CASE UNCHANGED touched /\ (Return \/ Bail("pipeline"))
    BY <1>9, <2>2 DEF Burn
  <2> QED
    BY <1>9, <2>1, <2>2 DEF Burn
<1>10. CASE Replug
  <2>1. PICK n \in Ports :
          /\ \/ names' = [names EXCEPT ![n] = "none"]
             \/ \E s \in Sticks : names' = [names EXCEPT ![n] = s]
          /\ stale' = (stale \/ n = info.name)
    BY <1>10 DEF Replug
  <2>2. info.name \in Targets /\ names \in [Targets -> Disks \cup {"none"}]
    BY DEF TypeInv, TypeOK
  <2>3. info.name # n => names'[info.name] = names[info.name]
    BY <2>1, <2>2
  <2>4. InfoHolds'
    BY <1>10, <2>1, <2>3 DEF Replug
  <2> QED
    BY <1>10, <2>1, <2>4 DEF Replug
<1>11. CASE Done \/ UNCHANGED vars
  BY <1>11 DEF Done, vars
<1> QED
  BY <1>1, <1>2, <1>3, <1>4, <1>5, <1>6, <1>7, <1>8, <1>9, <1>10, <1>11 DEF Next

\* Every reachable state has what the checks establish.
LEMMA Checked == Spec => []CheckInv
  BY TypeInit, TypeStep, CheckInit, CheckStep, PTL DEF Spec

\* check_writable spares every internal disk unless --force is given, whatever
\* name was typed and whoever takes the name after the check.
THEOREM InternalAlwaysSpared == Spec => []InternalSpared
<1>1. CheckInv => InternalSpared
  BY DEF CheckInv
<1> QED
  BY Checked, <1>1, PTL

\* The disk `/' is mounted from is never worked on if statfs has named it, with
\* --force or without.
THEOREM RootAlwaysSpared == Spec => []RootSpared
<1>1. CheckInv => RootSpared
  BY DEF CheckInv
<1> QED
  BY Checked, <1>1, PTL

\* The one disk worked on is the one the user was shown, and one allowed to be,
\* unless the sticks were exchanged after the look-up.
THEOREM ConsentAlwaysCovers == Spec => []ConsentCovers
<1>1. CheckInv => ConsentCovers
  BY DEF CheckInv
<1> QED
  BY Checked, <1>1, PTL

\* With --type=auto no disk is given to another pipeline than its image's, for
\* every set of images mastered as assumed and however much of them is read.
THEOREM ModeAlwaysFits == Spec => []ModeFitsImage
<1>1. CheckInv => ModeFitsImage
  BY DEF CheckInv
<1> QED
  BY Checked, <1>1, PTL
=============================================================================
