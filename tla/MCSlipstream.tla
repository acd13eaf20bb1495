---------------------------- MODULE MCSlipstream ----------------------------
(* Slipstream with two controllers.  The packs vary independently of the    *)
(* manifests, which vary with one regular pack: every tail of four lines    *)
(* behind the two [SCSI] sections, so that sections repeat, adjoin, are      *)
(* empty, or are missing.                                                   *)
EXTENDS Slipstream

CONSTANT none

Line(k, v, x) == [key |-> k, value |-> v, extra |-> x, raw |-> x]
ReadAs(r, line) == [line EXCEPT !.raw = r]
Section(kind, id, exact, lines) ==
  [kind |-> kind, id |-> id, exact |-> exact, lines |-> lines]

\* A service with a comment behind it is nobody's name.
MCNamedAfter == [s \in {"iaStor", "other", "iaStor ;"} |->
                   CASE s = "iaStor" -> {"iastor.sys"}
                     [] s = "other" -> {"other.sys"}
                     [] OTHER -> {}]

MCFloppyOem ==
  << Section("Disks", none, TRUE, <<Line("disk1", none, none)>>),
     Section("Defaults", none, TRUE, <<Line("SCSI", "firadisk", none)>>),
     Section("SCSI", none, TRUE, <<Line("firadisk", "FiraDisk", none)>>),
     Section("Files", "firadisk", TRUE,
       <<Line("driver", "firadisk.sys", "FiraDisk"),
         Line("inf", "firadisk.inf", none)>>),
     Section("HardwareIds", "firadisk", TRUE,
       <<Line("id", "detected", "FiraDisk")>>) >>

\* The parts of a pack.
Disks    == {<<Line("disk1", none, none)>>,
             <<Line("disk2", none, none), Line("disk1", none, none)>>}
Scsi     == {<<Line("ahci", "AHCI", none), Line("raid", "RAID", none)>>,
             <<Line("ahci", "AHCI", none), Line(none, none, none),
               Line("ahci", "again", none)>>}
Drivers  == {<<>>, <<Line("driver", "iastor.sys", "iaStor")>>,
             <<Line("driver", "other.sys", "other")>>,
             <<Line("driver", "other.sys", "iaStor")>>,
             <<Line("driver", "iastor.sys", none)>>,
             <<ReadAs("iaStor ;", Line("driver", "iastor.sys", "iaStor"))>>,
             <<ReadAs(none, Line("driver", "iastor.sys", "iaStor"))>>}
Extras   == {<<>>, <<Line("inf", "iaahci.inf", none)>>,
             <<Line("dll", "readme.txt", none)>>}
IdParts  == {<<>>, <<Line("id", "pci1", "iaStor")>>,
             <<Line("id", "pci1", "other")>>,
             <<Line("id", "pci2", "iaStor"), Line("id", "detected", "iaStor")>>}

Pack(disks, scsi, d1, x1, d2, exact, h1, h2) ==
  << Section("Disks", none, TRUE, disks),
     Section("Defaults", none, TRUE, <<Line("scsi", "ahci", none)>>),
     Section("SCSI", none, TRUE, scsi),
     Section("Files", "ahci", TRUE, x1 \o d1),
     Section("Files", "raid", exact, d2),
     Section("HardwareIds", "ahci", TRUE, h1),
     Section("HardwareIds", "raid", exact, h2) >>

RegularPack ==
  LET d == <<Line("driver", "iastor.sys", "iaStor")>>
      h == <<Line("id", "pci1", "iaStor")>>
      x == <<Line("inf", "iaahci.inf", none)>>
  IN  Pack(<<Line("disk1", none, none)>>,
           <<Line("ahci", "AHCI", none), Line("raid", "RAID", none)>>,
           d, x, d, TRUE, h, h)

\* The manifests.
Blank   == [tag |-> "blank", text |-> <<>>]
Old(n)  == Body(<<"old", n>>)
HeadOf  == <<Old(0), Header("SCSI.Load"), Old(1), Blank, Header("SCSI")>>
PlainTail == <<Header("HardwareIdsDatabase"), Old(2), Blank,
               Header("SourceDisksFiles"), Old(3), Blank>>
Alphabet == {Header("HardwareIdsDatabase"), Header("SourceDisksFiles"),
             Header("Strings"), Old(2), Blank}
Tails   == UNION {[1..n -> Alphabet] : n \in 2..5}
PlainDosnet == <<Header("Version"), Header("Files"), Old(4), Blank>>
Dosnets == UNION {[1..n -> {Header("Files"), Header("Strings"), Old(4), Blank}]
                    : n \in 1..3}

AllFiles == {"iastor.sys", "other.sys", "iaahci.inf", "readme.txt"}
Manifests == {"TXTSETUP.SIF", "DOSNET.INF"}

Burns(packs, dirs, holds, sifs, infs) ==
  [pack : packs, dir : dirs, holds : holds,
   txtsetup : {HeadOf \o sif : sif \in sifs}, dosnet : infs]

MCFamilies ==
  { Burns({Pack(d, s, d1, x1, d2, e, h1, h2) :
             d \in Disks, s \in Scsi, d1 \in Drivers, x1 \in Extras,
             d2 \in Drivers, e \in BOOLEAN, h1 \in IdParts, h2 \in IdParts},
          {AllFiles}, {Manifests}, {PlainTail}, {PlainDosnet}),
    Burns({RegularPack}, {AllFiles}, {Manifests}, Tails, {PlainDosnet}),
    Burns({RegularPack}, {AllFiles, {"iastor.sys"}},
          {Manifests, {"DOSNET.INF"}, {"TXTSETUP.SIF"},
           Manifests \cup {"iastor.sys"}},
          {PlainTail}, Dosnets) }
=============================================================================
