----------------------------- MODULE Slipstream -----------------------------
(***************************************************************************)
(* slipstream_ahci_into_iso: a driver pack goes into the staged Windows XP *)
(* ISO.  The pack's TXTSETUP.OEM is read, its files are appended to I386,  *)
(* and the two manifests are patched so that Setup finds, loads and binds  *)
(* the driver.  Any step may fail and end the burn with the ISO as it is   *)
(* then; how an edit of the ISO writes its sectors is IsoImage's subject.  *)
(*                                                                         *)
(* A manifest is its lines.  A line is a section header, a body line or    *)
(* blank; an original body line says nothing that matters here, an added   *)
(* one has its fields.                                                     *)
(***************************************************************************)
EXTENDS OemPack, FiniteSetsExt

CONSTANTS
  Families,   \* Sets of what a burn can be given: the pack's TXTSETUP.OEM,
              \* the files in its directory, the files I386 already holds,
              \* and the two manifests.
  PciIds,     \* The hardware ids that begin with PCI\.
  SysFiles,   \* File names by extension: .sys, and .inf or .cat; the rest
  InfFiles,   \* has an extension the slipstream does not support.
  FloppyOem   \* The TXTSETUP.OEM of the embedded FiraDisk floppy.

VARIABLES
  given,      \* The input of this burn; never changes.
  pc,         \* The next step.
  report,     \* How it ended: "none", "success" or "failure".
  next,       \* Which referenced file is appended next.
  i386,       \* The files in I386 of the staged ISO.
  txtsetup,   \* Its TXTSETUP.SIF.
  dosnet      \* Its DOSNET.INF.

vars == <<given, pc, report, next, i386, txtsetup, dosnet>>

Required == {"SCSI.Load", "SCSI", "HardwareIdsDatabase", "SourceDisksFiles"}

TypeOK ==
  /\ pc \in {"start", "append", "txtsetup", "dosnet", "end"}
  /\ report \in {"none", "success", "failure"}
  /\ (report = "none") = (pc # "end")
  /\ next \in 1..(Len(ReferencedFilenames(given.pack)) + 1)
  /\ i386 \subseteq given.holds \cup given.dir
  /\ \A m \in {txtsetup, dosnet} : \A i \in DOMAIN m :
       m[i].tag \in {"header", "body", "blank"}

-----------------------------------------------------------------------------
(***************************************************************************)
(* Manifests: where lines are added.                                       *)
(***************************************************************************)

Header(name) == [tag |-> "header", text |-> <<name>>]
Body(fields) == [tag |-> "body", text |-> fields]

\* An added line has a field that says what it is for.
IsAdded(l) ==
  l.tag = "body" /\ l.text[1] \in {"load", "name", "id", "file", "d1"}

IsSequence(s) == s \in Seq(ToSet(s))

\* A pack is sections of lines; the header of a [Files.scsi.<id>] or a
\* [HardwareIds.scsi.<id>] has its id.
IsPack(pack) ==
  /\ IsSequence(pack)
  /\ \A i \in DOMAIN pack :
       LET s == pack[i]
       IN  /\ s \in [kind : {s.kind}, id : {s.id}, exact : BOOLEAN, lines : {s.lines}]
           /\ IsSequence(s.lines)
           /\ s.kind \in {"Files", "HardwareIds"} => s.id # None

\* No line of an original manifest is one of those the slipstream adds.
ASSUME GivenAssumption ==
  \A family \in Families : \A g \in family :
    /\ IsPack(g.pack)
    /\ \A m \in {g.txtsetup, g.dosnet} :
         /\ IsSequence(m)
         /\ \A l \in ToSet(m) : l.tag \in {"header", "body", "blank"} /\ ~IsAdded(l)

\* No disk is declared twice.
DisksOnce(pack) ==
  LET disks == LinesOf(OfKind(pack, "Disks"))
  IN  \A i, j \in DOMAIN disks :
        disks[i].key = disks[j].key /\ disks[i].key # None => i = j

\* The embedded file is one of those, with a single [Disks].
ASSUME FloppyAssumption ==
  /\ IsPack(FloppyOem) /\ DisksOnce(FloppyOem)
  /\ Len(OfKind(FloppyOem, "Disks")) = 1

Headers(m) == {i \in DOMAIN m : m[i].tag = "header"}
Bodies(m)  == {i \in DOMAIN m : m[i].tag = "body"}
Named(m, name) == {i \in DOMAIN m : m[i] = Header(name)}

LaterBlockUsed(m, name) ==
  LET first == Min(Named(m, name))
      own   == {i \in Bodies(m) :
                  \E h \in Named(m, name) :
                    h < i /\ \A k \in Headers(m) : ~(k \in (h + 1)..i)}
  IN  Max(own \cup {first})

\* apply_additions: the last body line before a header of another name, from
\* the first header of this name on; the header itself if there is none.
TxtsetupAnchor(m, name) ==
  LET first == Min(Named(m, name))
      own   == {i \in Bodies(m) :
                  /\ i > first
                  /\ \A h \in Headers(m) :
                       h \in first..i => m[h] = Header(name)}
  IN  Max(own \cup {first})

\* patch_dosnet_inf: the last body line of the last [Files].
DosnetAnchor(m) ==
  LET last == Max(Named(m, "Files"))
      own  == {i \in Bodies(m) :
                 i > last /\ \A h \in Headers(m) : ~(h \in (last + 1)..i)}
  IN  Max(own \cup {last})

AnchorReplaced(m, added) ==
  FlattenSeq([i \in DOMAIN m |-> IF added[i] = <<>> THEN <<m[i]>> ELSE added[i]])

\* Each line, followed by what is added after it.
Spliced(m, added) == FlattenSeq([i \in DOMAIN m |-> <<m[i]>> \o added[i]])

-----------------------------------------------------------------------------
(***************************************************************************)
(* What is added.                                                          *)
(***************************************************************************)

Referenced == ReferencedFilenames(given.pack)
Ids        == HardwareIds(given.pack)
Services   == CollectServices(given.pack)
Service    == Services[1]

DriverSys == Filtered(Referenced, LAMBDA f : f \in SysFiles)
PciPairs  == Filtered(Ids, LAMBDA p : p[1] \in PciIds)

\* format_source_disks_files_line: where Setup copies the file to.
DestOf(f) == IF f \in SysFiles THEN "drivers" ELSE "inf"

AddedTo(section) ==
  CASE section = "SCSI.Load" ->
         << Body(<<"load", Service, DriverSys[1]>>) >>
    [] section = "SCSI" ->
         << Body(<<"name", Service, DisplayName(given.pack, Service)>>) >>
    [] section = "HardwareIdsDatabase" ->
         [i \in DOMAIN PciPairs |->
            Body(<<"id", PciPairs[i][1], PciPairs[i][2]>>)]
    [] section = "SourceDisksFiles" ->
         [i \in DOMAIN Referenced |->
            Body(<<"file", Referenced[i], DestOf(Referenced[i])>>)]

\* The errors of patch_txtsetup_sif.
Unpatchable ==
  \/ DriverSys = <<>>
  \/ PciPairs = <<>>
  \/ \E i \in DOMAIN Referenced : Referenced[i] \notin SysFiles \cup InfFiles
  \/ \E name \in Required : Named(txtsetup, name) = {}

PatchedTxtsetup ==
  LET at(i) == {s \in Required : TxtsetupAnchor(txtsetup, s) = i}
  IN  Spliced(txtsetup,
        [i \in DOMAIN txtsetup |->
           IF at(i) = {} THEN <<>> ELSE AddedTo(CHOOSE s \in at(i) : TRUE)])

PatchedDosnet ==
  LET Entries == [k \in DOMAIN Referenced |-> Body(<<"d1", Referenced[k]>>)]
  IN  Spliced(dosnet,
        [i \in DOMAIN dosnet |->
           IF i = DosnetAnchor(dosnet) THEN Entries ELSE <<>>])

-----------------------------------------------------------------------------
(***************************************************************************)
(* The steps.                                                              *)
(***************************************************************************)

\* A replacement that fails has redirected the manifest's record to data that
\* was not written, or has done all its work but the sync.
Lost == <<>>

Goto(step) == pc' = step /\ UNCHANGED report

Bail == pc' = "end" /\ report' = "failure"

\* The pack is read, and refused, before the ISO is touched.
ReadPack ==
  /\ pc = "start"
  /\ \/ /\ Referenced # <<>>
        /\ ~Conflicting(Ids)
        /\ Len(Services) = 1
        /\ Goto("append")
     \/ Bail
  /\ UNCHANGED <<given, next, i386, txtsetup, dosnet>>

MissingFileAppended ==
  /\ pc = "append"
  /\ next <= Len(Referenced)
  /\ \/ /\ Referenced[next] \notin i386
        /\ i386' = i386 \cup {Referenced[next]}
        /\ next' = next + 1
        /\ Goto(IF next = Len(Referenced) THEN "txtsetup" ELSE "append")
     \/ /\ Bail
        /\ i386' \in {i386, i386 \cup ({Referenced[next]} \cap given.dir)}
        /\ UNCHANGED next
  /\ UNCHANGED <<given, txtsetup, dosnet>>

LastFileForgotten ==
  /\ pc = "append"
  /\ next <= Len(Referenced)
  /\ \/ /\ Referenced[next] \in given.dir \ i386
        /\ i386' = IF next = Len(Referenced) THEN i386
                   ELSE i386 \cup {Referenced[next]}
        /\ next' = next + 1
        /\ Goto(IF next = Len(Referenced) THEN "txtsetup" ELSE "append")
     \/ /\ Bail
        /\ i386' \in {i386, i386 \cup ({Referenced[next]} \cap given.dir)}
        /\ UNCHANGED next
  /\ UNCHANGED <<given, txtsetup, dosnet>>

\* The next file is found in the pack's directory and appended to I386, which
\* may already have it, or have no room.  An append that fails may leave the
\* record behind.
AppendDriver ==
  /\ pc = "append"
  /\ next <= Len(Referenced)
  /\ \/ /\ Referenced[next] \in given.dir \ i386
        /\ i386' = i386 \cup {Referenced[next]}
        /\ next' = next + 1
        /\ Goto(IF next = Len(Referenced) THEN "txtsetup" ELSE "append")
     \/ /\ Bail
        /\ i386' \in {i386, i386 \cup ({Referenced[next]} \cap given.dir)}
        /\ UNCHANGED next
  /\ UNCHANGED <<given, txtsetup, dosnet>>

\* TXTSETUP.SIF is read from the ISO, patched and replaced.
PatchTxtsetupSif ==
  /\ pc = "txtsetup"
  /\ \/ Bail /\ UNCHANGED txtsetup
     \/ /\ "TXTSETUP.SIF" \in i386
        /\ ~Unpatchable
        /\ \/ txtsetup' = PatchedTxtsetup /\ Goto("dosnet")
           \/ txtsetup' \in {PatchedTxtsetup, Lost} /\ Bail
  /\ UNCHANGED <<given, next, i386, dosnet>>

\* So is DOSNET.INF.
PatchDosnetInf ==
  /\ pc = "dosnet"
  /\ \/ Bail /\ UNCHANGED dosnet
     \/ /\ "DOSNET.INF" \in i386
        /\ Named(dosnet, "Files") # {}
        /\ \/ dosnet' = PatchedDosnet /\ pc' = "end" /\ report' = "success"
           \/ dosnet' \in {PatchedDosnet, Lost} /\ Bail
  /\ UNCHANGED <<given, next, i386, txtsetup>>

Done == pc = "end" /\ UNCHANGED vars

Init ==
  /\ \E family \in Families : given \in family
  /\ pc = "start"
  /\ report = "none"
  /\ next = 1
  /\ i386 = given.holds
  /\ txtsetup = given.txtsetup
  /\ dosnet = given.dosnet

Next ==
  \/ ReadPack
  \/ AppendDriver
  \/ PatchTxtsetupSif
  \/ PatchDosnetInf
  \/ Done

Spec == Init /\ [][Next]_vars

-----------------------------------------------------------------------------
(***************************************************************************)
(* Properties.                                                             *)
(***************************************************************************)

Without(m) == Filtered(m, LAMBDA l : ~IsAdded(l))

Kept(m, original) == Without(m) = original \/ (report = "failure" /\ m = Lost)

\* "Everything else is preserved": taking out what was added leaves the
\* manifest as it was, line by line and in its order.  Only a replacement that
\* failed loses it.
OriginalKept == Kept(txtsetup, given.txtsetup) /\ Kept(dosnet, given.dosnet)

FilesNamed(m) ==
  {m[i].text[IF m[i].text[1] = "load" THEN 3 ELSE 2] :
     i \in {k \in DOMAIN m : IsAdded(m[k])
                             /\ m[k].text[1] \in {"load", "file", "d1"}}}

\* Wherever a burn stops, what its manifests name is in I386: a manifest is
\* patched only when every file it will name has been appended.
PresentBeforeNamed ==
  FilesNamed(txtsetup) \cup FilesNamed(dosnet) \subseteq i386

\* The body lines under one header.
Block(m, h) ==
  {m[i].text : i \in {k \in Bodies(m) :
                        k > h /\ \A g \in Headers(m) : ~(g \in (h + 1)..k)}}

FirstBlock(m, name) == Block(m, Min(Named(m, name)))

\* The second header of a name follows the first with none in between.
Adjoining(m, name) ==
  \E h \in Headers(m) :
    /\ h > Min(Named(m, name))
    /\ \A g \in Headers(m) :
         g \in Min(Named(m, name))..h => m[g] = Header(name)

DriverLines(pack) ==
  ToSet(Filtered(LinesOf(OfKind(pack, "Files")), LAMBDA l : l.key = "driver"))

\* A pack as the vendors ship them: the headers are spelled as in [scsi], one
\* section per controller, every controller declared, every service on a
\* driver line, and a single .sys, on all driver lines.
WellFormed(pack) ==
  /\ \A i \in DOMAIN OfKind(pack, "Files") :
       LET s == OfKind(pack, "Files")[i]
       IN  s.exact /\ s.id \in ToSet(Controllers(pack))
                   /\ Len(FilesOf(pack, s.id)) = 1
  /\ \A i \in DOMAIN HardwareIds(pack) :
       \E l \in DriverLines(pack) : l.extra = HardwareIds(pack)[i][2]
  /\ \A l, k \in DriverLines(pack) : l.value = k.value
  /\ \A f \in ToSet(ReferencedFilenames(pack)) \cap SysFiles :
       \E l \in DriverLines(pack) : l.value = f

\* Its driver lines say the same to collect_services as to everybody else:
\* no comment, no quotes, and `driver' in lower case.
ReadAlike(pack) == \A l \in DriverLines(pack) : l.raw = l.extra

Regular(pack) == WellFormed(pack) /\ ReadAlike(pack)

\* The chain Setup follows, for every PCI id of the pack: the id names a
\* service, the service is loaded from its driver file, the file is copied
\* from where both manifests say it is, and it is there.  Setup reads the
\* first section of a name in TXTSETUP.SIF, the last in DOSNET.INF.
Binds(p) ==
  /\ <<"id", p[1], p[2]>> \in FirstBlock(txtsetup, "HardwareIdsDatabase")
  /\ \E l \in DriverLines(given.pack) :
       /\ l.extra = p[2]
       /\ <<"load", p[2], l.value>> \in FirstBlock(txtsetup, "SCSI.Load")
       /\ <<"file", l.value, "drivers">>
            \in FirstBlock(txtsetup, "SourceDisksFiles")
       /\ <<"d1", l.value>> \in Block(dosnet, Max(Named(dosnet, "Files")))
       /\ l.value \in i386

\* A burn that succeeds with a regular pack gives an install source that
\* binds the driver to every PCI id, without F6.  The exception of adjoining
\* sections is real: the additions go to the end of the last of them.
DriverBinds ==
  /\ report = "success"
  /\ Regular(given.pack)
  /\ \A name \in Required : ~Adjoining(given.txtsetup, name)
  => \A i \in DOMAIN PciPairs : Binds(PciPairs[i])

\* The controllers a file mentions anywhere.
Mentioned(pack) ==
  (ToSet(Controllers(pack)) \cup {pack[i].id : i \in DOMAIN pack}) \ {None}

Reading(pack) ==
  <<ScsiControllers(pack), ReferencedFilenames(pack), HardwareIds(pack)>>

\* Merging two files that mention different controllers loses nothing of
\* either: stripping the controllers of one from the merged file leaves what
\* the other said.  This and the next are about the pack, which no step
\* changes, and so are stated of the states a burn starts in.
MergeSeparates ==
  pc = "start" /\ Mentioned(FloppyOem) \cap Mentioned(given.pack) = {} =>
    LET merged == Combine(FloppyOem, given.pack)
    IN  /\ Reading(StripControllers(merged, Mentioned(given.pack)))
             = Reading(FloppyOem)
        /\ Reading(StripControllers(merged, Mentioned(FloppyOem)))
             = Reading(given.pack)

\* The merged file describes one floppy and one default: no disk is declared
\* twice, unless the pack does ("XP validates every [Disks] entry as a separate
\* OEM source").
OneFloppy ==
  pc = "start" =>
    LET merged == Combine(FloppyOem, given.pack)
    IN  /\ DisksOnce(given.pack) => DisksOnce(merged)
        /\ OfKind(merged, "Defaults") = OfKind(FloppyOem, "Defaults")
=============================================================================
