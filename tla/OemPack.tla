------------------------------- MODULE OemPack -------------------------------
(***************************************************************************)
(* A driver pack's TXTSETUP.OEM, parsed into sections, and what            *)
(* ntxp_txtsetup.rs and collect_services read out of it or make of it.     *)
(*                                                                         *)
(* A section has a kind (the part of its header that is a keyword), the    *)
(* controller its header names, whether the header is spelled to the       *)
(* letter as [Files.scsi.<id>] with the id of [scsi], and its lines.  A    *)
(* line is `key = value, extra', without the field that names the disk;    *)
(* what is missing is None, and a line without a `=' has no key.  Names    *)
(* that differ in case only are the same value.  Lines before the first    *)
(* section are left out, and so are empty lines.                           *)
(*                                                                         *)
(* A comment ends a line and quotes enclose a name for all readers but one *)
(* (scsi_controllers, hardware_ids, referenced_filenames), and for Setup.  *)
(* collect_services reads the text a second time and knows neither, nor    *)
(* another spelling of `driver': what it takes for the service is a field  *)
(* of its own, raw, None if the key is not spelled to the letter.  That    *)
(* the text it searches for headers has none in a comment, and no indented *)
(* ones, is assumed.                                                       *)
(***************************************************************************)
EXTENDS Integers, Sequences, SequencesExt

CONSTANTS
  None,       \* No key, no value, no controller.
  NamedAfter  \* The driver files whose names end in <service>.sys, by service.

\* The elements of s at the places in I, in the order of s.
Chosen(s, I) ==
  LET chosen[n \in 0..Len(s)] ==
        IF n = 0 THEN <<>>
        ELSE IF n \in I THEN Append(chosen[n - 1], s[n])
        ELSE chosen[n - 1]
  IN  chosen[Len(s)]

\* SelectSeq, which is a RECURSIVE definition, as a function.
Filtered(s, Test(_)) == Chosen(s, {i \in DOMAIN s : Test(s[i])})

\* The lines of the sections of a kind, in the order of the file.
LinesOf(sections) ==
  FlattenSeq([i \in DOMAIN sections |-> sections[i].lines])

OfKind(pack, kind) == Filtered(pack, LAMBDA s : s.kind = kind)

FilesOf(pack, id) ==
  Filtered(pack, LAMBDA s : s.kind = "Files" /\ s.id = id)

Keyed(lines) == Filtered(lines, LAMBDA l : l.key # None)

\* A sequence with only the first of equal elements.
Distinct(s) == Chosen(s, {i \in DOMAIN s : \A j \in 1..(i - 1) : s[j] # s[i]})

Values(lines) ==
  Filtered([i \in DOMAIN lines |-> lines[i].value], LAMBDA v : v # None)

-----------------------------------------------------------------------------
(***************************************************************************)
(* What the slipstream reads.                                              *)
(***************************************************************************)

\* referenced_filenames: every file any controller names.
ReferencedFilenames(pack) ==
  Distinct(Values(Keyed(LinesOf(OfKind(pack, "Files")))))

\* hardware_ids: pairs of a hardware id and the service it is for.
IdLines(pack) ==
  Filtered(Keyed(LinesOf(OfKind(pack, "HardwareIds"))),
            LAMBDA l : l.value # None /\ l.extra # None)

HardwareIds(pack) ==
  LET lines == IdLines(pack)
  IN  Distinct([i \in DOMAIN lines |-> <<lines[i].value, lines[i].extra>>])

\* One id for two services is an error.
Conflicting(pairs) ==
  \E i, j \in DOMAIN pairs :
    pairs[i][1] = pairs[j][1] /\ pairs[i][2] # pairs[j][2]

\* The ids [scsi] declares, the first of each.
Declared(pack) ==
  Filtered(Keyed(LinesOf(OfKind(pack, "SCSI"))), LAMBDA l : l.value # None)

Controllers(pack) ==
  LET lines == Declared(pack)
  IN  Distinct([i \in DOMAIN lines |-> lines[i].key])

DisplayOf(pack, id) ==
  Filtered(Declared(pack), LAMBDA l : l.key = id)[1].value

\* The file under a key of a controller's sections: the last one counts.
FileUnder(pack, id, key) ==
  LET files == Values(Filtered(LinesOf(FilesOf(pack, id)),
                                LAMBDA l : l.key = key))
  IN  IF files = <<>> THEN None ELSE Last(files)

\* scsi_controllers: one row per declared controller.
ScsiControllers(pack) ==
  LET ids    == Controllers(pack)
      Row(c) == [id      |-> c, display |-> DisplayOf(pack, c),
                 driver  |-> FileUnder(pack, c, "driver"),
                 inf     |-> FileUnder(pack, c, "inf"),
                 catalog |-> FileUnder(pack, c, "catalog")]
  IN  [i \in DOMAIN ids |-> Row(ids[i])]

\* collect_services reads the text again: of a controller's sections it sees
\* the first whose header is spelled to the letter, and of that the third
\* field of its driver lines, with a comment or quotes that are in it.
ServicesOf(pack, id) ==
  LET seen == Filtered(FilesOf(pack, id), LAMBDA s : s.exact)
  IN  IF seen = <<>> THEN <<>>
      ELSE LET drivers == Filtered(seen[1].lines,
                                    LAMBDA l : l.key = "driver")
           IN  Filtered([i \in DOMAIN drivers |-> drivers[i].raw],
                         LAMBDA s : s # None)

CollectServices(pack) ==
  LET ids == Controllers(pack)
  IN  Distinct(FlattenSeq([i \in DOMAIN ids |-> ServicesOf(pack, ids[i])]))

\* The display name of the first controller that loads <service>.sys, or the
\* service.
DisplayName(pack, service) ==
  LET rows == Filtered(ScsiControllers(pack),
                        LAMBDA r : r.driver \in NamedAfter[service])
  IN  IF rows = <<>> THEN service ELSE rows[1].display

-----------------------------------------------------------------------------
(***************************************************************************)
(* Merging two files and stripping controllers from one.                   *)
(***************************************************************************)

EveryDiskKept(existing, lines) == lines

\* Disk ids the base already declares are dropped: both files describe the
\* same floppy.
NewDisks(existing, lines) ==
  Filtered(lines, LAMBDA l :
    l.key = None \/ \A i \in DOMAIN existing : existing[i].key # l.key)

\* One section of the OEM file joins the base.
Joined(out, sec) ==
  LET at == SelectInSeq(out, LAMBDA s : s.kind = sec.kind)
  IN  IF sec.kind = "Defaults" THEN out
      ELSE IF sec.kind \in {"Disks", "SCSI"} /\ at # 0
        THEN [out EXCEPT ![at].lines =
                @ \o (IF sec.kind = "Disks" THEN NewDisks(@, sec.lines)
                                            ELSE sec.lines)]
        ELSE Append(out, sec)

\* merge: section by section.
Combine(base, oem) ==
  LET merged[n \in 0..Len(oem)] ==
        IF n = 0 THEN base ELSE Joined(merged[n - 1], oem[n])
  IN  merged[Len(oem)]

OnlySectionsDropped(pack, drop) ==
  Filtered(pack, LAMBDA s :
    s.kind \in {"Files", "HardwareIds"} => s.id \notin drop)

\* strip_controllers: the sections of the controllers, and their lines in
\* [scsi].
StripControllers(pack, drop) ==
  LET left == Filtered(pack, LAMBDA s :
                s.kind \in {"Files", "HardwareIds"} => s.id \notin drop)
  IN  [i \in DOMAIN left |->
        IF left[i].kind # "SCSI" THEN left[i]
        ELSE [left[i] EXCEPT !.lines =
               Filtered(@, LAMBDA l : l.key \notin drop)]]
=============================================================================
