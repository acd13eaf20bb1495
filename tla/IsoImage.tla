------------------------------ MODULE IsoImage ------------------------------
(***************************************************************************)
(* pipeline/ntxp_iso.rs: editing the staged ISO in place.  A file is added *)
(* to I386, or given new contents, by a sequence of writes to the file     *)
(* system of the stick: the directory first, its recorded lengths, the     *)
(* data behind everything else, the volume size last.  Between any two of  *)
(* them the tool may die or get an error; it then never touches this image *)
(* again (the next run copies the ISO anew).                               *)
(*                                                                         *)
(* Names are numbers in the order of iso_sort_key.  The directory is kept  *)
(* as its records in their order; their byte positions follow from their   *)
(* lengths.  Data is counted in sectors.                                   *)
(***************************************************************************)
EXTENDS Integers, Sequences, FiniteSets, Functions

CONSTANTS
  Names,          \* File names in I386.
  RecordLen,      \* The length of a directory record, by name.
  Sector,         \* Bytes per sector.
  DotLen,         \* The length of the records "." and ".." together.
  MaxSize,        \* Bound: the largest file a call brings, in sectors.
  MaxCalls        \* Bound: how many calls are made.

ASSUME DirectoryAssumption ==
  /\ Names \subseteq Nat /\ IsFiniteSet(Names)
  /\ Sector \in Nat \ {0} /\ DotLen \in 0..Sector
  /\ RecordLen \in [Names -> 1..Sector]
  /\ MaxSize \in Nat \ {0} /\ MaxCalls \in Nat

VARIABLES
  pc,             \* The write the tool is about to make, "idle", "dead" or "torn".
  dir,            \* The records of I386 behind "." and "..".
  rootLen,        \* The length of I386 in the root directory.
  selfLen,        \* The length of I386 in its own "." record.
  extent,         \* The bytes the ISO was mastered with for I386; behind them
                  \* are the sectors of other files.
  data,           \* The sectors of the image, by their address.
  volume,         \* The volume size in the primary volume descriptor.
  call,           \* The call being made: name, size, address, new directory.
  calls,          \* How many calls were made; call k brings contents k.
  promised        \* Which contents the completed calls promise in which file.

dirVars == <<dir, rootLen, selfLen, extent>>
vars    == <<pc, dirVars, data, volume, call, calls, promised>>

Record(name, at, size) == [name |-> name, at |-> at, size |-> size]
NoCall == [name |-> 0, size |-> 0, at |-> 0, records |-> <<>>, len |-> 0]

-----------------------------------------------------------------------------
(***************************************************************************)
(* The layout of a directory.                                              *)
(***************************************************************************)

RoundUp(n) == ((n + Sector - 1) \div Sector) * Sector

\* A record does not cross a sector boundary.
StartOf(pos, record) ==
  IF (pos % Sector) + RecordLen[record.name] > Sector THEN RoundUp(pos) ELSE pos

EndOf(pos, record) == StartOf(pos, record) + RecordLen[record.name]

\* Where each record ends, one laid out behind the other.
Ends(records) ==
  LET end[i \in 0..Len(records)] ==
        IF i = 0 THEN DotLen ELSE EndOf(end[i - 1], records[i])
  IN  end

LayoutEnd(records) == Ends(records)[Len(records)]

\* rewrite_directory_with_added_record sorts what is behind the dot entries.
Rearranged(records) ==
  LET orders == Bijection(1..Len(records), 1..Len(records))
  IN  {[i \in 1..Len(records) |-> records[p[i]]] : p \in orders}

Sorted(records) ==
  CHOOSE s \in Rearranged(records) :
    \A i, j \in 1..Len(s) : i < j => s[i].name <= s[j].name

\* read_directory_records, up to the length in the root directory: the records
\* it finds, and whether that length cuts one in two.
Visible ==
  SubSeq(dir, 1, Cardinality({i \in 1..Len(dir) : Ends(dir)[i] <= rootLen}))
Cut ==
  \E i \in 1..Len(dir) :
    StartOf(Ends(dir)[i - 1], dir[i]) < rootLen /\ Ends(dir)[i] > rootLen

Find(name) == {i \in 1..Len(Visible) : Visible[i].name = name}

\* read_file_from_i386; an address behind the end of the image is an error.
Contents(record) ==
  IF record.at + record.size <= Len(data)
  THEN SubSeq(data, record.at + 1, record.at + record.size)
  ELSE <<>>

\* Contents k of that size.
Fresh(k, size) == [i \in 1..size |-> <<k, i>>]

-----------------------------------------------------------------------------
(***************************************************************************)
(* The calls.                                                              *)
(***************************************************************************)

Called(name, size, records, next) ==
  /\ call' = [name |-> name, size |-> size, at |-> Len(data),
              records |-> records, len |-> LayoutEnd(records)]
  /\ pc' = next
  /\ UNCHANGED <<dirVars, data, volume, promised>>

Refused == UNCHANGED <<pc, dirVars, data, volume, call, promised>>

RoomUnchecked(records) == TRUE

\* The new records fit the sectors the directory has.
Fits(records) == LayoutEnd(records) <= RoundUp(rootLen)

ZeroLengthAppended(name, size) ==
  /\ pc = "idle" /\ calls < MaxCalls /\ calls' = calls + 1
  /\ LET records == Sorted(Append(Visible, Record(name, Len(data), size)))
     IN IF Find(name) # {} \/ ~Fits(records) THEN Refused
        ELSE Called(name, size, records, "directory")

\* append_file_into_i386: everything is refused before the first write.
AppendFile(name, size) ==
  /\ pc = "idle" /\ calls < MaxCalls /\ calls' = calls + 1
  /\ LET records == Sorted(Append(Visible, Record(name, Len(data), size)))
     IN IF size = 0 \/ Find(name) # {} \/ ~Fits(records) THEN Refused
        ELSE Called(name, size, records, "directory")

\* replace_file_into_i386: the record is redirected in place.
ReplaceFile(name, size) ==
  /\ pc = "idle" /\ calls < MaxCalls /\ calls' = calls + 1
  /\ IF size = 0 \/ Find(name) = {} THEN Refused
     ELSE LET i == CHOOSE j \in Find(name) : TRUE
          IN Called(name, size,
                    [Visible EXCEPT ![i] = Record(name, Len(data), size)], "record")

WriteDirectory ==
  /\ pc = "directory"
  /\ dir' = call.records
  /\ pc' = "root-length"
  /\ UNCHANGED <<rootLen, selfLen, extent, data, volume, call, calls, promised>>

WriteRootLength ==
  /\ pc = "root-length"
  /\ rootLen' = call.len
  /\ pc' = "self-length"
  /\ UNCHANGED <<dir, selfLen, extent, data, volume, call, calls, promised>>

WriteSelfLength ==
  /\ pc = "self-length"
  /\ selfLen' = call.len
  /\ pc' = "data"
  /\ UNCHANGED <<dir, rootLen, extent, data, volume, call, calls, promised>>

RecordNotRedirected ==
  /\ pc = "record"
  /\ pc' = "data"
  /\ UNCHANGED <<dirVars, data, volume, call, calls, promised>>

\* The address and the size of the record.
WriteRecord ==
  /\ pc = "record"
  /\ dir' = call.records
  /\ pc' = "data"
  /\ UNCHANGED <<rootLen, selfLen, extent, data, volume, call, calls, promised>>

DataOverLastSector ==
  /\ pc = "data"
  /\ data' = SubSeq(data, 1, call.at - 1) \o Fresh(calls, call.size + 1)
  /\ pc' = "volume"
  /\ UNCHANGED <<dirVars, volume, call, calls, promised>>

\* write_file_contents_at_end.
WriteData ==
  /\ pc = "data"
  /\ data' = data \o Fresh(calls, call.size)
  /\ pc' = "volume"
  /\ UNCHANGED <<dirVars, volume, call, calls, promised>>

\* The volume size, and the sync after it.
WriteVolumeSize ==
  /\ pc = "volume"
  /\ volume' = Len(data)
  /\ pc' = "idle"
  /\ promised' = [n \in DOMAIN promised \cup {call.name} |->
                    IF n = call.name THEN Fresh(calls, call.size) ELSE promised[n]]
  /\ call' = NoCall
  /\ UNCHANGED <<dirVars, data, calls>>

\* A write fails, or the tool dies.  What it was writing may be there in part:
\* the directory as a mixture of old and new sectors, or under its old length
\* ("torn"); the address of the record without its size; the first part of the
\* data.
Dies ==
  /\ pc \notin {"idle", "dead", "torn"}
  /\ pc' \in IF pc = "directory" THEN {"dead", "torn"}
            ELSE IF pc = "root-length" THEN {"torn"} ELSE {"dead"}
  /\ \/ UNCHANGED <<dirVars, data>>
     \/ /\ pc = "record"
        /\ dir' = [i \in 1..Len(dir) |-> [dir[i] EXCEPT !.at = call.records[i].at]]
        /\ UNCHANGED <<rootLen, selfLen, extent, data>>
     \/ /\ pc = "data"
        /\ \E n \in 1..call.size : data' = data \o Fresh(calls, n)
        /\ UNCHANGED dirVars
  /\ UNCHANGED <<volume, call, calls, promised>>

Done ==
  /\ \/ pc \in {"dead", "torn"}
     \/ pc = "idle" /\ calls = MaxCalls
  /\ UNCHANGED vars

\* An original ISO: sorted, its directory padded to whole sectors, one sector
\* of data per file.
Init ==
  \E count \in 0..Cardinality(Names) : \E names \in [1..count -> Names] :
    /\ \A i, j \in 1..count : i < j => names[i] < names[j]
    /\ dir = [i \in 1..count |-> Record(names[i], i - 1, 1)]
    /\ rootLen = RoundUp(LayoutEnd(dir))
    /\ selfLen = rootLen
    /\ extent = rootLen
    /\ data = [i \in 1..count |-> <<0, names[i]>>]
    /\ volume = Len(data)
    /\ promised = [n \in {names[i] : i \in 1..count} |-> <<<<0, n>>>>]
    /\ pc = "idle"
    /\ call = NoCall
    /\ calls = 0

Next ==
  \/ \E name \in Names, size \in 0..MaxSize : AppendFile(name, size)
  \/ \E name \in Names, size \in 0..MaxSize : ReplaceFile(name, size)
  \/ WriteDirectory \/ WriteRootLength \/ WriteSelfLength
  \/ WriteRecord \/ WriteData \/ WriteVolumeSize
  \/ Dies \/ Done

Spec == Init /\ [][Next]_vars

-----------------------------------------------------------------------------
(***************************************************************************)
(* Properties.                                                             *)
(***************************************************************************)

Writes == {"directory", "root-length", "self-length", "record", "data", "volume"}

\* No call gets to a write without contents to write.
TypeOK ==
  /\ pc \in {"idle", "dead", "torn"} \cup Writes
  /\ dir \in Seq([name : Names, at : Nat, size : 1..MaxSize])
  /\ rootLen \in Nat /\ selfLen \in Nat /\ extent \in Nat /\ volume \in Nat
  /\ calls \in 0..MaxCalls
  /\ pc \in Writes => call.name \in Names /\ call.size \in 1..MaxSize
  /\ DOMAIN promised \subseteq Names

\* After any sequence of calls the directory is what Setup needs: strictly
\* sorted, inside the sectors it was mastered with, of the same length in both
\* records the code updates, and the volume covers the image.
DirectorySound ==
  pc = "idle" =>
    /\ \A i, j \in 1..Len(dir) : i < j => dir[i].name < dir[j].name
    /\ Visible = dir /\ ~Cut
    /\ LayoutEnd(dir) <= rootLen /\ RoundUp(rootLen) = extent
    /\ selfLen = rootLen
    /\ volume = Len(data)

\* After any sequence of calls every file reads back as it was last written.
FilesReadBack ==
  pc = "idle" =>
    /\ {dir[i].name : i \in 1..Len(dir)} = DOMAIN promised
    /\ \A i \in 1..Len(dir) : Contents(dir[i]) = promised[dir[i].name]

\* Even where a call dies half-way, the files it was not about keep their
\* records and their contents; what it may lose is its own file.  The one window
\* is the rewrite of the directory, up to its new length in the root.
OthersSurvive ==
  pc \notin {"root-length", "torn"} =>
    \A n \in DOMAIN promised \ {call.name} :
      \E i \in 1..Len(Visible) :
        Visible[i].name = n /\ Contents(Visible[i]) = promised[n]
=============================================================================
