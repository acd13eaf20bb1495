----------------------------- MODULE FatFloppy -----------------------------
(***************************************************************************)
(* pipeline/ntxp_floppy.rs: files in the root directory of a FAT12 floppy  *)
(* image held in memory.  Two allocation-table entries share three bytes,  *)
(* so an entry is read and written through the byte arithmetic of the      *)
(* code.  A call runs to its end, or returns an error: one step.           *)
(***************************************************************************)
EXTENDS Integers, Sequences, FiniteSets

CONSTANTS
  Names,          \* DOS names.
  ClusterCount,   \* Data clusters; they are numbered from 2.
  ClusterSize,    \* Bytes per cluster.
  RootEntries,    \* Slots of the root directory.
  FatCopies,      \* Copies of the allocation table.
  MaxSize,        \* Bound: the largest file a call brings, in bytes.
  MaxCalls        \* Bound: how many calls are made.

ASSUME LayoutAssumption ==
  /\ ClusterCount \in 1..4084          \* parse_layout refuses more.
  /\ ClusterSize \in Nat \ {0} /\ RootEntries \in Nat \ {0}
  /\ FatCopies \in Nat \ {0} /\ MaxSize \in Nat /\ MaxCalls \in Nat

VARIABLES
  fat,        \* The bytes of every copy of the allocation table.
  root,       \* The root directory.
  data,       \* The bytes of the data clusters.
  calls,      \* How many calls were made; call k brings bytes stamped k.
  result,     \* Of the last call: "ok", "absent" or "error".
  promised    \* What the calls so far promise to be in which file.

image == <<fat, root, data>>
vars  == <<fat, root, data, calls, result, promised>>

ClusterNumbers == 2..(ClusterCount + 1)
Slots          == 0..(RootEntries - 1)
FatBytes       == 0..(((ClusterCount + 1) * 3) \div 2 + 1)
EOC            == 4095
Pad            == <<0, 0>>

Never   == [kind |-> "never", name |-> "", first |-> 0, size |-> 0]
Deleted == [Never EXCEPT !.kind = "deleted"]
Entry(name, first, size) ==
  [kind |-> "used", name |-> name, first |-> first, size |-> size]

\* The bytes of a file of that size, brought by call k.
Content(k, size) == [i \in 1..size |-> <<k, i>>]

TypeOK ==
  /\ fat \in [1..FatCopies -> [FatBytes -> 0..255]]
  /\ \A s \in Slots :
       root[s] \in {Never, Deleted}
                   \cup {Entry(n, f, z) : n \in Names, f \in ClusterNumbers, z \in 1..MaxSize}
  /\ DOMAIN data = ClusterNumbers
  /\ \A c \in ClusterNumbers : DOMAIN data[c] = 1..ClusterSize
  /\ calls \in 0..MaxCalls
  /\ result \in {"ok", "absent", "error"}
  /\ DOMAIN promised \subseteq Names

-----------------------------------------------------------------------------
(***************************************************************************)
(* The allocation table.                                                   *)
(***************************************************************************)

\* read_fat12, of the first copy.
ReadFat(f, c) ==
  LET at   == (c * 3) \div 2
      pair == f[1][at] + 256 * f[1][at + 1]
  IN IF c % 2 = 0 THEN pair % 4096 ELSE pair \div 16

OddNibbleLost(copy, c, v) ==
  LET at == (c * 3) \div 2
  IN IF c % 2 = 0
     THEN [copy EXCEPT ![at] = v % 256, ![at + 1] = v \div 256]
     ELSE [copy EXCEPT ![at] = ((v % 16) * 16) + (@ % 16), ![at + 1] = v \div 16]

LowNibbleNotMasked(copy, c, v) ==
  LET at == (c * 3) \div 2
  IN IF c % 2 = 0
     THEN [copy EXCEPT ![at] = v % 256, ![at + 1] = (@ \div 16) * 16 + v \div 256]
     ELSE [copy EXCEPT ![at] = (v * 16) + (@ % 16), ![at + 1] = v \div 16]

\* write_fat12_one.
WriteFat(copy, c, v) ==
  LET at == (c * 3) \div 2
  IN IF c % 2 = 0
     THEN [copy EXCEPT ![at] = v % 256, ![at + 1] = (@ \div 16) * 16 + v \div 256]
     ELSE [copy EXCEPT ![at] = ((v % 16) * 16) + (@ % 16), ![at + 1] = v \div 16]

FirstCopyOnly(f, c, v) == [f EXCEPT ![1] = WriteFat(@, c, v)]

\* write_fat12_all.
WriteFatAll(f, c, v) == [k \in 1..FatCopies |-> WriteFat(f[k], c, v)]

\* The entry ends a chain: free, or a mark from 0xff7 up.
Ends(v) == v = 0 \/ v >= EOC - 8

\* The clusters visited from `first', after k steps.  The code gives up after
\* as many steps as there are clusters, and stops at a number outside the data
\* area.
Visited(f, first) ==
  LET visited[k \in 0..ClusterCount] ==
        IF k = 0 THEN (IF first \in ClusterNumbers THEN <<first>> ELSE <<>>)
        ELSE LET seen == visited[k - 1]
                 next == ReadFat(f, seen[Len(seen)])
             IN IF seen = <<>> \/ Len(seen) < k THEN seen
                ELSE IF Ends(next) \/ next \notin ClusterNumbers THEN seen
                ELSE Append(seen, next)
  IN visited

ChainFrom(f, first) == Visited(f, first)[ClusterCount]

\* The tables that come of writing values[i] for cluster chain[i], one behind
\* the other.
Tables(f, chain, values) ==
  LET table[i \in 0..Len(chain)] ==
        IF i = 0 THEN f ELSE WriteFatAll(table[i - 1], chain[i], values[i])
  IN table

Written(f, chain, values) == Tables(f, chain, values)[Len(chain)]

OnlyHeadFreed(f, first) == WriteFatAll(f, first, 0)

\* free_cluster_chain.
Freed(f, first) ==
  LET chain == ChainFrom(f, first)
  IN Written(f, chain, [i \in 1..Len(chain) |-> 0])

-----------------------------------------------------------------------------
(***************************************************************************)
(* The root directory.                                                     *)
(***************************************************************************)

\* find_root_entry stops at the first slot that was never used.
Searched == {s \in Slots : \A t \in 0..s : root[t].kind # "never"}
SlotsOf(name) == {s \in Searched : root[s].kind = "used" /\ root[s].name = name}
Present(name) == SlotsOf(name) # {}
SlotOf(name)  == CHOOSE s \in SlotsOf(name) : \A t \in SlotsOf(name) : s <= t

\* find_free_root_slot.
FreeSlots(r) == {s \in Slots : r[s].kind # "used"}
FreeSlot(r)  == CHOOSE s \in FreeSlots(r) : \A t \in FreeSlots(r) : s <= t

\* read_file: the clusters one behind the other, up to the size of the file or
\* the end of the chain.
ReadFile(name) ==
  LET e     == root[SlotOf(name)]
      chain == ChainFrom(fat, e.first)
      there == Len(chain) * ClusterSize
  IN [k \in 1..(IF there < e.size THEN there ELSE e.size) |->
        data[chain[((k - 1) \div ClusterSize) + 1]][((k - 1) % ClusterSize) + 1]]

-----------------------------------------------------------------------------
(***************************************************************************)
(* The calls.                                                              *)
(***************************************************************************)

NeededClusters(size) == (size + ClusterSize - 1) \div ClusterSize

\* The free clusters found up to cluster n + 1.
Found(f) ==
  LET found[n \in 0..ClusterCount] ==
        IF n = 0 THEN <<>>
        ELSE IF ReadFat(f, n + 1) = 0 THEN Append(found[n - 1], n + 1)
        ELSE found[n - 1]
  IN found

FreeClusters(f) == Found(f)[ClusterCount]

\* allocate_clusters: the lowest free clusters, chained.
Chained(f, chain) ==
  Written(f, chain,
          [i \in 1..Len(chain) |-> IF i = Len(chain) THEN EOC ELSE chain[i + 1]])

\* write_file_data: the last cluster is padded with zeros.
Filled(chain, bytes) ==
  [c \in ClusterNumbers |->
     IF \E i \in 1..Len(chain) : chain[i] = c
     THEN LET i == CHOOSE j \in 1..Len(chain) : chain[j] = c
          IN [k \in 1..ClusterSize |->
                LET at == (i - 1) * ClusterSize + k
                IN IF at <= Len(bytes) THEN bytes[at] ELSE Pad]
     ELSE data[c]]

\* add_file on table f and directory r, once the name is known to be free.
Added(f, r, name, size) ==
  /\ size > 0
  /\ FreeSlots(r) # {}
  /\ Len(FreeClusters(f)) >= NeededClusters(size)
  /\ LET chain == SubSeq(FreeClusters(f), 1, NeededClusters(size))
     IN /\ fat'  = Chained(f, chain)
        /\ data' = Filled(chain, Content(calls', size))
        /\ root' = [r EXCEPT ![FreeSlot(r)] = Entry(name, chain[1], size)]

\* What add_file refuses.
CannotAdd(f, r, size) ==
  \/ size = 0
  \/ FreeSlots(r) = {}
  \/ Len(FreeClusters(f)) < NeededClusters(size)

Called == calls < MaxCalls /\ calls' = calls + 1

Promise(name, size) ==
  promised' = [n \in DOMAIN promised \cup {name} |->
                 IF n = name THEN Content(calls', size) ELSE promised[n]]

Forget(name) == promised' = [n \in DOMAIN promised \ {name} |-> promised[n]]

AddFile(name, size) ==
  /\ Called
  /\ \/ /\ ~Present(name)
        /\ Added(fat, root, name, size)
        /\ Promise(name, size)
        /\ result' = "ok"
     \/ /\ Present(name) \/ CannotAdd(fat, root, size)
        /\ result' = "error"
        /\ UNCHANGED <<image, promised>>

\* remove_file on the table and the directory.
FatWithout(name)  == Freed(fat, root[SlotOf(name)].first)
RootWithout(name) == [root EXCEPT ![SlotOf(name)] = Deleted]

RemoveFile(name) ==
  /\ Called
  /\ \/ /\ Present(name)
        /\ fat' = FatWithout(name)
        /\ root' = RootWithout(name)
        /\ Forget(name)
        /\ result' = "ok"
     \/ /\ ~Present(name)
        /\ result' = "absent"
        /\ UNCHANGED <<fat, root, promised>>
  /\ UNCHANGED data

\* replace_file removes first: when the new contents do not fit, the old file
\* is gone and the call returns an error.
ReplaceFile(name, size) ==
  /\ Called
  /\ LET f == IF Present(name) THEN FatWithout(name) ELSE fat
         r == IF Present(name) THEN RootWithout(name) ELSE root
     IN \/ Added(f, r, name, size) /\ Promise(name, size) /\ result' = "ok"
        \/ /\ CannotAdd(f, r, size)
           /\ fat' = f /\ root' = r /\ UNCHANGED data
           /\ Forget(name)
           /\ result' = "error"

Done == calls = MaxCalls /\ UNCHANGED vars

Init ==
  /\ fat = [k \in 1..FatCopies |-> [b \in FatBytes |-> 0]]
  /\ root = [s \in Slots |-> Never]
  /\ data = [c \in ClusterNumbers |-> [k \in 1..ClusterSize |-> Pad]]
  /\ calls = 0
  /\ result = "ok"
  /\ promised = <<>>

Next ==
  \/ \E name \in Names : RemoveFile(name)
  \/ \E name \in Names, size \in 0..MaxSize : AddFile(name, size)
  \/ \E name \in Names, size \in 0..MaxSize : ReplaceFile(name, size)
  \/ Done

Spec == Init /\ [][Next]_vars

-----------------------------------------------------------------------------
(***************************************************************************)
(* Properties.                                                             *)
(***************************************************************************)

Used == {s \in Slots : root[s].kind = "used"}
ChainOf(s) == ChainFrom(fat, root[s].first)
ClustersOf(s) == {ChainOf(s)[i] : i \in 1..Len(ChainOf(s))}

\* No call damages another's file: every file reads back as it was last
\* written, through byte-sharing table entries and reused clusters and slots.
FilesReadBack ==
  /\ {n \in Names : Present(n)} = DOMAIN promised
  /\ \A n \in DOMAIN promised : ReadFile(n) = promised[n]

\* The allocation table is exact: chains are as long as their files, disjoint
\* and terminated, and no cluster is lost.
TableExact ==
  /\ \A s \in Used : /\ Len(ChainOf(s)) = NeededClusters(root[s].size)
                     /\ Cardinality(ClustersOf(s)) = Len(ChainOf(s))
                     /\ ReadFat(fat, ChainOf(s)[Len(ChainOf(s))]) = EOC
  /\ \A s, t \in Used : s # t => ClustersOf(s) \cap ClustersOf(t) = {}
  /\ \A c \in ClusterNumbers :
       ReadFat(fat, c) # 0 => \E s \in Used : c \in ClustersOf(s)

\* Setup may read any copy of the table: they never differ.
CopiesAgree == \A k \in 1..FatCopies : fat[k] = fat[1]
=============================================================================
