------------------------------- MODULE ExFat -------------------------------
(***************************************************************************)
(* The exFAT half of kernel/fs_fat32.c: exfat_write_file_path and           *)
(* exfat_ensure_dir_path as the sequences of writes they are.  A directory  *)
(* cluster is a row of 32-byte cells; a file or directory is a set of cells *)
(* in one cluster: a FILE cell, a STREAM cell with the first cluster and    *)
(* the size, and NAME cells.  A data cluster holds one chunk.  The cluster  *)
(* allocator looks for free clusters in the FAT and keeps the bitmap in     *)
(* step with it.  Every step is one write, so every state of a call is a    *)
(* state the volume can be left in when power is lost; what a later call    *)
(* makes of a volume torn that way is not asked here.                       *)
(***************************************************************************)
EXTENDS Integers, Sequences, FiniteSets

CONSTANTS
  NClus,       \* exfat_cluster_count
  Cells,       \* cells in a cluster
  RootClus,    \* root_clus
  SysCells,    \* cells of the root directory for bitmap, up-case table, label
  Comp,        \* path components as the caller spells them
  Upper,       \* what a component is compared as, [Comp -> ...]
  NameCells,   \* NAME cells a component needs, 15 characters in each
  Chunk,       \* a cluster's worth of file data
  Stale,       \* what a free cluster held before
  Reserved,    \* clusters of the bitmap and the up-case table
  FilePaths, DirPaths, Contents,   \* what the kernel passes
  HostFile,    \* an empty file that a host has left in the root directory
  NoAck        \* the history variable's "nothing is promised"

Cluster == 2 .. NClus + 1
EOC     == NClus + 2
Cell    == [t : {"end", "sys", "file", "stream", "name", "data"}, name : Comp \cup Chunk \cup {NoAck},
            dir : BOOLEAN, clus : {0} \cup Cluster, n : Nat]
\* The first k components of path p, as they are compared.
Upto(p, k) == [m \in 1 .. k |-> Upper[p[m]]]
Upper1(p) == Upto(p, Len(p))
UPaths  == {Upper1(p) : p \in FilePaths}
UNames  == {Upper[c] : c \in Comp}
\* The directories the calls make on the way, and at the end of a mkdir.
DirUps  == {Upper1(q) : q \in DirPaths} \cup
             UNION {{Upto(q, k) : k \in 1 .. Len(q) - 1} : q \in FilePaths \cup DirPaths}

ASSUME GeometryAssumption ==
  /\ NClus \in Nat /\ NClus >= 2 /\ Cells \in Nat /\ SysCells \in 0 .. Cells
  /\ RootClus \in Cluster /\ Reserved \subseteq Cluster \ {RootClus}
  /\ NameCells \in [Comp -> Nat \ {0}] /\ \A c \in Comp : NameCells[c] + 2 <= Cells
  /\ HostFile \in Comp /\ SysCells + NameCells[HostFile] + 2 <= Cells /\ NoAck \notin Comp
  /\ FilePaths \cup DirPaths \subseteq Seq(Comp) \ {<<>>} /\ Contents \subseteq Seq(Chunk)
  /\ Stale \in [0 .. Cells - 1 -> Cell]

\* exfat_find_in_dir maps a name to upper case character by character, so
\* that names it takes for equal are equally long.
ASSUME CaseKeepsLength ==
  \A c, d \in Comp : Upper[c] = Upper[d] => NameCells[c] = NameCells[d]

\* No file is written where a directory is: exfat_write_file_path does not
\* look at what it overwrites.
ASSUME FilesAreNotDirectories ==
  UPaths \cap DirUps \subseteq {<<Upper[HostFile]>>}

VARIABLES
  fat, bitmap, cont,       \* the FAT, the bitmap, what each cluster holds
  pc, call, path, comp, data,
  dir_cl, cl,              \* directory being worked on, cluster the walk is at
  loc,                     \* where the entry was found: <<cluster, cell>>
  kind,                    \* what the clusters are for: "dir", "new" or "old" file
  first, prev, new_cl,     \* the chain being built
  i,                       \* clusters, or cells of the set, done so far
  acked,                   \* history: what each path was last written with
  leaked,                  \* history: a failed call has left clusters allocated
  dirs, home               \* history: the clusters that are directories, and of which path

tree  == <<cont, dirs, home>>
disk  == <<fat, bitmap, tree>>
frame == <<call, path, comp, data, dir_cl, cl, loc, kind, first, prev, new_cl, i>>
vars  == <<disk, pc, frame, leaked, acked>>

---------------------------------------------------------------------------
(* Entry sets.                                                             *)

End    == [t |-> "end", name |-> NoAck, dir |-> FALSE, clus |-> 0, n |-> 0]
Zeroed == [j \in 0 .. Cells - 1 |-> End]
\* File data, as the row of cells it is when read as a directory.
Raw(x)   == [j \in 0 .. Cells - 1 |-> [End EXCEPT !.t = "data", !.name = x]]
Total(c) == 2 + NameCells[c]

\* exfat_build_entry_set: cell j of the set for component c.
SetCell(c, isdir, clus, size, j) ==
  CASE j = 0 -> [End EXCEPT !.t = "file", !.dir = isdir, !.n = Total(c) - 1]
    [] j = 1 -> [End EXCEPT !.t = "stream", !.clus = clus, !.n = size]
    [] OTHER -> [End EXCEPT !.t = "name", !.name = c, !.n = j - 1]

\* Cell j of row r starts a set that exfat_collect_entries and
\* exfat_parse_file_set accept; its name is what its NAME cells hold.
IsSet(r, j) == /\ r[j].t = "file" /\ j + r[j].n < Cells /\ r[j + 1].t = "stream"
               /\ \A k \in 2 .. r[j].n : r[j + k].t = "name" /\ r[j + k].n = k - 1
                                          /\ r[j + k].name = r[j + 2].name
SetName(r, j) == Upper[r[j + 2].name]

Ends(r)       == {j \in 0 .. Cells - 1 : r[j].t = "end"}
\* The sets of row r that exfat_find_in_dir comes by before the end.
Visible(r)    == {j \in 0 .. Cells - 1 : IsSet(r, j) /\ \A k \in 0 .. j : r[k].t # "end"}
Hits(r, name) == {j \in Visible(r) : SetName(r, j) = name}
Least(S)      == CHOOSE x \in S : \A y \in S : x <= y

Wanted == Upper[path[comp]]
More   == comp < Len(path)
FreeClusters == {c \in 2 .. NClus - 1 : fat[c] = 0}

---------------------------------------------------------------------------
Goto(l) == pc' = l /\ UNCHANGED acked

Reset == /\ pc' = "idle" /\ call' = "mkdir" /\ path' = <<>> /\ comp' = 1 /\ data' = <<>>
         /\ dir_cl' = RootClus /\ cl' = RootClus /\ loc' = <<RootClus, 0>> /\ kind' = "dir"
         /\ first' = 0 /\ prev' = 0 /\ new_cl' = 0 /\ i' = 0
\* The call returns; a write that returns 0 promises its data.
Return(ok) ==
  /\ Reset
  /\ leaked' = (leaked \/ (~ok /\ pc = "xalloc" /\ first # 0))
  /\ acked' = IF ok /\ call = "write" THEN [acked EXCEPT ![Upper1(path)] = data] ELSE acked
Fail == Return(FALSE) /\ UNCHANGED disk

\* A formatted volume with one empty file.
RootRow ==
  [j \in 0 .. Cells - 1 |->
     IF j < SysCells THEN [End EXCEPT !.t = "sys"]
     ELSE IF j < SysCells + Total(HostFile) THEN SetCell(HostFile, FALSE, 0, 0, j - SysCells)
     ELSE End]

Init ==
  /\ fat = [c \in Cluster |-> IF c \in Reserved \cup {RootClus} THEN EOC ELSE 0]
  /\ bitmap = Reserved \cup {RootClus} /\ cont = [c \in Cluster |-> IF c = RootClus THEN RootRow ELSE Stale]
  /\ pc = "idle" /\ call = "mkdir" /\ path = <<>> /\ comp = 1 /\ data = <<>>
  /\ dir_cl = RootClus /\ cl = RootClus /\ loc = <<RootClus, 0>> /\ kind = "dir"
  /\ first = 0 /\ prev = 0 /\ new_cl = 0 /\ i = 0
  /\ leaked = FALSE /\ dirs = {RootClus} /\ home = [c \in Cluster |-> <<>>]
  /\ acked = [p \in UPaths |-> NoAck]

Begin(c, p, d) ==
  /\ pc = "idle"
  /\ call' = c /\ path' = p /\ comp' = 1 /\ data' = IF c = "mkdir" THEN <<>> ELSE d
  /\ dir_cl' = RootClus /\ cl' = RootClus /\ pc' = "find"
  /\ UNCHANGED leaked
  /\ acked' = IF c = "mkdir" THEN acked ELSE [acked EXCEPT ![Upper1(p)] = NoAck]
  /\ UNCHANGED <<disk, loc, kind, first, prev, new_cl, i>>

---------------------------------------------------------------------------
(* exfat_find_in_dir and what its callers do with the result.              *)

\* Clusters are wanted for purpose k.
Allocate(k) == /\ kind' = k /\ first' = 0 /\ prev' = 0 /\ i' = 0
               /\ UNCHANGED <<disk, leaked, call, path, comp, data, dir_cl, cl, new_cl>>

Descend(c) == /\ comp' = comp + 1 /\ dir_cl' = c /\ cl' = c /\ Goto("find")
              /\ UNCHANGED <<disk, leaked, call, path, data, loc, kind, first, prev, new_cl, i>>

\* A matching set is in this cluster.
Found ==
  /\ pc = "find" /\ Hits(cont[cl], Wanted) # {}
  /\ LET j == Least(Hits(cont[cl], Wanted))
         e == cont[cl][j]
     IN  \/ e.dir /\ More /\ Descend(cont[cl][j + 1].clus)
         \/ e.dir /\ ~More /\ call = "mkdir" /\ Return(TRUE) /\ UNCHANGED disk
         \/ ~e.dir /\ (More \/ call = "mkdir") /\ Fail
         \/ /\ ~More /\ call = "write" /\ loc' = <<cl, j>>
            /\ Goto(IF data = <<>> THEN "free" ELSE "alloc") /\ Allocate("old")

\* None is, and no end either: the next cluster.
FindNext ==
  /\ pc = "find" /\ Hits(cont[cl], Wanted) = {} /\ Ends(cont[cl]) = {} /\ fat[cl] # EOC
  /\ cl' = fat[cl] /\ Goto("find")
  /\ UNCHANGED <<disk, leaked, call, path, comp, data, dir_cl, loc, kind, first, prev, new_cl, i>>

\* The directory ends without one: exfat_create_entry.
NotFound ==
  /\ pc = "find" /\ Hits(cont[cl], Wanted) = {} /\ (Ends(cont[cl]) # {} \/ fat[cl] = EOC)
  /\ LET k == IF More \/ call = "mkdir" THEN "dir" ELSE "new" IN
       /\ Goto(IF k = "new" /\ data = <<>> THEN "slot" ELSE "alloc")
       /\ kind' = k /\ first' = 0 /\ prev' = 0 /\ i' = 0 /\ cl' = dir_cl
  /\ UNCHANGED <<disk, leaked, call, path, comp, data, dir_cl, loc, new_cl>>

---------------------------------------------------------------------------
(* exfat_alloc_chain_for_size and exfat_alloc_cluster.                     *)

Need == IF kind = "dir" THEN 1 ELSE Len(data)

Alloc ==
  /\ pc = "alloc" /\ FreeClusters # {}
  /\ new_cl' = Least(FreeClusters) /\ fat' = [fat EXCEPT ![Least(FreeClusters)] = EOC]
  /\ Goto("mark") /\ UNCHANGED <<bitmap, tree, leaked, call, path, comp, data, dir_cl, cl, loc, kind, first, prev, i>>

\* Nothing free: the chain so far is given back.
AllocFail ==
  /\ pc = "alloc" /\ FreeClusters = {}
  /\ \/ first = 0 /\ Fail
     \/ /\ first # 0 /\ cl' = first /\ Goto("undo")
        /\ UNCHANGED <<disk, leaked, call, path, comp, data, dir_cl, loc, kind, first, prev, new_cl, i>>

\* exfat_mark_bitmap, then the link from the cluster before.
Mark ==
  /\ pc = "mark" /\ bitmap' = bitmap \cup {new_cl} /\ Goto("link")
  /\ UNCHANGED <<fat, tree, leaked, frame>>

\* Mutant: the clusters of a chain are not linked.
LinkMissing ==
  /\ pc = "link" /\ UNCHANGED fat
  /\ first' = IF first = 0 THEN new_cl ELSE first
  /\ prev' = new_cl /\ i' = IF i + 1 < Need THEN i + 1 ELSE 0
  /\ cl' = IF i + 1 < Need THEN cl ELSE IF first = 0 THEN new_cl ELSE first
  /\ Goto(IF i + 1 < Need THEN "alloc" ELSE "data")
  /\ UNCHANGED <<bitmap, tree, leaked, call, path, comp, data, dir_cl, loc, kind, new_cl>>

Link ==
  /\ pc = "link"
  /\ fat' = IF prev = 0 THEN fat ELSE [fat EXCEPT ![prev] = new_cl]
  /\ first' = IF first = 0 THEN new_cl ELSE first
  /\ prev' = new_cl /\ i' = IF i + 1 < Need THEN i + 1 ELSE 0
  /\ cl' = IF i + 1 < Need THEN cl ELSE IF first = 0 THEN new_cl ELSE first
  /\ Goto(IF i + 1 < Need THEN "alloc" ELSE "data")
  /\ UNCHANGED <<bitmap, tree, leaked, call, path, comp, data, dir_cl, loc, kind, new_cl>>

\* exfat_write_chain, or exfat_zero_cluster for a directory.
WriteChain ==
  /\ pc = "data"
  /\ cont' = [cont EXCEPT ![cl] = IF kind = "dir" THEN Zeroed ELSE Raw(data[i + 1])]
  /\ dirs' = IF kind = "dir" THEN dirs \cup {cl} ELSE dirs
  /\ home' = IF kind = "dir" THEN [home EXCEPT ![cl] = Upto(path, comp)] ELSE home
  /\ IF fat[cl] # EOC /\ i + 1 < Need
       THEN cl' = fat[cl] /\ i' = i + 1 /\ Goto("data")
       ELSE cl' = dir_cl /\ i' = 0 /\ Goto(IF kind = "old" THEN "free" ELSE "slot")
  /\ UNCHANGED <<fat, bitmap, leaked, call, path, comp, data, dir_cl, loc, kind, first, prev, new_cl>>

---------------------------------------------------------------------------
(* exfat_free_chain: of the old chain when a file is overwritten, of the   *)
(* new one when there is not enough room for it.                           *)

OldCluster == cont[loc[1]][loc[2] + 1].clus

\* Mutant: the old chain is forgotten.
FreeStartSkip ==
  /\ pc = "free" /\ i' = 0 /\ Goto("set")
  /\ UNCHANGED <<disk, leaked, call, path, comp, data, dir_cl, cl, loc, kind, first, prev, new_cl>>

FreeStart ==
  /\ pc = "free" /\ i' = 0
  /\ IF OldCluster = 0 THEN Goto("set") /\ UNCHANGED cl
                       ELSE Goto("unchain") /\ cl' = OldCluster
  /\ UNCHANGED <<disk, leaked, call, path, comp, data, dir_cl, loc, kind, first, prev, new_cl>>

\* The FAT entry is cleared; the cluster after it is remembered in prev.
FreeCluster(l) ==
  /\ pc = l /\ prev' = fat[cl] /\ fat' = [fat EXCEPT ![cl] = 0]
  /\ Goto(IF l = "undo" THEN "undo_bit" ELSE "unchain_bit")
  /\ UNCHANGED <<bitmap, tree, leaked, call, path, comp, data, dir_cl, cl, loc, kind, first, new_cl, i>>

\* Mutant: the bitmap keeps the bits of a chain that is freed.
FreeBitKept(l) ==
  /\ pc = l /\ UNCHANGED <<fat, bitmap, tree>>
  /\ IF prev \notin {0, EOC} THEN cl' = prev /\ Goto(IF l = "undo_bit" THEN "undo" ELSE "unchain")
                        /\ UNCHANGED <<leaked, call, path, comp, data, dir_cl, loc, kind, first, prev, new_cl, i>>
     ELSE IF l = "undo_bit" THEN Return(FALSE)
     ELSE Goto("set") /\ UNCHANGED <<leaked, frame>>

FreeBit(l) ==
  /\ pc = l /\ bitmap' = bitmap \ {cl} /\ UNCHANGED <<fat, tree>>
  /\ IF prev \notin {0, EOC} THEN cl' = prev /\ Goto(IF l = "undo_bit" THEN "undo" ELSE "unchain")
                        /\ UNCHANGED <<leaked, call, path, comp, data, dir_cl, loc, kind, first, prev, new_cl, i>>
     ELSE IF l = "undo_bit" THEN Return(FALSE)
     ELSE Goto("set") /\ UNCHANGED <<leaked, frame>>

---------------------------------------------------------------------------
(* exfat_find_free_set, and the extension of a directory.                  *)

\* Cells of row r from which the set fits before the end of the cluster.
Room(r) == {j \in Ends(r) : Cells - j >= Total(path[comp])}

Slot ==
  /\ pc = "slot" /\ Room(cont[cl]) # {}
  /\ loc' = <<cl, Least(Room(cont[cl]))>> /\ i' = 0 /\ Goto("set")
  /\ UNCHANGED <<disk, leaked, call, path, comp, data, dir_cl, cl, kind, first, prev, new_cl>>

\* Mutant: the search for room starts over instead of going on.
SlotNextRestart ==
  /\ pc = "slot" /\ Room(cont[cl]) = {}
  /\ IF fat[cl] # EOC THEN cl' = dir_cl /\ Goto("slot") ELSE Goto("xalloc") /\ UNCHANGED cl
  /\ UNCHANGED <<disk, leaked, call, path, comp, data, dir_cl, loc, kind, first, prev, new_cl, i>>

SlotNext ==
  /\ pc = "slot" /\ Room(cont[cl]) = {}
  /\ IF fat[cl] # EOC THEN cl' = fat[cl] /\ Goto("slot") ELSE Goto("xalloc") /\ UNCHANGED cl
  /\ UNCHANGED <<disk, leaked, call, path, comp, data, dir_cl, loc, kind, first, prev, new_cl, i>>

\* No cluster for the directory: the call fails and the chain that was
\* allocated for the file is not given back.
ExtendFail == pc = "xalloc" /\ FreeClusters = {} /\ Fail

ExtendAlloc ==
  /\ pc = "xalloc" /\ FreeClusters # {}
  /\ new_cl' = Least(FreeClusters) /\ fat' = [fat EXCEPT ![Least(FreeClusters)] = EOC]
  /\ Goto("xmark")
  /\ UNCHANGED <<bitmap, tree, leaked, call, path, comp, data, dir_cl, cl, loc, kind, first, prev, i>>

ExtendMark ==
  /\ pc = "xmark" /\ bitmap' = bitmap \cup {new_cl} /\ Goto("xlink")
  /\ UNCHANGED <<fat, tree, leaked, frame>>

\* The new cluster is linked before it is cleared.
ExtendLink ==
  /\ pc = "xlink" /\ fat' = [fat EXCEPT ![cl] = new_cl] /\ Goto("xzero")
  /\ UNCHANGED <<bitmap, tree, leaked, frame>>

ExtendZero ==
  /\ pc = "xzero" /\ cont' = [cont EXCEPT ![new_cl] = Zeroed]
  /\ dirs' = dirs \cup {new_cl} /\ home' = [home EXCEPT ![new_cl] = home[cl]]
  /\ loc' = <<new_cl, 0>> /\ i' = 0 /\ Goto("set")
  /\ UNCHANGED <<fat, bitmap, leaked, call, path, comp, data, dir_cl, cl, kind, first, prev, new_cl>>

\* exfat_write_entry_set, one cell at a time.  The set of an old file is
\* written over the one that was found.
WriteSet ==
  /\ pc = "set" /\ UNCHANGED <<fat, bitmap, dirs, home>>
  /\ cont' = [cont EXCEPT ![loc[1]][loc[2] + i] =
                SetCell(path[comp], kind = "dir", first, IF kind = "dir" THEN 0 ELSE Len(data), i)]
  /\ IF i + 1 < Total(path[comp])
       THEN i' = i + 1 /\ Goto("set")
            /\ UNCHANGED <<leaked, call, path, comp, data, dir_cl, cl, loc, kind, first, prev, new_cl>>
     ELSE IF More
       THEN comp' = comp + 1 /\ dir_cl' = first /\ cl' = first /\ Goto("find")
            /\ UNCHANGED <<leaked, call, path, data, loc, kind, first, prev, new_cl, i>>
       ELSE Return(TRUE)

CallStep ==
  \/ Found \/ FindNext \/ NotFound
  \/ Alloc \/ AllocFail \/ Mark \/ Link \/ WriteChain
  \/ FreeStart \/ (\E l \in {"unchain", "undo"} : FreeCluster(l))
  \/ (\E l \in {"unchain_bit", "undo_bit"} : FreeBit(l))
  \/ Slot \/ SlotNext \/ ExtendFail \/ ExtendAlloc \/ ExtendMark \/ ExtendLink \/ ExtendZero
  \/ WriteSet

Next ==
  \/ \E p \in FilePaths, d \in Contents : Begin("write", p, d)
  \/ \E p \in DirPaths : Begin("mkdir", p, <<>>)
  \/ CallStep

\* A call in progress goes on: the driver only polls.
Spec == Init /\ [][Next]_vars /\ WF_vars(CallStep)

---------------------------------------------------------------------------
\* Types: in particular the walks stay within the volume.
ExTypeOK ==
  /\ fat \in [Cluster -> {0, EOC} \cup Cluster] /\ bitmap \subseteq Cluster
  /\ cont \in [Cluster -> [0 .. Cells - 1 -> Cell]]
  /\ dirs \subseteq Cluster /\ home \in [Cluster -> Seq(UNames)]
  /\ call \in {"write", "mkdir"} /\ path \in FilePaths \cup DirPaths \cup {<<>>}
  /\ comp \in 1 .. Len(path) + 1 /\ data \in Contents \cup {<<>>}
  /\ {dir_cl, cl} \subseteq Cluster /\ loc \in Cluster \X (0 .. Cells - 1)
  /\ kind \in {"dir", "new", "old"} /\ {first, new_cl} \subseteq {0} \cup Cluster
  /\ prev \in {0, EOC} \cup Cluster /\ i \in 0 .. Cells + Len(data)
  /\ acked \in [UPaths -> Contents \cup {<<>>, NoAck}] /\ leaked \in BOOLEAN

\* The bitmap agrees with the FAT except between the two writes of an
\* allocation or of a release, exfat_mark_bitmap being the second.
BitmapAgrees ==
  LET used == {c \in Cluster : fat[c] # 0} IN
  CASE pc \in {"mark", "xmark"} -> bitmap = used \ {new_cl}
    [] pc \in {"undo_bit", "unchain_bit"} -> bitmap = used \cup {cl}
    [] OTHER -> bitmap = used

(* What holds the volume together.                                         *)

\* The cells that start a set in some directory.  A set that is being added
\* is not there before its last cell is.
Partial == IF pc = "set" /\ kind # "old" THEN {loc} ELSE {}
Entries == {e \in dirs \X (0 .. Cells - 1) : cont[e[1]][e[2]].t = "file"} \ Partial
ClusOf(e) == IF e[2] + 1 < Cells THEN cont[e[1]][e[2] + 1].clus ELSE 0
\* The set of a file that is being overwritten names the old chain until it
\* is written, after that chain was freed.
Changing == IF pc \in {"unchain", "unchain_bit", "set"} /\ kind = "old" THEN {loc} ELSE {}
\* The first cluster of every entry that has one.
Owners  == {e \in Entries \ Changing : ClusOf(e) # 0}
own     == [e \in Owners |-> ClusOf(e)]
System  == Reserved \cup {RootClus}

\* Nothing leads to cluster c, with FAT f and entries that start at o.
Loose(f, o, c) == /\ \A b \in Cluster : f[b] # c
                  /\ \A e \in DOMAIN o : o[e] # c
                  /\ c \notin System

\* No cluster has two owners: it follows one cluster at most in a chain, or
\* is the first of one file or directory, or of the system, never two of
\* these.
OneOwner(f, o) ==
  /\ \A a, b \in Cluster : f[a] = f[b] /\ f[a] \in Cluster => a = b
  /\ \A d, e \in DOMAIN o : o[d] = o[e] => d = e
  /\ \A a \in Cluster, e \in DOMAIN o : f[a] # o[e]
  /\ \A c \in System : (\A a \in Cluster : f[a] # c) /\ \A e \in DOMAIN o : o[e] # c

\* Nothing that is in use is free: chains, files, directories and the system
\* consist of allocated clusters.
InUse(f, o, ds) ==
  /\ \A a \in Cluster : f[a] \in Cluster => f[f[a]] # 0
  /\ \A e \in DOMAIN o : f[o[e]] # 0
  /\ \A c \in ds \cup System : f[c] # 0

\* Nothing that is allocated is lost but the clusters in hand.
NoneLost(f, o, hand) == \A c \in Cluster : f[c] # 0 /\ Loose(f, o, c) => c \in hand

\* Chains do not lead from a directory to another, to a file or back, but
\* for the cluster that follows x.
KindKept(f, ds, h, x) ==
  \A a \in Cluster \ x : f[a] \in Cluster =>
    (a \in ds <=> f[a] \in ds) /\ (a \in ds => h[f[a]] = h[a])

\* The chain that is being built, and the one that is being freed.
InHand ==
  CASE pc \in {"alloc", "data", "free", "slot", "xalloc", "xzero", "set"} -> {first}
    [] pc \in {"mark", "link", "xmark", "xlink"} -> {first, new_cl}
    [] pc = "unchain" -> {first, cl}
    [] pc = "unchain_bit" -> {first, prev}
    [] pc = "undo" -> {cl}
    [] pc = "undo_bit" -> {prev}
    [] OTHER -> {}

\* Row r has a whole set at cell j; its names agree up to case.
Whole(r, j) ==
  /\ j + 2 < Cells /\ r[j + 2].name \in Comp
  /\ r[j].n = Total(r[j + 2].name) - 1 /\ j + r[j].n < Cells /\ r[j + 1].t = "stream"
  /\ \A k \in 2 .. r[j].n : /\ r[j + k].t = "name" /\ r[j + k].n = k - 1 /\ r[j + k].name \in Comp
                             /\ Upper[r[j + k].name] = Upper[r[j + 2].name]

\* The directories: each belongs to a path that some call makes.
DirsSound ==
  /\ RootClus \in dirs /\ dirs \cap Reserved = {} /\ home[RootClus] = <<>>
  /\ \A c \in dirs : home[c] \in DirUps \cup {<<>>}

\* An entry is whole, and says that it is a directory exactly if its cluster
\* is one, the directory of that name.
EntriesSound ==
  \A e \in Entries :
    LET r == cont[e[1]] IN
    /\ Whole(r, e[2])
    /\ r[e[2]].dir <=> ClusOf(e) \in dirs
    /\ r[e[2]].dir => home[ClusOf(e)] = Append(home[e[1]], SetName(r, e[2]))
    /\ ~(pc = "set" /\ e = loc) => IsSet(r, e[2])

\* In each cluster of a directory, nothing lies behind the first END cell,
\* and the set the host has left stays what it was.
RowsSound ==
  /\ \A c \in dirs : \A j, k \in 0 .. Cells - 1 :
       j < k /\ cont[c][j].t = "end" => cont[c][k].t = "end"
  /\ \A j \in 0 .. SysCells - 1 : cont[RootClus][j].t = "sys"
  /\ <<RootClus, SysCells>> \in Entries /\ ~cont[RootClus][SysCells].dir
  /\ SetName(cont[RootClus], SysCells) = Upper[HostFile]

\* The volume is one that a check of the file system would pass: after every
\* single write of exfat_write_file_path and exfat_ensure_dir_path no cluster
\* has two owners, nothing in use is free, nothing allocated is lost but by
\* a directory that could not be extended, a chain never leads out of a
\* directory but to the cluster that is linked to it before it is cleared,
\* and no directory is written over.
ExVolumeSafe ==
  /\ ExTypeOK /\ BitmapAgrees
  /\ OneOwner(fat, own) /\ InUse(fat, own, dirs) /\ (leaked \/ NoneLost(fat, own, InHand))
  /\ KindKept(fat, dirs, home, IF pc = "xzero" THEN {cl} ELSE {})
  /\ DirsSound /\ EntriesSound /\ RowsSound

---------------------------------------------------------------------------
(* What a call knows of the volume while it is under way.                  *)

\* What the clusters are for, once that is known.
Chosen   == {"alloc", "mark", "link", "data", "free", "unchain", "unchain_bit", "undo", "undo_bit",
             "slot", "xalloc", "xmark", "xlink", "xzero", "set"}
Growing  == {"alloc", "mark", "link"}
Placing  == {"slot", "xalloc", "xmark", "xlink", "xzero"}
Freeing  == {"free", "unchain", "unchain_bit"}
Undoing  == {"undo", "undo_bit"}

\* Nothing leads to c, which is allocated and no directory.
Fresh(c) == c \in Cluster /\ Loose(fat, own, c) /\ fat[c] # 0 /\ c \notin dirs

\* The call and the directory it is at.
CallOK ==
  /\ pc \in Chosen \cup {"idle", "find"}
  /\ pc = "idle" => i = 0
  /\ pc # "idle" =>
       /\ path \in (IF call = "write" THEN FilePaths ELSE DirPaths) /\ comp \in 1 .. Len(path)
       /\ dir_cl \in dirs /\ home[dir_cl] = Upto(path, comp - 1)
  /\ pc \in Placing \cup {"find"} => cl \in dirs /\ home[cl] = home[dir_cl]
  /\ pc = "find" /\ comp = 1 /\ Wanted = Upper[HostFile] => cl = RootClus
  /\ pc \in Chosen => (kind = "dir" <=> More \/ call = "mkdir")
  /\ pc \in Placing => kind # "old"
  /\ pc \in Freeing => kind = "old"
  /\ pc \in Undoing => kind # "dir"

\* An old file was found: its set is at loc.
FoundOK ==
  pc \in Chosen /\ kind = "old" =>
    /\ loc \in Entries /\ ~cont[loc[1]][loc[2]].dir
    /\ SetName(cont[loc[1]], loc[2]) = Wanted

\* The set that is being written.
Cell0(k) == SetCell(path[comp], kind = "dir", first, IF kind = "dir" THEN 0 ELSE Len(data), k)
SetOK ==
  pc = "set" =>
    /\ loc[1] \in dirs /\ loc[2] + Total(path[comp]) <= Cells /\ i < Total(path[comp])
    /\ \A k \in 0 .. i - 1 : cont[loc[1]][loc[2] + k] = Cell0(k)
    /\ kind # "old" => /\ home[loc[1]] = home[dir_cl]
                       /\ \A j \in 0 .. Cells - 1 : cont[loc[1]][j].t = "end" <=> j >= loc[2] + i

\* The chain that is being built.
ChainOK ==
  /\ pc \in Growing \cup {"data"} =>
       /\ i < Need /\ (first = 0 <=> prev = 0) /\ (first # 0 => Fresh(first))
  /\ pc \in Growing =>
       /\ kind = "dir" => first = 0
       /\ prev # 0 => prev \in Cluster \ dirs /\ fat[prev] = EOC
  /\ pc \in {"mark", "link", "xmark", "xlink"} => Fresh(new_cl) /\ fat[new_cl] = EOC /\ new_cl # first
  /\ pc \in {"mark", "link"} => new_cl # prev
  /\ pc = "data" =>
       /\ first # 0 /\ cl \notin dirs /\ fat[cl] # 0
       /\ kind = "dir" => cl = first /\ fat[cl] = EOC
  /\ pc \in Placing \cup Freeing \cup {"set"} =>
       /\ first # 0 => Loose(fat, own, first) /\ fat[first] # 0
       /\ kind = "dir" <=> first \in dirs
       /\ kind = "dir" => home[first] = Upto(path, comp)
  /\ pc \in {"xalloc", "xmark", "xlink"} => fat[cl] = EOC
  /\ pc = "xzero" => fat[cl] = new_cl /\ new_cl \in Cluster \ dirs /\ fat[new_cl] = EOC

\* The chain that is being freed.
FreeOK ==
  /\ pc \in {"unchain", "undo"} => Fresh(cl)
  /\ pc \in {"unchain", "unchain_bit"} => i = 0
  /\ pc = "unchain" => cl # first
  /\ pc \in {"unchain_bit", "undo_bit"} => fat[cl] = 0 /\ (prev \notin {0, EOC} => Fresh(prev))
  /\ pc = "unchain_bit" /\ prev \notin {0, EOC} => prev # first

\* The inductive invariant: the volume is sound, and the call in progress
\* works on clusters that nothing else leads to.
ExInv == ExVolumeSafe /\ CallOK /\ FoundOK /\ SetOK /\ ChainOK /\ FreeOK

---------------------------------------------------------------------------
\* Every call on the driver returns: no walk runs in a circle.
ExCallsReturn == pc # "idle" ~> pc = "idle"
===========================================================================
