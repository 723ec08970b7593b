------------------------------- MODULE Fat32 -------------------------------
(***************************************************************************)
(* The FAT32 half of kernel/fs_fat32.c: the calls that change the volume    *)
(* (fat32_write_file_path, fat32_ensure_dir_path, and fat32_write_file_root *)
(* with fat32_create_file_root, which only it calls) as the sequences of    *)
(* sector reads and writes they are.  Every step ends with at most one      *)
(* sector write, so that a power loss, a failed read or a failed write can  *)
(* fall between any two of them; a write that fails leaves its sector as it *)
(* was.                                                                     *)
(*                                                                          *)
(* A sector is a row of 32-byte cells.  A cell is a directory entry, a slot *)
(* that was never used (first byte 0x00) or was deleted (0xE5), or a piece  *)
(* of file data.  Lengths are counted in sectors: the driver pads the last  *)
(* sector of a write with zeroes and a read is cut at the file size.        *)
(***************************************************************************)
EXTENDS Integers, Sequences, FiniteSets

CONSTANTS
  NClus,        \* (tot_sec32 - first_data_lba) / sec_per_clus
  Spc,          \* sec_per_clus
  Slots,        \* cells in a sector, bytes_per_sec / 32
  RootClus,     \* root_clus
  Comp,         \* path components as the caller spells them
  Name,         \* 11-byte directory names
  Chunk,        \* what one sector of file data holds
  make_name83,  \* the 8.3 name of a component (upper case, cut to 8 and 3)
  END, DEL,     \* first name byte 0x00 and 0xE5
  DOT, DOTDOT,  \* the names ".          " and "..         "
  NoAck,        \* the history variable's "nothing is promised"
  Images,       \* volumes a host can have prepared, with the files on them
  Paths,        \* paths the kernel passes (an empty one does nothing)
  Contents,     \* data the kernel passes
  Calls,        \* which calls the kernel makes
  MaxReadFaults, MaxWriteFaults, MaxPowerLoss

Cluster == 2 .. NClus + 1
EOC     == NClus + 2               \* any value is_end_cluster() accepts
FatVal  == {0} \cup Cluster \cup {EOC}
Pos     == (0 .. Spc - 1) \X (0 .. Slots - 1)
CellName == Name \cup Chunk \cup {END, DEL, DOT, DOTDOT}
Cell    == [name : CellName, attr : {"file", "dir", "lfn", "raw"},
            clus : {0} \cup Cluster, size : Nat]
Sector  == [0 .. Slots - 1 -> Cell]
AllCalls == {"write", "mkdir", "write_root"}

NamesOf(p) == [i \in 1 .. Len(p) |-> make_name83[p[i]]]
NamePaths  == {NamesOf(p) : p \in Paths}

VARIABLES
  fat,          \* the FAT, [Cluster -> FatVal]
  sect,         \* the data area, [Cluster -> sectors]
  pc,           \* where the call in progress is
  call,         \* which call it is
  path,         \* its path after make_name83
  comp,         \* the component it is at
  data,         \* its data, one chunk per sector
  dir_cl,       \* the directory being searched
  cl,           \* the cluster the walk over a chain is at
  found,        \* did dir_find_entry find the component
  at,           \* where it found it: <<cluster, <<sector, slot>>>>
  target_cl,    \* the cluster being filled
  s,            \* the next sector of it to write
  rfaults, wfaults, losses,   \* faults and power losses still to come
  dirs,         \* history: clusters that are part of a directory
  home,         \* history: which directory, and which cluster of it, each is
  acked         \* history: what each path was last successfully written with

disk  == <<fat, sect, dirs, home>>
frame == <<call, path, comp, data, dir_cl, cl, found, at, target_cl, s>>
fault == <<rfaults, wfaults, losses>>
vars  == <<disk, pc, frame, fault, acked>>

---------------------------------------------------------------------------
(* Cells, and what is on the volume.                                       *)

Free(name) == [name |-> name, attr |-> "file", clus |-> 0, size |-> 0]
Zeroes  == [o \in 0 .. Slots - 1 |-> Free(END)]
Raw(chunk) == [o \in 0 .. Slots - 1 |->
                         [name |-> chunk, attr |-> "raw", clus |-> 0, size |-> 0]]
Entry(n, a, c, sz) == [name |-> n, attr |-> a, clus |-> c, size |-> sz]

At(se, c, p) == se[c][p[1]][p[2]]
Fill(se, c, i, row) == [se EXCEPT ![c][i] = row]
Put(se, c, p, e) == [se EXCEPT ![c][p[1]][p[2]] = e]

\* A cell of a directory that names a file or a subdirectory.
LiveCell(e) == e.attr \in {"file", "dir"} /\ e.name \in Name

Before(p, q) == p[1] < q[1] \/ (p[1] = q[1] /\ p[2] < q[2])
First(S)     == CHOOSE p \in S : \A q \in S : p = q \/ Before(p, q)

\* Mutant: a deleted entry ends the search too.
StopsAtDeleted(c, n) == {p \in Pos : \/ At(sect, c, p).name \in {END, DEL}
                                     \/ /\ At(sect, c, p).name = n
                                        /\ At(sect, c, p).attr # "lfn"}
\* Cells of cluster c at which dir_find_entry stops looking for name n.
Stops(c, n) == {p \in Pos : \/ At(sect, c, p).name = END
                            \/ /\ At(sect, c, p).name = n
                               /\ At(sect, c, p).attr # "lfn"}
\* Cells of cluster c that dir_find_free_slot takes.
FreeSlots(c) == {p \in Pos : At(sect, c, p).name \in {END, DEL}}
\* Clusters fat_alloc_free_cluster finds free: it scans 2 .. NClus - 1.
FreeClusters == {c \in 2 .. NClus - 1 : fat[c] = 0}

Wanted  == path[comp]
More    == comp < Len(path)
NewSize == IF Len(data) < Spc THEN Len(data) ELSE Spc
DirOf(c) == IF c = 0 THEN RootClus ELSE c

---------------------------------------------------------------------------
(* The shape of a sound volume.                                            *)

\* The root and whatever a directory links to or names as a directory is
\* part of a directory, files stay outside, and no file data is in there.
DirsSeparate(f, se, ds) ==
  /\ RootClus \in ds
  /\ \A c \in ds : \A p \in Pos : At(se, c, p).attr # "raw"
  /\ \A c \in Cluster : f[c] \in Cluster => (c \in ds <=> f[c] \in ds)
  /\ \A c \in ds : \A p \in Pos : LiveCell(At(se, c, p)) =>
       IF At(se, c, p).attr = "dir" THEN At(se, c, p).clus \in ds
                                    ELSE At(se, c, p).clus \notin ds

\* Nothing that is referenced is free.
ReferencedAllocated(f, se, ds) ==
  /\ \A c \in ds : f[c] # 0
  /\ \A c \in Cluster : f[c] \in Cluster => f[f[c]] # 0
  /\ \A c \in ds : \A p \in Pos :
       LiveCell(At(se, c, p)) /\ At(se, c, p).clus # 0 => f[At(se, c, p).clus] # 0

\* No cluster has two owners, where an owner is a directory entry or the
\* FAT link of another cluster; the root directory has none.
OneOwner(f, se, ds) ==
  /\ \A c, d \in Cluster : f[c] = f[d] /\ f[c] \in Cluster => c = d
  /\ \A c \in Cluster : f[c] # RootClus
  /\ \A c, d \in ds : \A p, q \in Pos :
       LiveCell(At(se, c, p)) /\ LiveCell(At(se, d, q)) /\ At(se, c, p).clus # 0
       /\ At(se, c, p).clus = At(se, d, q).clus => c = d /\ p = q
  /\ \A c \in ds : \A p \in Pos : LiveCell(At(se, c, p)) =>
       /\ At(se, c, p).clus # RootClus
       /\ \A d \in Cluster : f[d] = At(se, c, p).clus => At(se, c, p).clus = 0

\* A subdirectory starts with its own "." entry.
DotsInPlace(se, ds) ==
  \A c \in ds : \A p \in Pos :
    LiveCell(At(se, c, p)) /\ At(se, c, p).attr = "dir" =>
      /\ At(se, At(se, c, p).clus, <<0, 0>>).name = DOT
      /\ At(se, At(se, c, p).clus, <<0, 0>>).clus = At(se, c, p).clus

---------------------------------------------------------------------------
(* The tree of names.                                                      *)

\* A cluster of a directory: the directory's first cluster, the number of
\* the cluster in the chain and the path of the directory.
Place(t, n, p) == [top |-> t, nr |-> n, path |-> p]
Places == [top : Cluster, nr : Nat, path : Seq(Name)]

\* The clusters of a directory are one chain.
Chained(f, ds, h) ==
  /\ h[RootClus] = Place(RootClus, 0, <<>>)
  /\ \A c \in ds :
       /\ h[c].top \in ds /\ h[h[c].top] = Place(h[c].top, 0, h[c].path)
       /\ f[c] \in Cluster => h[f[c]] = Place(h[c].top, h[c].nr + 1, h[c].path)
  /\ \A c, d \in ds : h[c].top = h[d].top =>
       (h[c].nr = h[d].nr => c = d) /\ (h[c].nr < h[d].nr => f[c] \in Cluster)

\* Every directory but the root has an entry in the one above it, and a path
\* leads to one directory only.
TreeWhole(se, ds, h) ==
  /\ \A c \in ds : \A p \in Pos : LiveCell(At(se, c, p)) /\ At(se, c, p).attr = "dir" =>
       h[At(se, c, p).clus] = Place(At(se, c, p).clus, 0, Append(h[c].path, At(se, c, p).name))
  /\ \A c \in ds : h[c].path # <<>> => \E d \in ds : \E p \in Pos :
       LiveCell(At(se, d, p)) /\ At(se, d, p).attr = "dir" /\ At(se, d, p).clus = h[c].top
  /\ \A c, d \in ds : h[c].path = h[d].path => h[c].top = h[d].top

\* No directory has two entries of one name.
NamesOnce(se, ds, h) ==
  \A c, d \in ds : \A p, q \in Pos :
    LiveCell(At(se, c, p)) /\ LiveCell(At(se, d, q)) /\ At(se, c, p).name = At(se, d, q).name
    /\ h[c].top = h[d].top => c = d /\ p = q

\* Behind an END cell there are only END cells.
EndsLast(se, ds, h) ==
  \A c, d \in ds : \A p, q \in Pos :
    At(se, c, p).name = END /\ h[c].top = h[d].top /\ (h[c].nr < h[d].nr \/ (c = d /\ Before(p, q)))
    => At(se, d, q).name = END

\* Path p leads to a file that holds x, as far as its first cluster goes.
Stored(se, ds, h, p, x) ==
  \E c \in ds : \E k \in Pos :
    /\ LiveCell(At(se, c, k)) /\ At(se, c, k).attr = "file" /\ Append(h[c].path, At(se, c, k).name) = p
    /\ At(se, c, k).clus # 0 /\ At(se, c, k).size = Len(x)
    /\ \A i \in 0 .. Spc - 1 : i < Len(x) => se[At(se, c, k).clus][i] = Raw(x[i + 1])

Tree(f, se, ds, h) == Chained(f, ds, h) /\ TreeWhole(se, ds, h) /\ NamesOnce(se, ds, h) /\ EndsLast(se, ds, h)

Image == [fat : [Cluster -> FatVal], sect : [Cluster -> [0 .. Spc - 1 -> Sector]],
          dirs : SUBSET Cluster, home : [Cluster -> Places],
          files : [NamePaths -> Seq(Chunk) \cup {NoAck}]]

Sound(f, se, ds) ==
  DirsSeparate(f, se, ds) /\ ReferencedAllocated(f, se, ds) /\ OneOwner(f, se, ds) /\ DotsInPlace(se, ds)

ASSUME GeometryAssumption ==
  /\ NClus \in Nat /\ NClus >= 2 /\ Spc \in Nat \ {0} /\ Slots \in Nat /\ Slots >= 2
  /\ RootClus \in Cluster
  /\ {MaxReadFaults, MaxWriteFaults, MaxPowerLoss} \subseteq Nat
ASSUME NamesAssumption ==
  /\ make_name83 \in [Comp -> Name]
  /\ {END, DEL, DOT, DOTDOT} \cap (Name \cup Chunk) = {}
  /\ END # DEL /\ END # DOT /\ END # DOTDOT /\ DEL # DOT /\ DEL # DOTDOT /\ DOT # DOTDOT
ASSUME ImagesAssumption == \A im \in Images : im \in Image /\ Sound(im.fat, im.sect, im.dirs)
\* A host's directories form a tree, each ends with its first END cell, and
\* the files are what they are said to be.
ASSUME HostAssumption ==
  \A im \in Images :
    /\ Tree(im.fat, im.sect, im.dirs, im.home)
    /\ \A p \in NamePaths : im.files[p] # NoAck => Stored(im.sect, im.dirs, im.home, p, im.files[p])
ASSUME InputsAssumption ==
  /\ Paths \subseteq Seq(Comp) \ {<<>>} /\ Contents \subseteq Seq(Chunk)
  /\ Calls \subseteq AllCalls

---------------------------------------------------------------------------
(* Pieces the steps are made of.                                           *)

ReadFault  == rfaults > 0 /\ rfaults' = rfaults - 1 /\ UNCHANGED <<wfaults, losses>>
WriteFault == wfaults > 0 /\ wfaults' = wfaults - 1 /\ UNCHANGED <<rfaults, losses>>
NoFault    == UNCHANGED fault

\* The call goes on at label l.
Goto(l) == pc' = l /\ UNCHANGED acked

\* A call returns and its locals are gone.  Callers only tell 0 from an
\* error; a write that returns 0 promises its data (cut to one cluster).
Return(ok) ==
  /\ pc' = "idle"
  /\ acked' = IF ok /\ call # "mkdir"
                THEN [acked EXCEPT ![path] = SubSeq(data, 1, NewSize)] ELSE acked
  /\ call' = "mkdir" /\ path' = <<>> /\ comp' = 1 /\ data' = <<>>
  /\ dir_cl' = RootClus /\ cl' = RootClus /\ found' = FALSE
  /\ at' = <<RootClus, <<0, 0>>>> /\ target_cl' = RootClus /\ s' = 0
Fail == Return(FALSE) /\ UNCHANGED disk

Init ==
  /\ \E im \in Images : /\ fat = im.fat /\ sect = im.sect /\ dirs = im.dirs
                         /\ home = im.home /\ acked = im.files
  /\ pc = "idle" /\ call = "mkdir" /\ path = <<>> /\ comp = 1 /\ data = <<>>
  /\ dir_cl = RootClus /\ cl = RootClus /\ found = FALSE
  /\ at = <<RootClus, <<0, 0>>>> /\ target_cl = RootClus /\ s = 0
  /\ rfaults = MaxReadFaults /\ wfaults = MaxWriteFaults /\ losses = MaxPowerLoss

\* fat32_write_file_root does not look at ATTR_DIR: a precondition of it.
NamesNoDir(n) == \A c \in dirs : \A p \in Pos :
  LiveCell(At(sect, c, p)) /\ At(sect, c, p).name = n => At(sect, c, p).attr = "file"

\* A call is made; it has not promised anything about its path yet.
Begin(c, p, d) ==
  /\ pc = "idle"
  /\ c = "write_root" => Len(p) = 1 /\ NamesNoDir(NamesOf(p)[1])
  /\ call' = c /\ path' = NamesOf(p) /\ comp' = 1
  /\ data' = IF c = "mkdir" THEN <<>> ELSE d
  /\ dir_cl' = RootClus /\ cl' = RootClus /\ found' = FALSE
  /\ pc' = IF c = "mkdir" THEN "efind" ELSE "find"
  /\ acked' = IF c = "mkdir" THEN acked ELSE [acked EXCEPT ![NamesOf(p)] = NoAck]
  /\ UNCHANGED <<disk, fault, at, target_cl, s>>

---------------------------------------------------------------------------
(* dir_find_entry, one cluster of the directory per step.                  *)

\* The label that follows the search started at label l.
AfterFind == [find |-> "decide", efind |-> "edecide"]

\* An END cell or the entry itself is in this cluster.
FindStop(l) ==
  /\ pc = l /\ Stops(cl, Wanted) # {}
  /\ LET p == First(Stops(cl, Wanted)) IN
       /\ found' = (At(sect, cl, p).name = Wanted)
       /\ at' = IF At(sect, cl, p).name = Wanted THEN <<cl, p>> ELSE at
  /\ Goto(AfterFind[l]) /\ NoFault
  /\ UNCHANGED <<disk, call, path, comp, data, dir_cl, cl, target_cl, s>>

\* Mutant: the walk starts over instead of going on.
FindNextRestart(l) ==
  /\ pc = l /\ Stops(cl, Wanted) = {} /\ NoFault
  /\ \/ /\ fat[cl] \in Cluster /\ cl' = dir_cl /\ Goto(l) /\ UNCHANGED found
     \/ fat[cl] = EOC /\ found' = FALSE /\ Goto(AfterFind[l]) /\ UNCHANGED cl
  /\ UNCHANGED <<disk, call, path, comp, data, dir_cl, at, target_cl, s>>

\* It is not: on to the next cluster of the chain, or not found at its end.
FindNext(l) ==
  /\ pc = l /\ Stops(cl, Wanted) = {} /\ NoFault
  /\ \/ /\ fat[cl] \in Cluster /\ cl' = fat[cl] /\ Goto(l)
        /\ UNCHANGED <<disk, call, path, comp, data, dir_cl, found, at, target_cl, s>>
     \/ /\ fat[cl] = EOC /\ found' = FALSE /\ Goto(AfterFind[l])
        /\ UNCHANGED <<disk, call, path, comp, data, dir_cl, cl, at, target_cl, s>>

\* A sector cannot be read.  In the directory: dir_find_entry returns -1,
\* which its callers take for "not found" (fat32_write_file_root returns).
\* In the FAT: fat_read_fat_entry answers end of chain.
FindReadFault(l) ==
  /\ pc = l /\ ReadFault
  /\ \/ call = "write_root" /\ Fail
     \/ /\ call # "write_root" \/ Stops(cl, Wanted) = {}
        /\ found' = FALSE /\ Goto(AfterFind[l])
        /\ UNCHANGED <<disk, call, path, comp, data, dir_cl, cl, at, target_cl, s>>

---------------------------------------------------------------------------
(* The caller looks at what was found.                                     *)

\* The next component is looked for in directory c.
Descend(c) ==
  /\ comp' = comp + 1 /\ dir_cl' = c /\ cl' = c
  /\ Goto(IF call = "mkdir" THEN "efind" ELSE "find")
  /\ UNCHANGED <<disk, call, path, data, found, at, target_cl, s>>

\* ensure_directory has its directory c: on to the next component; a mkdir
\* whose path ends here is done.  Only fat32_ensure_dir_path takes cluster 0
\* for the root.
HaveDir(c) ==
  IF More THEN Descend(IF call = "mkdir" THEN DirOf(c) ELSE c)
          ELSE Return(TRUE) /\ UNCHANGED disk

\* An inner component of a written path.
DecideInner ==
  /\ pc = "decide" /\ More /\ NoFault
  /\ \/ found /\ At(sect, at[1], at[2]).attr = "dir" /\ Descend(DirOf(At(sect, at[1], at[2]).clus))
     \/ found /\ At(sect, at[1], at[2]).attr # "dir" /\ Fail
     \/ /\ ~found /\ cl' = dir_cl /\ Goto("efind")
        /\ UNCHANGED <<disk, call, path, comp, data, dir_cl, found, at, target_cl, s>>

\* The last component: a file to overwrite, or one to create.
DecideLast ==
  /\ pc = "decide" /\ ~More /\ NoFault
  /\ \/ /\ found /\ call = "write" /\ At(sect, at[1], at[2]).attr = "dir" /\ Fail
     \/ /\ found /\ (call = "write" => At(sect, at[1], at[2]).attr # "dir")
        /\ At(sect, at[1], at[2]).clus # 0
        /\ target_cl' = At(sect, at[1], at[2]).clus /\ s' = 0 /\ Goto("data")
        /\ UNCHANGED <<disk, call, path, comp, data, dir_cl, cl, found, at>>
     \/ /\ found => /\ call = "write" => At(sect, at[1], at[2]).attr # "dir"
                    /\ At(sect, at[1], at[2]).clus = 0
        /\ Goto("alloc") /\ UNCHANGED <<disk, frame>>

\* ensure_directory after its own dir_find_entry.
DecideEnsure ==
  /\ pc = "edecide" /\ NoFault
  /\ \/ found /\ At(sect, at[1], at[2]).attr = "dir" /\ HaveDir(At(sect, at[1], at[2]).clus)
     \/ found /\ At(sect, at[1], at[2]).attr # "dir" /\ Fail
     \/ ~found /\ Goto("ealloc") /\ UNCHANGED <<disk, frame>>

---------------------------------------------------------------------------
(* fat_alloc_free_cluster: the lowest free cluster becomes a chain of one. *)

AfterAlloc == [alloc |-> "data", ealloc |-> "dot"]

Alloc(l) ==
  /\ pc = l /\ NoFault
  /\ \E c \in FreeClusters :
       /\ \A d \in FreeClusters : c <= d
       /\ fat' = [fat EXCEPT ![c] = EOC] /\ target_cl' = c
  /\ s' = 0 /\ Goto(AfterAlloc[l])
  /\ UNCHANGED <<sect, dirs, home, call, path, comp, data, dir_cl, cl, found, at>>

AllocFail(l) ==
  /\ pc = l
  /\ \/ FreeClusters = {} /\ NoFault
     \/ ReadFault
     \/ FreeClusters # {} /\ WriteFault
  /\ Fail

---------------------------------------------------------------------------
(* Filling the cluster of a file: write_single_cluster and its twins.      *)

ChunkSector(i) == IF i < NewSize THEN Raw(data[i + 1]) ELSE Zeroes

WriteData ==
  /\ pc = "data" /\ NoFault
  /\ sect' = Fill(sect, target_cl, s, ChunkSector(s))
  /\ s' = s + 1
  /\ Goto(IF s + 1 < Spc THEN "data" ELSE IF call = "write" THEN "eoc"
          ELSE IF found THEN "entry" ELSE "slot")
  /\ cl' = IF s + 1 = Spc THEN dir_cl ELSE cl
  /\ UNCHANGED <<fat, dirs, home, call, path, comp, data, dir_cl, found, at, target_cl>>

WriteDataFail == pc = "data" /\ WriteFault /\ Fail

\* The trailing fat_write_fat_entry; its result is not looked at.
MarkEoc ==
  /\ pc = "eoc"
  /\ \/ NoFault /\ fat' = [fat EXCEPT ![target_cl] = EOC]
     \/ (ReadFault \/ WriteFault) /\ UNCHANGED fat
  /\ Goto(IF found THEN "entry" ELSE "slot")
  /\ UNCHANGED <<sect, dirs, home, frame>>

\* Mutant: an empty file keeps cluster 0.
UpdateEntrySize ==
  /\ pc = "entry" /\ NoFault
  /\ sect' = Put(sect, at[1], at[2], [At(sect, at[1], at[2]) EXCEPT !.size = NewSize])
  /\ Return(TRUE)
  /\ UNCHANGED <<fat, dirs, home>>

\* The entry that was found gets its cluster and size.
UpdateEntry ==
  /\ pc = "entry" /\ NoFault
  /\ sect' = Put(sect, at[1], at[2],
                 [At(sect, at[1], at[2]) EXCEPT !.clus = target_cl, !.size = NewSize])
  /\ Return(TRUE)
  /\ UNCHANGED <<fat, dirs, home>>

UpdateEntryFail ==
  /\ pc = "entry"
  /\ ReadFault \/ WriteFault
  /\ Fail

---------------------------------------------------------------------------
(* The cluster of a new directory, and the entry of a new file or          *)
(* directory: ensure_directory, dir_find_free_slot, create_dir_entry.      *)

DotSector == [o \in 0 .. Slots - 1 |->
                CASE o = 0 -> Entry(DOT, "dir", target_cl, 0)
                  [] o = 1 -> Entry(DOTDOT, "dir", dir_cl, 0)
                  [] OTHER -> Free(END)]
\* Mutant: only the first sector of the new cluster is cleared.
DirSectorStale(i) == IF i = 0 THEN DotSector ELSE sect[target_cl][i]
DirSector(i) == IF i = 0 THEN DotSector ELSE Zeroes

WriteDirSector ==
  /\ pc = "dot" /\ NoFault
  /\ sect' = Fill(sect, target_cl, s, DirSector(s))
  /\ s' = s + 1
  /\ Goto(IF s + 1 < Spc THEN "dot" ELSE "eeoc")
  /\ UNCHANGED <<fat, dirs, home, call, path, comp, data, dir_cl, cl, found, at, target_cl>>

WriteDirSectorFail == pc = "dot" /\ WriteFault /\ Fail

MarkDirEoc ==
  /\ pc = "eeoc"
  /\ \/ NoFault /\ fat' = [fat EXCEPT ![target_cl] = EOC]
     \/ (ReadFault \/ WriteFault) /\ UNCHANGED fat
  /\ cl' = dir_cl /\ Goto("eslot")
  /\ UNCHANGED <<sect, dirs, home, call, path, comp, data, dir_cl, found, at, target_cl, s>>

\* A free slot in this cluster: the entry is written there.
WriteSlot(l) ==
  /\ pc = l /\ FreeSlots(cl) # {} /\ NoFault
  /\ LET p == First(FreeSlots(cl)) IN
       sect' = Put(sect, cl, p, IF l = "eslot" THEN Entry(Wanted, "dir", target_cl, 0)
                                ELSE Entry(Wanted, "file", target_cl, NewSize))
  /\ UNCHANGED fat
  /\ IF l = "slot" THEN Return(TRUE) /\ UNCHANGED <<dirs, home>>
     ELSE /\ dirs' = dirs \cup {target_cl}
          /\ home' = [home EXCEPT ![target_cl] = Place(target_cl, 0, Append(home[dir_cl].path, Wanted))]
          /\ IF More
               THEN /\ comp' = comp + 1 /\ dir_cl' = target_cl /\ cl' = target_cl
                    /\ Goto(IF call = "mkdir" THEN "efind" ELSE "find")
                    /\ UNCHANGED <<call, path, data, found, at, target_cl, s>>
               ELSE Return(TRUE)

\* No free slot in it: the next one; directories are not extended.
NextSlot(l) ==
  /\ pc = l /\ FreeSlots(cl) = {} /\ NoFault
  /\ \/ /\ fat[cl] \in Cluster /\ cl' = fat[cl] /\ Goto(l)
        /\ UNCHANGED <<disk, call, path, comp, data, dir_cl, found, at, target_cl, s>>
     \/ fat[cl] = EOC /\ Fail

SlotFail(l) ==
  /\ pc = l
  /\ \/ ReadFault
     \/ FreeSlots(cl) # {} /\ WriteFault
  /\ Fail

---------------------------------------------------------------------------
\* Power is lost in the middle of a call; the volume is mounted again and
\* what it holds is what was written so far.
PowerLoss ==
  /\ pc # "idle" /\ losses > 0
  /\ losses' = losses - 1 /\ UNCHANGED <<rfaults, wfaults>>
  /\ Fail

\* A step of the call in progress.
CallStep ==
  \/ \E l \in {"find", "efind"} : FindStop(l) \/ FindNext(l) \/ FindReadFault(l)
  \/ DecideInner \/ DecideLast \/ DecideEnsure
  \/ \E l \in {"alloc", "ealloc"} : Alloc(l) \/ AllocFail(l)
  \/ WriteData \/ WriteDataFail \/ MarkEoc \/ UpdateEntry \/ UpdateEntryFail
  \/ WriteDirSector \/ WriteDirSectorFail \/ MarkDirEoc
  \/ \E l \in {"slot", "eslot"} : WriteSlot(l) \/ NextSlot(l) \/ SlotFail(l)

Next ==
  \/ \E c \in Calls, p \in Paths, d \in Contents : Begin(c, p, d)
  \/ CallStep
  \/ PowerLoss

\* The driver polls and never blocks: a call in progress goes on.
Spec == Init /\ [][Next]_vars /\ WF_vars(CallStep)

---------------------------------------------------------------------------
(* Properties.                                                             *)

Labels == {"idle", "find", "decide", "efind", "edecide", "alloc", "ealloc",
           "data", "eoc", "entry", "dot", "eeoc", "slot", "eslot"}

\* Every variable holds a value of its type.
TypeOK ==
  /\ fat \in [Cluster -> FatVal]
  /\ sect \in [Cluster -> [0 .. Spc - 1 -> Sector]]
  /\ dirs \in SUBSET Cluster
  /\ pc \in Labels /\ call \in AllCalls
  /\ path \in Seq(Name) /\ comp \in 1 .. Len(path) + 1 /\ data \in Seq(Chunk)
  /\ dir_cl \in Cluster /\ cl \in Cluster /\ found \in BOOLEAN
  /\ at \in Cluster \X Pos /\ target_cl \in Cluster /\ s \in 0 .. Spc
  /\ rfaults \in Nat /\ wfaults \in Nat /\ losses \in Nat
  /\ acked \in [NamePaths -> Seq(Chunk) \cup {NoAck}]

\* No cluster is owned twice: two entries never share their first cluster,
\* two chains never run together, whatever fails and wherever power is lost
\* (fat_alloc_free_cluster marks a cluster before anything refers to it).
NoCrossLink == OneOwner(fat, sect, dirs)

\* An entry, a FAT link or a directory never refers to a cluster the FAT
\* calls free, so no later allocation can hand it out a second time.
NoDangling == ReferencedAllocated(fat, sect, dirs)

\* A subdirectory's cluster has its dot entries before its entry exists, and
\* directories and files never turn into each other.
DirectoriesIntact == DirsSeparate(fat, sect, dirs) /\ DotsInPlace(sect, dirs)

\* What fs_fat32.c never breaks, whatever reads and writes fail and wherever
\* power is lost: the types, one owner for each cluster, nothing in use that
\* is free, whole directories.
VolumeSafe == TypeOK /\ NoCrossLink /\ NoDangling /\ DirectoriesIntact

\* Nothing refers to cluster t yet, and it is a chain of its own.
Fresh(f, se, ds, t) ==
  /\ t \notin ds /\ f[t] = EOC
  /\ \A c \in Cluster : f[c] # t
  /\ \A c \in ds : \A p \in Pos : LiveCell(At(se, c, p)) => At(se, c, p).clus # t

FoundCell == At(sect, at[1], at[2])

\* Where the call in progress is, and what it holds there.
CallOK ==
  /\ dir_cl \in dirs /\ cl \in dirs /\ at[1] \in dirs
  /\ pc # "idle" => comp \in 1 .. Len(path)
  /\ pc \in {"data", "dot"} => s < Spc
  /\ call = "mkdir" => pc \notin {"find", "decide"}
  /\ call = "write_root" => /\ Len(path) = 1
                            /\ pc \notin {"efind", "edecide", "ealloc", "dot", "eeoc", "eslot"}
                            /\ pc \in {"find", "decide"} => NamesNoDir(path[1])
\* What is known of the entry that was found.
FoundOK ==
  /\ pc = "entry" => found
  /\ pc \in {"decide", "edecide", "alloc", "data", "eoc", "entry"} /\ found => LiveCell(FoundCell)
  /\ pc \in {"alloc", "data", "eoc", "entry"} /\ found => FoundCell.attr = "file"
  /\ pc = "decide" /\ call = "write_root" /\ found => FoundCell.attr = "file"
  /\ pc = "alloc" /\ found => FoundCell.clus = 0
\* The cluster being filled is the file's own or fresh; a new directory's is
\* filled with its dots and zeroes.
TargetOK ==
  /\ pc \in {"dot", "eeoc", "eslot", "slot"} => Fresh(fat, sect, dirs, target_cl)
  /\ pc \in {"data", "eoc", "entry"} =>
       \/ found /\ FoundCell.clus = target_cl
       \/ (found => FoundCell.clus = 0) /\ Fresh(fat, sect, dirs, target_cl)
  /\ pc = "dot" => \A i \in 0 .. Spc - 1 : i < s => sect[target_cl][i] = DirSector(i)
  /\ pc \in {"eeoc", "eslot"} => \A i \in 0 .. Spc - 1 : sect[target_cl][i] = DirSector(i)

\* The inductive invariant: the volume is sound and the call in progress
\* works on clusters of its own.
IInv == TypeOK /\ Sound(fat, sect, dirs) /\ CallOK /\ FoundOK /\ TargetOK

---------------------------------------------------------------------------
(* Files.                                                                  *)

\* No read has failed so far.
AllRead == rfaults = MaxReadFaults

\* The names form a tree, and what a path was last reported to hold is there.
Kept == /\ Tree(fat, sect, dirs, home)
        /\ \A p \in DOMAIN acked : acked[p] # NoAck => Stored(sect, dirs, home, p, acked[p])

\* As long as no read has failed, a name is once in its directory and a path
\* leads to one file: what dir_find_entry did not find is not there when
\* create_dir_entry makes it, although the cluster was allocated and written
\* in between.  So what a path was last reported to hold is what is there, in
\* spite of writes that fail, of power losses and of calls on other paths.
FilesKept == AllRead => Kept

\* Directory dir_cl has no entry of the name that is looked for, in the
\* clusters before number n.
AbsentBefore(n) ==
  \A c \in dirs : \A p \in Pos :
    home[c].top = dir_cl /\ home[c].nr < n => ~(LiveCell(At(sect, c, p)) /\ At(sect, c, p).name = Wanted)
Absent ==
  \A c \in dirs : \A p \in Pos :
    home[c].top = dir_cl => ~(LiveCell(At(sect, c, p)) /\ At(sect, c, p).name = Wanted)

\* The directory that is searched is the one the path leads to.
WalkOK ==
  /\ home[dir_cl].top = dir_cl /\ home[dir_cl].path = SubSeq(path, 1, comp - 1)
  /\ call # "mkdir" => acked[path] = NoAck
  /\ pc \in {"find", "efind", "slot", "eslot"} => home[cl].top = dir_cl
  /\ pc = "eoc" => cl = dir_cl
  /\ pc \in {"alloc", "data", "eoc", "entry", "slot"} => comp = Len(path) /\ call # "mkdir"
  /\ pc \in {"efind", "edecide", "ealloc", "dot", "eeoc", "eslot"} /\ call # "mkdir" => More
\* What the search has told.
SearchOK ==
  /\ pc \in {"find", "efind"} => AbsentBefore(home[cl].nr)
  /\ pc \in {"ealloc", "dot", "eeoc", "slot", "eslot"} => ~found
  /\ pc \notin {"idle", "find", "efind"} /\ ~found => Absent
  /\ pc \notin {"idle", "find", "efind"} /\ found => home[at[1]].top = dir_cl /\ FoundCell.name = Wanted
  /\ pc \in {"slot", "eslot"} => \A c \in dirs : \A p \in Pos :
       home[c].top = dir_cl /\ home[c].nr < home[cl].nr => At(sect, c, p).name \notin {END, DEL}
\* What has been written of the data.
DataOK ==
  /\ pc = "data" => \A i \in 0 .. Spc - 1 : i < s => sect[target_cl][i] = ChunkSector(i)
  /\ pc \in {"eoc", "entry", "slot"} => \A i \in 0 .. Spc - 1 : sect[target_cl][i] = ChunkSector(i)

\* What FilesKept needs to be kept.
TreeOK == /\ home \in [Cluster -> Places] /\ Kept
          /\ pc # "idle" => WalkOK /\ SearchOK /\ DataOK
TreeInv == rfaults <= MaxReadFaults /\ (AllRead => TreeOK)

\* Every call returns, whatever chains it walks.
CallsReturn == pc # "idle" ~> pc = "idle"
===========================================================================
