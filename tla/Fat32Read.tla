----------------------------- MODULE Fat32Read -----------------------------
(***************************************************************************)
(* The calls of kernel/fs_fat32.c that only read a FAT32 volume, as         *)
(* functions of what is on it: path lookup, reading a file, listing a       *)
(* directory; and what they promise about the calls that write.             *)
(***************************************************************************)
EXTENDS Fat32

\* The clusters of the chain that starts at c, in order.
RECURSIVE Chain(_)
Chain(c) == IF c = EOC THEN <<>> ELSE <<c>> \o Chain(fat[c])

CellsOfSector(c, i) == [o \in 1 .. Slots |-> sect[c][i][o - 1]]
RECURSIVE CellsFrom(_, _)
CellsFrom(c, i) == IF i = Spc THEN <<>> ELSE CellsOfSector(c, i) \o CellsFrom(c, i + 1)
RECURSIVE Flatten(_)
Flatten(cs) == IF cs = <<>> THEN <<>> ELSE CellsFrom(Head(cs), 0) \o Flatten(Tail(cs))

\* The cells of the directory at c up to the first END.
DirCells(c) ==
  LET cells == Flatten(Chain(c))
      ends  == {i \in 1 .. Len(cells) : cells[i].name = END}
  IN  IF ends = {} THEN cells
      ELSE SubSeq(cells, 1, (CHOOSE i \in ends : \A j \in ends : i <= j) - 1)

NotFound == [name |-> END, attr |-> "raw", clus |-> 0, size |-> 0]
\* dir_find_entry without faults.
dir_find_entry(c, n) ==
  LET cells == DirCells(c)
      hits  == {i \in 1 .. Len(cells) : cells[i].name = n /\ cells[i].attr # "lfn"}
  IN  IF hits = {} THEN NotFound ELSE cells[CHOOSE i \in hits : \A j \in hits : i <= j]

\* The entry a path leads to from directory c.
RECURSIVE Follow(_, _)
Follow(c, p) ==
  LET e == dir_find_entry(c, Head(p)) IN
  IF Len(p) = 1 \/ e.attr # "dir" THEN IF Len(p) = 1 THEN e ELSE NotFound
  ELSE Follow(DirOf(e.clus), Tail(p))

\* The first n chunks of the chain that starts at c.
RECURSIVE ReadChain(_, _)
ReadChain(c, n) ==
  IF n = 0 \/ c = EOC THEN <<>>
  ELSE LET k == IF n < Spc THEN n ELSE Spc
       IN  [i \in 1 .. k |-> sect[c][i - 1][0].name] \o ReadChain(fat[c], n - k)

\* fat32_read_file_path: the code it returns and the chunks it delivers.
fat32_read_file_path(p) ==
  LET e == Follow(RootClus, p) IN
  CASE e.attr = "raw" -> [ret |-> -2, out |-> <<>>]
    [] e.attr = "dir" -> [ret |-> -4, out |-> <<>>]
    [] e.attr = "file" /\ e.clus = 0 -> [ret |-> -1, out |-> <<>>]
    [] OTHER -> [ret |-> 0, out |-> ReadChain(e.clus, e.size)]

\* fat32_list_dir_path of a directory: names and sizes, the dots left out.
list_dir(c) ==
  LET cells == DirCells(c) IN
  {i \in 1 .. Len(cells) : /\ cells[i].attr # "lfn"
                           /\ cells[i].name \notin {DEL, DOT, DOTDOT}}

\* First clusters of the subdirectories.
SubDirs == {At(sect, x[1], x[2]).clus : x \in
              {y \in dirs \X Pos : /\ LiveCell(At(sect, y[1], y[2]))
                                  /\ At(sect, y[1], y[2]).attr = "dir"}}

---------------------------------------------------------------------------
\* A file reads back as what was last reported written to it (or as what the
\* host put there), until the next write to that path starts: across calls
\* on other paths, failed writes and power losses.  A read that fails is the
\* exception: it ends a search early, and the file is created a second time.
AckedReadsBack ==
  AllRead => \A p \in DOMAIN acked : acked[p] # NoAck =>
    fat32_read_file_path(p) = [ret |-> 0, out |-> acked[p]]

\* No directory lists a name twice: "overwrite if exists, otherwise create".
NoDuplicateNames ==
  \A c \in {RootClus} \cup SubDirs :
    \A i, j \in list_dir(c) : DirCells(c)[i].name = DirCells(c)[j].name => i = j

\* The directories the history variable records are the ones a walk from
\* the root reaches.
RECURSIVE TreeOf(_)
TreeOf(c) ==
  LET cells == DirCells(c)
      subs == {cells[i].clus : i \in {j \in 1 .. Len(cells) : LiveCell(cells[j]) /\ cells[j].attr = "dir"}}
  IN  {Chain(c)[i] : i \in 1 .. Len(Chain(c))} \cup UNION {TreeOf(d) : d \in subs}
DirsAreReachable == dirs = TreeOf(RootClus)

\* Both: what a listing shows is each name once, in directories that a path
\* leads to (fat32_write_file_path, fat32_mkdir_path), with the same exception.
NamesSound == AllRead => NoDuplicateNames /\ DirsAreReachable
===========================================================================
