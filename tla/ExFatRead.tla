----------------------------- MODULE ExFatRead -----------------------------
(***************************************************************************)
(* The calls of kernel/fs_fat32.c that only read an exFAT volume, as        *)
(* functions of what is on it, and what they promise about the calls that   *)
(* write.                                                                  *)
(***************************************************************************)
EXTENDS ExFat

\* The clusters of the chain that starts at c, as the walks see it: up to
\* the end mark, or to a free cluster's 0.
RECURSIVE Chain(_)
Chain(c) == IF c \in {0, EOC} THEN <<>> ELSE <<c>> \o Chain(fat[c])

SetOf(s) == {s[k] : k \in 1 .. Len(s)}

\* The places of a directory that exfat_find_in_dir and exfat_list_dir come
\* by: its sets up to the first end.
RECURSIVE PlacesIn(_)
PlacesIn(cs) ==
  IF cs = <<>> THEN <<>>
  ELSE LET r  == cont[Head(cs)]
           vs == Visible(r)
           row == [k \in 1 .. Cardinality(vs) |->
                     <<Head(cs), CHOOSE j \in vs : Cardinality({x \in vs : x < j}) = k - 1>>]
       IN  row \o (IF Ends(r) # {} THEN <<>> ELSE PlacesIn(Tail(cs)))
Places(c) == PlacesIn(Chain(c))

NameAt(pl) == SetName(cont[pl[1]], pl[2])
IsDirAt(pl) == cont[pl[1]][pl[2]].dir
ClusAt(pl) == cont[pl[1]][pl[2] + 1].clus
SizeAt(pl) == cont[pl[1]][pl[2] + 1].n

\* exfat_follow_path from directory c: the place of the set, or <<>>.
RECURSIVE exfat_follow_path(_, _)
exfat_follow_path(c, p) ==
  LET pls  == Places(c)
      hits == {k \in 1 .. Len(pls) : NameAt(pls[k]) = Head(p)}
  IN  IF hits = {} THEN <<>>
      ELSE LET pl == pls[Least(hits)] IN
           IF Len(p) = 1 THEN pl
           ELSE IF IsDirAt(pl) THEN exfat_follow_path(ClusAt(pl), Tail(p)) ELSE <<>>

\* exfat_read_file_path: a file without a cluster answers -1, as
\* read_file_from_cluster does, and delivers nothing.
exfat_read_file_path(p) ==
  LET pl == exfat_follow_path(RootClus, p) IN
  IF pl = <<>> THEN [ret |-> -2, out |-> <<>>]
  ELSE IF IsDirAt(pl) THEN [ret |-> -4, out |-> <<>>]
  ELSE IF ClusAt(pl) = 0 THEN [ret |-> -1, out |-> <<>>]
  ELSE LET cs == Chain(ClusAt(pl)) IN
       [ret |-> 0, out |-> [k \in 1 .. (IF Len(cs) < SizeAt(pl) THEN Len(cs) ELSE SizeAt(pl)) |->
                              cont[cs[k]][0].name]]

\* All sets of a directory, those that lie behind END cells of an earlier
\* cluster too: exfat_find_free_set leaves the rest of a cluster that is too
\* small for a set as END cells and takes the next one, while the searches
\* above stop at the first END cell.
SetsIn(c) == {pl \in SetOf(Chain(c)) \X (0 .. Cells - 1) : IsSet(cont[pl[1]], pl[2])}

\* The sets of the tree below directory c.
RECURSIVE Tree(_)
Tree(c) == SetsIn(c) \cup UNION {Tree(ClusAt(pl)) : pl \in {q \in SetsIn(c) : IsDirAt(q)}}

Owned(pl) == SetOf(Chain(ClusAt(pl)))

\* On the way of path p from directory c a name is met that the searches
\* miss or take for another: its set lies behind an END cell, or it has been
\* added again because it lay there.
RECURSIVE Misplaced(_, _)
Misplaced(c, p) ==
  LET here == {pl \in SetsIn(c) : NameAt(pl) = Head(p)} IN
  \/ here \ SetOf(Places(c)) # {} \/ Cardinality(here) > 1
  \/ Len(p) > 1 /\ \E pl \in here : IsDirAt(pl) /\ Misplaced(ClusAt(pl), Tail(p))

---------------------------------------------------------------------------
\* A file reads back as what was last reported written to it, until the next
\* write to that path starts: whatever the calls on other paths do, and
\* after every single write of theirs, so also if power is lost there.  The
\* exception, a defect of the driver (see EndIsEnd): a path on whose way a
\* set was put behind END cells, which the driver does not find again.
ExAckedReadsBack ==
  \A p \in UPaths :
    /\ acked[p] # NoAck
    /\ ~Misplaced(RootClus, p)
    => exfat_read_file_path(p) = [ret |-> IF acked[p] = <<>> THEN -1 ELSE 0, out |-> acked[p]]

\* No cluster belongs to two files or directories, to a file and the root
\* directory or the bitmap, or twice to one chain: after any write but the
\* one that links a new cluster to a directory before it is cleared, when
\* old entries show through (exfat_find_free_set).  Sets behind END cells
\* count.
ExNoCrossLink ==
  pc # "xzero" =>
  LET all == Tree(RootClus)
      sys == Reserved \cup SetOf(Chain(RootClus))
  IN  /\ \A a \in all : Owned(a) \cap sys = {}
      /\ \A a, b \in all : a # b => Owned(a) \cap Owned(b) = {}
      /\ \A a \in all : Cardinality(Owned(a)) = Len(Chain(ClusAt(a)))

\* Between calls the allocated clusters are those of the files, of the
\* directories and of the system, unless a directory could not be extended
\* (exfat_create_entry then returns -3 and keeps the chain).  A file whose
\* set lies behind END cells has its clusters, though the driver's own
\* searches do not come by it: its set is in the directory's chain.
NoOrphans ==
  pc = "idle" /\ ~leaked =>
    {c \in Cluster : fat[c] # 0} =
      Reserved \cup SetOf(Chain(RootClus)) \cup UNION {Owned(a) : a \in Tree(RootClus)}

\* Together: what the chains of the directories hold is all there is, and
\* every cluster of it belongs to one.
ExVolumeSound == ExNoCrossLink /\ NoOrphans

\* "end of directory": no set in use lies behind an END cell.
EndIsEnd ==
  pc = "idle" =>
    \A c \in {RootClus} \cup {ClusAt(a) : a \in {b \in Tree(RootClus) : IsDirAt(b)}} :
      LET cs == Chain(c) IN
      \A k, l \in 1 .. Len(cs) : k < l /\ Ends(cont[cs[k]]) # {} =>
        \A j \in 0 .. Cells - 1 : cont[cs[l]][j].t # "file"
===========================================================================
