---------------------------- MODULE ExFatProofs ----------------------------
(***************************************************************************)
(* For every geometry, every set of paths and contents and any number of    *)
(* calls: the exFAT half of kernel/fs_fat32.c keeps the volume sound after  *)
(* each of its writes.  ExInv is inductive; the first part says what an     *)
(* allocation, a link and a release do to a sound FAT, the second what the  *)
(* writes to directories do to the entries, the third goes through the      *)
(* actions.                                                                 *)
(***************************************************************************)
EXTENDS ExFat, SequenceTheorems, WellFoundedInduction, TLAPS

Table == [Cluster -> {0, EOC} \cup Cluster]
Row   == [0 .. Cells - 1 -> Cell]

LEMMA Geometry ==
  /\ 0 \notin Cluster /\ EOC \notin Cluster /\ EOC # 0 /\ Cluster \subseteq Nat /\ EOC \in Nat
  /\ RootClus \in Cluster /\ Reserved \subseteq Cluster /\ RootClus \notin Reserved
  /\ System \subseteq Cluster /\ Cells \in Nat /\ Cells >= 3 /\ SysCells \in Nat /\ SysCells + 2 < Cells
  /\ \A c \in Comp : Total(c) \in Nat /\ Total(c) >= 3 /\ Total(c) <= Cells
BY GeometryAssumption DEF Cluster, EOC, System, Total

LEMMA LeastIn ==
  ASSUME NEW T, T \subseteq Nat, T # {}
  PROVE  Least(T) \in T /\ \A m \in T : Least(T) <= m
<1>1. PICK n \in T : \A m \in T : ~(<<m, n>> \in OpToRel(<, Nat))
  BY NatLessThanWellFounded, WFMin
<1>2. \A m \in T : ~(m < n)
  BY <1>1 DEF OpToRel
<1>3. \A m \in T : n <= m
  BY <1>2
<1> QED
  BY <1>3 DEF Least

---------------------------------------------------------------------------
(* The FAT.  f is the FAT before the write, o the first clusters of the     *)
(* entries, ds the directories and h their paths.                           *)

\* exfat_alloc_cluster takes a free cluster: nothing leads to it.
LEMMA FreeIsLoose ==
  ASSUME NEW f \in Table, NEW o, NEW ds, \A e \in DOMAIN o : o[e] \in Cluster,
         InUse(f, o, ds), NEW c \in Cluster, f[c] = 0
  PROVE  Loose(f, o, c) /\ c \notin ds
BY Geometry DEF InUse, Loose, Table

LEMMA AllocFat ==
  ASSUME NEW f \in Table, NEW o, NEW ds, ds \subseteq Cluster, \A e \in DOMAIN o : o[e] \in Cluster,
         OneOwner(f, o), InUse(f, o, ds), NEW c \in Cluster, f[c] = 0,
         NEW g, g = [f EXCEPT ![c] = EOC]
  PROVE  /\ g \in Table /\ OneOwner(g, o) /\ InUse(g, o, ds)
         /\ \A d \in Cluster : Loose(g, o, d) <=> Loose(f, o, d)
         /\ \A H : NoneLost(f, o, H) => NoneLost(g, o, H \cup {c})
         /\ \A h, x : KindKept(f, ds, h, x) => KindKept(g, ds, h, x)
<1>1. g \in Table
  BY DEF Table
<1>2. \A d \in Cluster : g[d] = IF d = c THEN EOC ELSE f[d]
  BY DEF Table
<1>3. \A d \in Cluster : Loose(g, o, d) <=> Loose(f, o, d)
  BY <1>2, Geometry DEF Loose, Table
<1>4. OneOwner(g, o)
  BY <1>2, Geometry DEF OneOwner, Table
<1>5. InUse(g, o, ds)
  BY <1>2, Geometry DEF InUse, Table
<1>6. \A H : NoneLost(f, o, H) => NoneLost(g, o, H \cup {c})
  BY <1>2, <1>3 DEF NoneLost
<1>7. \A h, x : KindKept(f, ds, h, x) => KindKept(g, ds, h, x)
  BY <1>2, Geometry DEF KindKept
<1> QED
  BY <1>1, <1>3, <1>4, <1>5, <1>6, <1>7

\* A link to a cluster that nothing leads to.
LEMMA LinkFat ==
  ASSUME NEW f \in Table, NEW o, NEW ds, ds \subseteq Cluster, \A e \in DOMAIN o : o[e] \in Cluster,
         OneOwner(f, o), InUse(f, o, ds), NEW a \in Cluster, NEW b \in Cluster,
         f[a] = EOC, f[b] # 0, Loose(f, o, b), NEW g, g = [f EXCEPT ![a] = b]
  PROVE  /\ g \in Table /\ OneOwner(g, o) /\ InUse(g, o, ds)
         /\ \A d \in Cluster \ {b} : Loose(g, o, d) <=> Loose(f, o, d)
         /\ \A H : NoneLost(f, o, H) => NoneLost(g, o, H \ {b})
         /\ \A h, x : KindKept(f, ds, h, x) /\ a \notin ds /\ b \notin ds => KindKept(g, ds, h, x)
         /\ \A h : KindKept(f, ds, h, {}) => KindKept(g, ds, h, {a})
<1>1. g \in Table
  BY DEF Table
<1>2. \A d \in Cluster : g[d] = IF d = a THEN b ELSE f[d]
  BY DEF Table
<1>3. \A d \in Cluster \ {b} : Loose(g, o, d) <=> Loose(f, o, d)
  BY <1>2, Geometry DEF Loose, Table
<1>4. OneOwner(g, o)
  BY <1>2, Geometry DEF OneOwner, Table, Loose
<1>5. InUse(g, o, ds)
  BY <1>2, Geometry DEF InUse, Table
<1>6. ~Loose(g, o, b)
  BY <1>2 DEF Loose
<1>7. \A H : NoneLost(f, o, H) => NoneLost(g, o, H \ {b})
  <2> SUFFICES ASSUME NEW H, NoneLost(f, o, H), NEW c \in Cluster, g[c] # 0, Loose(g, o, c)
               PROVE  c \in H \ {b}
    BY DEF NoneLost
  <2>1. c # b
    BY <1>6
  <2>2. f[c] # 0
    BY <1>2, Geometry
  <2> QED
    BY <2>1, <2>2, <1>3 DEF NoneLost
<1>8. \A h, x : KindKept(f, ds, h, x) /\ a \notin ds /\ b \notin ds => KindKept(g, ds, h, x)
  BY <1>2, Geometry DEF KindKept
<1>9. \A h : KindKept(f, ds, h, {}) => KindKept(g, ds, h, {a})
  BY <1>2, Geometry DEF KindKept
<1> QED
  BY <1>1, <1>3, <1>4, <1>5, <1>7, <1>8, <1>9

\* exfat_free_chain clears the entry of a cluster that nothing leads to: now
\* nothing leads to the one behind it.
LEMMA FreeFat ==
  ASSUME NEW f \in Table, NEW o, NEW ds, ds \subseteq Cluster, \A e \in DOMAIN o : o[e] \in Cluster,
         OneOwner(f, o), InUse(f, o, ds), NEW c \in Cluster, Loose(f, o, c), c \notin ds, f[c] # 0,
         NEW g, g = [f EXCEPT ![c] = 0]
  PROVE  /\ g \in Table /\ OneOwner(g, o) /\ InUse(g, o, ds)
         /\ \A d \in Cluster : Loose(f, o, d) => Loose(g, o, d)
         /\ f[c] \in Cluster => Loose(g, o, f[c]) /\ g[f[c]] # 0 /\ ~Loose(f, o, f[c])
         /\ \A H : NoneLost(f, o, H) => NoneLost(g, o, (H \ {c}) \cup {f[c]})
         /\ \A h, x : KindKept(f, ds, h, x) => KindKept(g, ds, h, x)
<1>1. g \in Table
  BY DEF Table
<1>2. \A d \in Cluster : g[d] = IF d = c THEN 0 ELSE f[d]
  BY DEF Table
<1>3. \A d \in Cluster : Loose(f, o, d) => Loose(g, o, d)
  BY <1>2, Geometry DEF Loose, Table
<1>4. OneOwner(g, o)
  BY <1>2, Geometry DEF OneOwner, Table
<1>5. InUse(g, o, ds)
  BY <1>2, Geometry DEF InUse, Table, Loose
<1>6. ASSUME f[c] \in Cluster PROVE Loose(g, o, f[c]) /\ g[f[c]] # 0 /\ ~Loose(f, o, f[c])
  <2>1. \A d \in Cluster : g[d] # f[c]
    BY <1>2, <1>6, Geometry DEF OneOwner
  <2>2. Loose(g, o, f[c])
    BY <2>1, <1>6 DEF OneOwner, Loose
  <2>3. f[c] # c /\ f[f[c]] # 0
    BY <1>6 DEF Loose, InUse
  <2> QED
    BY <2>2, <2>3, <1>2, <1>6 DEF Loose
<1>7. \A d \in Cluster : Loose(g, o, d) /\ d # f[c] => Loose(f, o, d)
  BY <1>2, Geometry DEF Loose
<1>8. \A H : NoneLost(f, o, H) => NoneLost(g, o, (H \ {c}) \cup {f[c]})
  BY <1>2, <1>7 DEF NoneLost
<1>9. \A h, x : KindKept(f, ds, h, x) => KindKept(g, ds, h, x)
  BY <1>2, Geometry DEF KindKept
<1> QED
  BY <1>1, <1>3, <1>4, <1>5, <1>6, <1>8, <1>9

\* The set that named the first cluster c is being written over: nothing
\* leads to c any more.
LEMMA DropOwner ==
  ASSUME NEW f \in Table, NEW o, NEW ds, \A e \in DOMAIN o : o[e] \in Cluster,
         OneOwner(f, o), InUse(f, o, ds), NEW l \in DOMAIN o,
         NEW p, DOMAIN p = DOMAIN o \ {l}, \A e \in DOMAIN p : p[e] = o[e]
  PROVE  /\ OneOwner(f, p) /\ InUse(f, p, ds) /\ Loose(f, p, o[l]) /\ ~Loose(f, o, o[l])
         /\ \A d : Loose(f, o, d) => Loose(f, p, d)
         /\ \A H : NoneLost(f, o, H) => NoneLost(f, p, H \cup {o[l]})
<1>1. OneOwner(f, p)
  BY DEF OneOwner
<1>2. InUse(f, p, ds)
  BY DEF InUse
<1>3. Loose(f, p, o[l]) /\ ~Loose(f, o, o[l])
  BY DEF OneOwner, Loose
<1>4. \A d : Loose(f, o, d) => Loose(f, p, d)
  BY DEF Loose
<1>5. \A d : Loose(f, p, d) => Loose(f, o, d) \/ d = o[l]
  BY DEF Loose
<1>6. \A H : NoneLost(f, o, H) => NoneLost(f, p, H \cup {o[l]})
  BY <1>5 DEF NoneLost
<1> QED
  BY <1>1, <1>2, <1>3, <1>4, <1>6

\* A set with first cluster c is complete.
LEMMA AddOwner ==
  ASSUME NEW f \in Table, NEW o, NEW ds, \A e \in DOMAIN o : o[e] \in Cluster,
         OneOwner(f, o), InUse(f, o, ds), NEW c \in Cluster, Loose(f, o, c), f[c] # 0,
         NEW l, l \notin DOMAIN o,
         NEW p, DOMAIN p = DOMAIN o \cup {l}, p[l] = c, \A e \in DOMAIN o : p[e] = o[e]
  PROVE  /\ OneOwner(f, p) /\ InUse(f, p, ds)
         /\ \A H : NoneLost(f, o, H) => NoneLost(f, p, H \ {c})
<1>1. OneOwner(f, p)
  <2>1. \A d, e \in DOMAIN p : p[d] = p[e] => d = e
    BY DEF OneOwner, Loose
  <2>2. \A a \in Cluster, e \in DOMAIN p : f[a] # p[e]
    BY DEF OneOwner, Loose
  <2>3. \A d \in System : (\A a \in Cluster : f[a] # d) /\ \A e \in DOMAIN p : p[e] # d
    BY DEF OneOwner, Loose
  <2> QED
    BY <2>1, <2>2, <2>3 DEF OneOwner
<1>2. InUse(f, p, ds)
  BY DEF InUse
<1>3. \A d : Loose(f, p, d) => Loose(f, o, d) /\ d # c
  BY DEF Loose
<1>4. \A H : NoneLost(f, o, H) => NoneLost(f, p, H \ {c})
  BY <1>3 DEF NoneLost
<1> QED
  BY <1>1, <1>2, <1>4

\* exfat_zero_cluster makes a directory of a cluster on its own.
LEMMA NewDir ==
  ASSUME NEW f \in Table, NEW o, NEW ds, ds \subseteq Cluster, InUse(f, o, ds),
         NEW c \in Cluster, Loose(f, o, c), f[c] = EOC, c \notin ds,
         NEW h \in [Cluster -> Seq(UNames)], NEW v, NEW k, k = [h EXCEPT ![c] = v], KindKept(f, ds, h, {})
  PROVE  InUse(f, o, ds \cup {c}) /\ KindKept(f, ds \cup {c}, k, {})
<1>1. InUse(f, o, ds \cup {c})
  BY Geometry DEF InUse
<1>2. \A d \in Cluster : d # c => k[d] = h[d]
  OBVIOUS
<1> QED
  BY <1>1, <1>2, Geometry DEF KindKept, Loose

\* It makes a part of the directory of a cluster that is linked to it.
LEMMA MoreDir ==
  ASSUME NEW f \in Table, NEW o, NEW ds, ds \subseteq Cluster, InUse(f, o, ds), OneOwner(f, o),
         NEW a \in ds, NEW c \in Cluster, f[a] = c, f[c] = EOC, c \notin ds,
         NEW h \in [Cluster -> Seq(UNames)], NEW k, k = [h EXCEPT ![c] = h[a]], KindKept(f, ds, h, {a})
  PROVE  InUse(f, o, ds \cup {c}) /\ KindKept(f, ds \cup {c}, k, {})
<1>1. InUse(f, o, ds \cup {c})
  BY Geometry DEF InUse
<1>2. \A d \in Cluster : k[d] = IF d = c THEN h[a] ELSE h[d]
  OBVIOUS
<1>3. \A d \in Cluster : f[d] = c => d = a
  BY DEF OneOwner
<1> QED
  BY <1>1, <1>2, <1>3, Geometry DEF KindKept

---------------------------------------------------------------------------
(* Paths, cells and rows.                                                  *)

LEMMA UptoNone ==
  ASSUME NEW p
  PROVE  Upto(p, 0) = <<>>
BY DEF Upto

LEMMA UptoFacts ==
  ASSUME NEW p \in Seq(Comp), NEW k \in 1 .. Len(p)
  PROVE  /\ p[k] \in Comp /\ Upto(p, k) \in Seq(UNames) /\ Upto(p, k) # <<>>
         /\ Upto(p, k - 1) \in Seq(UNames) /\ Append(Upto(p, k - 1), Upper[p[k]]) = Upto(p, k)
<1>1. \A m \in 1 .. Len(p) : p[m] \in Comp /\ Upper[p[m]] \in UNames
  BY DEF UNames
<1>2. Upto(p, k) \in Seq(UNames) /\ Len(Upto(p, k)) = k
  BY <1>1 DEF Upto
<1>3. Upto(p, k - 1) \in Seq(UNames) /\ Len(Upto(p, k - 1)) = k - 1
  BY <1>1 DEF Upto
<1>4. Append(Upto(p, k - 1), Upper[p[k]]) = Upto(p, k)
  <2>1. Upper[p[k]] \in UNames
    BY <1>1
  <2>2. \A m \in 1 .. k : Append(Upto(p, k - 1), Upper[p[k]])[m] = Upto(p, k)[m]
    BY <1>3 DEF Upto
  <2> QED
    BY <1>2, <1>3, <2>1, <2>2
<1> QED
  BY <1>1, <1>2, <1>3, <1>4

\* The paths the kernel passes, and the directories they need.
LEMMA PathFacts ==
  ASSUME NEW p \in FilePaths \cup DirPaths
  PROVE  /\ p \in Seq(Comp) /\ Len(p) \in Nat \ {0}
         /\ \A k \in 1 .. Len(p) : k < Len(p) \/ p \in DirPaths => Upto(p, k) \in DirUps
         /\ p \in FilePaths => Upto(p, Len(p)) \in UPaths
<1>1. p \in Seq(Comp) /\ p # <<>> /\ Len(p) \in Nat \ {0}
  BY GeometryAssumption
<1>2. ASSUME NEW k \in 1 .. Len(p), k < Len(p) \/ p \in DirPaths PROVE Upto(p, k) \in DirUps
  <2>1. CASE k < Len(p)
    <3>1. k \in 1 .. Len(p) - 1
      BY <1>1, <2>1
    <3>2. Upto(p, k) \in {Upto(p, m) : m \in 1 .. Len(p) - 1}
      BY <3>1
    <3> QED
      BY <3>2, Zenon DEF DirUps
  <2>2. CASE k = Len(p) /\ p \in DirPaths
    <3>1. Upper1(p) \in {Upper1(q) : q \in DirPaths}
      BY <2>2
    <3>2. Upper1(p) \in DirUps
      BY <3>1 DEF DirUps
    <3> QED
      BY <2>2, <3>2 DEF Upper1
  <2> QED
    BY <1>1, <1>2, <2>1, <2>2
<1> QED
  BY <1>1, <1>2 DEF UPaths, Upper1

LEMMA DataFacts ==
  ASSUME NEW d \in Contents \cup {<<>>}
  PROVE  d \in Seq(Chunk) /\ Len(d) \in Nat /\ (d # <<>> <=> Len(d) > 0)
<1>1. d \in Seq(Chunk)
  <2>1. CASE d \in Contents
    BY <2>1, GeometryAssumption
  <2>2. CASE d = <<>>
    BY <2>2
  <2> QED
    BY <2>1, <2>2
<1> QED
  BY <1>1

LEMMA CellTypes ==
  /\ End \in Cell /\ End.t = "end" /\ Zeroed \in Row
  /\ \A y \in Chunk : Raw(y) \in Row
  /\ \A j \in 0 .. Cells - 1 : Zeroed[j] = End
<1>1. End \in Cell
  BY DEF End, Cell
<1>2. \A y \in Chunk : [End EXCEPT !.t = "data", !.name = y] \in Cell
  BY DEF End, Cell
<1> QED
  BY <1>1, <1>2 DEF Zeroed, Raw, Row, End

\* A set found in a row is one of its cells, and the first that is found.
LEMMA HitFacts ==
  ASSUME NEW r \in Row, NEW u, Hits(r, u) # {}
  PROVE  LET j == Least(Hits(r, u)) IN
         /\ j \in 0 .. Cells - 1 /\ IsSet(r, j) /\ SetName(r, j) = u
         /\ \A m \in 0 .. Cells - 1 : m \in Hits(r, u) => j <= m
<1>1. Hits(r, u) \subseteq 0 .. Cells - 1 /\ Hits(r, u) \subseteq Nat
  BY Geometry DEF Hits, Visible
<1>2. Least(Hits(r, u)) \in Hits(r, u) /\ \A m \in Hits(r, u) : Least(Hits(r, u)) <= m
  BY <1>1, LeastIn
<1> QED
  BY <1>1, <1>2 DEF Hits, Visible

---------------------------------------------------------------------------
(* The entries of the volume.                                              *)

LEMMA EntryFacts ==
  ASSUME ExTypeOK
  PROVE  /\ fat \in Table /\ cont \in [Cluster -> Row] /\ dirs \subseteq Cluster
         /\ home \in [Cluster -> Seq(UNames)]
         /\ \A e \in Entries : /\ e = <<e[1], e[2]>> /\ e[1] \in dirs /\ e[2] \in 0 .. Cells - 1
                               /\ cont[e[1]][e[2]].t = "file" /\ ClusOf(e) \in {0} \cup Cluster
         /\ DOMAIN own = Owners /\ Owners \subseteq Entries
         /\ \A e \in Owners : own[e] = ClusOf(e) /\ own[e] \in Cluster
<1>1. fat \in Table /\ cont \in [Cluster -> Row] /\ dirs \subseteq Cluster
      /\ home \in [Cluster -> Seq(UNames)]
  BY DEF ExTypeOK, Table, Row
<1>2. ASSUME NEW e \in Entries
      PROVE  /\ e = <<e[1], e[2]>> /\ e[1] \in dirs /\ e[2] \in 0 .. Cells - 1
             /\ cont[e[1]][e[2]].t = "file" /\ ClusOf(e) \in {0} \cup Cluster
  <2>1. /\ e = <<e[1], e[2]>> /\ e[1] \in dirs /\ e[2] \in 0 .. Cells - 1
        /\ cont[e[1]][e[2]].t = "file"
    BY <1>2 DEF Entries
  <2>2. CASE e[2] + 1 < Cells
    <3>0. cont[e[1]] \in Row /\ e[2] + 1 \in 0 .. Cells - 1
      BY <1>1, <2>1, <2>2, Geometry
    <3>1. cont[e[1]][e[2] + 1] \in Cell
      BY <3>0 DEF Row
    <3> QED
      BY <2>1, <2>2, <3>1 DEF ClusOf, Cell
  <2>3. CASE ~(e[2] + 1 < Cells)
    BY <2>1, <2>3 DEF ClusOf
  <2> QED
    BY <2>1, <2>2, <2>3
<1>3. DOMAIN own = Owners /\ Owners \subseteq Entries
  BY DEF own, Owners
<1>4. ASSUME NEW e \in Owners PROVE own[e] = ClusOf(e) /\ own[e] \in Cluster
  <2>1. own[e] = ClusOf(e) /\ ClusOf(e) # 0 /\ e \in Entries
    BY <1>4 DEF own, Owners
  <2> QED
    BY <1>2, <2>1
<1> QED
  BY <1>1, <1>2, <1>3, <1>4

\* A step that writes to no directory and neither adds nor changes a set.
LEMMA SameEntries ==
  ASSUME cont' = cont, dirs' = dirs, Partial' = Partial, Changing' = Changing
  PROVE  Entries' = Entries /\ own' = own
<1>1. Entries' = Entries
  BY DEF Entries
<1>2. Owners' = Owners
  BY <1>1 DEF Owners, ClusOf
<1> QED
  BY <1>1, <1>2 DEF own, ClusOf

LEMMA SameTree ==
  ASSUME EntriesSound, DirsSound, RowsSound, UNCHANGED tree, Entries' = Entries, pc # "set"
  PROVE  EntriesSound' /\ DirsSound' /\ RowsSound'
<1>1. cont' = cont /\ dirs' = dirs /\ home' = home
  BY DEF tree
<1>2. EntriesSound'
  BY <1>1 DEF EntriesSound, ClusOf
<1>3. DirsSound'
  BY <1>1 DEF DirsSound
<1>4. RowsSound'
  BY <1>1 DEF RowsSound, SetName
<1> QED
  BY <1>2, <1>3, <1>4

\* The steps that are neither about a set that is written nor about a chain
\* that is freed.
LEMMA Quiet ==
  ASSUME pc \notin {"set", "unchain", "unchain_bit"}, pc' \notin {"set", "unchain", "unchain_bit"},
         EntriesSound, DirsSound, RowsSound, UNCHANGED tree
  PROVE  /\ EntriesSound' /\ DirsSound' /\ RowsSound' /\ Entries' = Entries /\ own' = own
         /\ cont' = cont /\ dirs' = dirs /\ home' = home
<1>1. cont' = cont /\ dirs' = dirs /\ home' = home
  BY DEF tree
<1>2. Entries' = Entries /\ own' = own
  BY <1>1, SameEntries DEF Partial, Changing
<1> QED
  BY <1>1, <1>2, SameTree

---------------------------------------------------------------------------
(* The actions.                                                            *)

\* A step that writes nothing keeps the volume sound, if what was in hand
\* stays in hand.
LEMMA QuietStep ==
  ASSUME ExInv, UNCHANGED disk, ExTypeOK', leaked' \/ (~leaked /\ InHand \cap Cluster \subseteq InHand'),
         pc \notin {"set", "unchain", "unchain_bit", "xzero", "mark", "xmark", "undo_bit"},
         pc' \notin {"set", "unchain", "unchain_bit", "xzero", "mark", "xmark", "undo_bit"}
  PROVE  /\ ExVolumeSafe' /\ Entries' = Entries /\ own' = own /\ cont' = cont /\ dirs' = dirs
         /\ home' = home /\ fat' = fat
<1>1. fat' = fat /\ bitmap' = bitmap /\ UNCHANGED tree
  BY DEF disk
<1>2. ExVolumeSafe
  BY DEF ExInv
<1>3. /\ EntriesSound' /\ DirsSound' /\ RowsSound' /\ Entries' = Entries /\ own' = own
      /\ cont' = cont /\ dirs' = dirs /\ home' = home
  BY <1>1, <1>2, Quiet DEF ExVolumeSafe
<1>4. BitmapAgrees'
  BY <1>1, <1>2 DEF ExVolumeSafe, BitmapAgrees
<1>5. OneOwner(fat, own)' /\ InUse(fat, own, dirs)'
  BY <1>1, <1>2, <1>3 DEF ExVolumeSafe
<1>6. (leaked \/ NoneLost(fat, own, InHand))'
  <2>1. CASE leaked'
    BY <2>1
  <2>2. CASE ~leaked'
    <3>1. NoneLost(fat, own, InHand)
      BY <1>2, <2>2 DEF ExVolumeSafe
    <3> QED
      BY <1>1, <1>3, <2>2, <3>1 DEF NoneLost
  <2> QED
    BY <2>1, <2>2
<1>7. KindKept(fat, dirs, home, IF pc = "xzero" THEN {cl} ELSE {})'
  BY <1>1, <1>2, <1>3 DEF ExVolumeSafe
<1> QED
  BY <1>1, <1>3, <1>4, <1>5, <1>6, <1>7 DEF ExVolumeSafe

\* Between calls there is nothing to know.
LEMMA IdleOK ==
  ASSUME Reset
  PROVE  CallOK' /\ FoundOK' /\ SetOK' /\ ChainOK' /\ FreeOK'
BY DEF Reset, CallOK, FoundOK, SetOK, ChainOK, FreeOK, Chosen, Placing, Freeing, Undoing, Growing

LEMMA ResetTypes ==
  ASSUME ExTypeOK, Reset, fat \in Table => fat' \in Table, bitmap' \subseteq Cluster,
         cont' \in [Cluster -> Row], dirs' = dirs, home' = home,
         leaked' \in BOOLEAN, acked' \in [UPaths -> Contents \cup {<<>>, NoAck}]
  PROVE  ExTypeOK'
<1>1. Len(<<>>) = 0 /\ RootClus \in Cluster /\ <<RootClus, 0>> \in Cluster \X (0 .. Cells - 1)
  BY Geometry
<1> QED
  BY <1>1, Geometry DEF ExTypeOK, Reset, Table, Row

\* A call that returns without writing.
LEMMA ReturnStep ==
  ASSUME ExInv, NEW ok \in BOOLEAN, Return(ok), UNCHANGED disk, pc \in {"find", "alloc", "xalloc"},
         pc = "alloc" => first = 0, pc = "xalloc" => ~ok, ok => call = "mkdir"
  PROVE  ExInv'
<1>1. Reset /\ acked' = acked /\ leaked' = (leaked \/ (pc = "xalloc" /\ first # 0))
  BY DEF Return
<1>2. pc' = "idle" /\ ExTypeOK
  BY <1>1 DEF Reset, ExInv, ExVolumeSafe
<1>3. ExTypeOK'
  <2>1. leaked' \in BOOLEAN
    BY <1>1, <1>2 DEF ExTypeOK
  <2> QED
    BY <1>1, <1>2, <2>1, ResetTypes DEF ExTypeOK, disk, tree, Table, Row
<1>4. leaked' \/ (~leaked /\ InHand \cap Cluster \subseteq InHand')
  <2>1. CASE leaked'
    BY <2>1
  <2>2. CASE ~leaked'
    <3>1. ~leaked /\ InHand \subseteq {0}
      BY <1>1, <2>2 DEF InHand
    <3> QED
      BY <3>1, Geometry
  <2> QED
    BY <2>1, <2>2
<1>5. ExVolumeSafe'
  BY <1>2, <1>3, <1>4, QuietStep
<1> QED
  BY <1>1, <1>5, IdleOK DEF ExInv

LEMMA BeginStep ==
  ASSUME ExInv, NEW c \in {"write", "mkdir"}, NEW p \in (IF c = "write" THEN FilePaths ELSE DirPaths),
         NEW d \in Contents \cup {<<>>}, Begin(c, p, d), c = "write" => d \in Contents
  PROVE  ExInv'
<1>1. /\ UNCHANGED disk /\ leaked' = leaked /\ pc = "idle" /\ pc' = "find" /\ path' = p /\ call' = c
      /\ comp' = 1 /\ dir_cl' = RootClus /\ cl' = RootClus /\ ExTypeOK /\ kind' = kind
  BY DEF Begin, ExInv, ExVolumeSafe
<1>2. p \in FilePaths \cup DirPaths /\ Len(p) \in Nat \ {0} /\ (c = "write" => Upper1(p) \in UPaths)
  BY PathFacts DEF Upper1
<1>3. ExTypeOK'
  <2>1. acked' \in [UPaths -> Contents \cup {<<>>, NoAck}]
    BY <1>1, <1>2 DEF Begin, ExTypeOK
  <2>2. comp' \in 1 .. Len(path') + 1 /\ path' \in FilePaths \cup DirPaths
    BY <1>1, <1>2
  <2>3. data' \in Contents \cup {<<>>} /\ i' \in 0 .. Cells + Len(data')
    <3>1. i' = 0 /\ data' \in Contents \cup {<<>>}
      BY <1>1 DEF Begin, ExInv, CallOK
    <3>2. Len(data') \in Nat
      BY <3>1, DataFacts
    <3> QED
      BY <3>1, <3>2, Geometry
  <2> QED
    BY <1>1, <2>1, <2>2, <2>3, Geometry DEF Begin, ExTypeOK, disk, tree
<1>4. InHand = {} /\ InHand' = {}
  BY <1>1 DEF InHand
<1>5. ExVolumeSafe' /\ dirs' = dirs /\ home' = home
  BY <1>1, <1>3, <1>4, QuietStep DEF ExTypeOK
<1>6. RootClus \in dirs /\ home[RootClus] = Upto(p, 0)
  BY UptoNone DEF ExInv, ExVolumeSafe, DirsSound
<1>7. CallOK'
  BY <1>1, <1>2, <1>5, <1>6 DEF CallOK, Chosen, Placing, Freeing, Undoing
<1>8. FoundOK' /\ SetOK' /\ ChainOK' /\ FreeOK'
  BY <1>1 DEF FoundOK, SetOK, ChainOK, FreeOK, Chosen, Placing, Freeing, Undoing, Growing
<1> QED
  BY <1>5, <1>7, <1>8 DEF ExInv

\* What exfat_find_in_dir finds is an entry of the directory.
LEMMA FoundFacts ==
  ASSUME ExInv, pc = "find", Hits(cont[cl], Wanted) # {}, NEW j, j = Least(Hits(cont[cl], Wanted))
  PROVE  /\ <<cl, j>> \in Entries /\ ClusOf(<<cl, j>>) = cont[cl][j + 1].clus
         /\ SetName(cont[cl], j) = Wanted /\ cl \in Cluster /\ j \in 0 .. Cells - 1
         /\ cont[cl][j].dir \in BOOLEAN
         /\ cont[cl][j].dir =>
              /\ cont[cl][j + 1].clus \in dirs
              /\ home[cont[cl][j + 1].clus] = Upto(path, comp)
         /\ ~(cont[cl][j].dir /\ ~More /\ call = "write")
<1>1. ExTypeOK /\ EntriesSound /\ DirsSound /\ RowsSound /\ CallOK
  BY DEF ExInv, ExVolumeSafe
<1>2. cl \in dirs /\ home[cl] = Upto(path, comp - 1) /\ path \in FilePaths \cup DirPaths /\ comp \in 1 .. Len(path)
  BY <1>1 DEF CallOK
<1>3. cl \in Cluster /\ cont[cl] \in Row
  BY <1>1, <1>2 DEF ExTypeOK, Row
<1>4. /\ j \in 0 .. Cells - 1 /\ IsSet(cont[cl], j) /\ SetName(cont[cl], j) = Wanted
      /\ \A m \in 0 .. Cells - 1 : m \in Hits(cont[cl], Wanted) => j <= m
  BY <1>3, HitFacts
<1>5. <<cl, j>> \in Entries
  BY <1>2, <1>4 DEF Entries, IsSet, Partial
<1>6. /\ Whole(cont[cl], j)
      /\ cont[cl][j].dir <=> ClusOf(<<cl, j>>) \in dirs
      /\ cont[cl][j].dir => home[ClusOf(<<cl, j>>)] = Append(home[cl], SetName(cont[cl], j))
  BY <1>1, <1>5 DEF EntriesSound
<1>7. ClusOf(<<cl, j>>) = cont[cl][j + 1].clus
  BY <1>4, <1>6, Geometry DEF Whole, ClusOf
<1>8. cont[cl][j].dir \in BOOLEAN
  BY <1>3, <1>4 DEF Row, Cell
<1>9. ASSUME cont[cl][j].dir
      PROVE  cont[cl][j + 1].clus \in dirs /\ home[cont[cl][j + 1].clus] = Upto(path, comp)
  <2>1. Append(Upto(path, comp - 1), Upper[path[comp]]) = Upto(path, comp)
    BY <1>2, PathFacts, UptoFacts
  <2> QED
    BY <1>2, <1>4, <1>6, <1>7, <1>9, <2>1 DEF Wanted
<1>10. ASSUME cont[cl][j].dir, ~More, call = "write" PROVE FALSE
  <2>1. comp = Len(path) /\ path \in FilePaths /\ Len(path) \in Nat \ {0}
    BY <1>1, <1>2, <1>10, PathFacts DEF More, CallOK
  <2>2. Upto(path, comp) \in UPaths
    BY <2>1, PathFacts
  <2>3. Upto(path, comp) # <<>>
    BY <1>2, PathFacts, UptoFacts
  <2>4. Upto(path, comp) \in DirUps
    BY <1>1, <1>9, <1>10, <2>3 DEF DirsSound
  <2>5. Upto(path, comp) = <<Upper[HostFile]>>
    BY <2>2, <2>4, FilesAreNotDirectories
  <2>6. comp = 1 /\ Wanted = Upper[HostFile]
    <3>1. DOMAIN Upto(path, comp) = 1 .. comp /\ DOMAIN <<Upper[HostFile]>> = 1 .. 1
      BY DEF Upto
    <3>2. comp = 1
      BY <1>2, <2>5, <3>1
    <3>3. Upto(path, comp)[1] = Upper[path[1]]
      BY <3>2 DEF Upto
    <3> QED
      BY <2>5, <3>2, <3>3 DEF Wanted
  <2>7. cl = RootClus
    BY <1>1, <2>6 DEF CallOK
  <2>8. /\ <<cl, SysCells>> \in Entries /\ ~cont[cl][SysCells].dir /\ SysCells \in 0 .. Cells - 1
        /\ SetName(cont[cl], SysCells) = Wanted /\ \A k \in 0 .. SysCells - 1 : cont[cl][k].t = "sys"
    BY <1>1, <2>6, <2>7, Geometry DEF RowsSound
  <2>9. cont[cl][SysCells].t = "file"
    BY <2>8 DEF Entries
  <2>10. IsSet(cont[cl], SysCells)
    BY <1>1, <2>8 DEF EntriesSound
  <2>11. \A k \in 0 .. SysCells : cont[cl][k].t # "end"
    BY <2>8, <2>9, Geometry
  <2>12. SysCells \in Hits(cont[cl], Wanted)
    BY <2>8, <2>10, <2>11 DEF Hits, Visible
  <2>13. j <= SysCells
    BY <1>4, <2>8, <2>12
  <2>14. cont[cl][j].t = "file"
    BY <1>4 DEF IsSet
  <2>15. j = SysCells
    BY <1>4, <2>8, <2>13, <2>14, Geometry
  <2> QED
    BY <1>10, <2>8, <2>15
<1> QED
  BY <1>2, <1>3, <1>4, <1>5, <1>7, <1>8, <1>9, <1>10

\* The step to a directory that was found.
LEMMA DescendStep ==
  ASSUME ExInv, pc = "find", More, NEW c \in dirs, home[c] = Upto(path, comp), Descend(c)
  PROVE  ExInv'
<1>1. /\ UNCHANGED <<disk, leaked, acked, call, path, data, loc, kind, first, prev, new_cl, i>>
      /\ comp' = comp + 1 /\ dir_cl' = c /\ cl' = c /\ pc' = "find"
  BY DEF Descend, Goto
<1>2. ExTypeOK /\ CallOK /\ path \in FilePaths \cup DirPaths /\ comp \in 1 .. Len(path)
  BY DEF ExInv, ExVolumeSafe, CallOK
<1>3. comp + 1 \in 1 .. Len(path) /\ comp + 1 # 1
  BY <1>2, PathFacts DEF More
<1>4. ExTypeOK'
  BY <1>1, <1>2, <1>3, PathFacts DEF ExTypeOK, disk, tree
<1>5. InHand = {} /\ InHand' = {} /\ leaked \in BOOLEAN /\ leaked' = leaked
  BY <1>1, <1>2 DEF InHand, ExTypeOK
<1>6. ExVolumeSafe' /\ dirs' = dirs /\ home' = home
  BY <1>1, <1>4, <1>5, QuietStep
<1>7. CallOK'
  BY <1>1, <1>2, <1>3, <1>6 DEF CallOK, Chosen, Placing, Freeing, Undoing
<1>8. FoundOK' /\ SetOK' /\ ChainOK' /\ FreeOK'
  BY <1>1 DEF FoundOK, SetOK, ChainOK, FreeOK, Chosen, Placing, Freeing, Undoing, Growing
<1> QED
  BY <1>6, <1>7, <1>8 DEF ExInv

LEMMA FoundStep == ASSUME ExInv, Found PROVE ExInv'
<1> DEFINE j == Least(Hits(cont[cl], Wanted))
<1>1. pc = "find" /\ Hits(cont[cl], Wanted) # {} /\ ExTypeOK /\ CallOK
  BY DEF Found, ExInv, ExVolumeSafe
<1>2. /\ <<cl, j>> \in Entries /\ SetName(cont[cl], j) = Wanted /\ cl \in Cluster /\ j \in 0 .. Cells - 1
      /\ cont[cl][j].dir \in BOOLEAN
      /\ cont[cl][j].dir => /\ cont[cl][j + 1].clus \in dirs
                            /\ home[cont[cl][j + 1].clus] = Upto(path, comp)
      /\ ~(cont[cl][j].dir /\ ~More /\ call = "write")
  BY <1>1, FoundFacts
<1>3. CASE cont[cl][j].dir /\ More /\ Descend(cont[cl][j + 1].clus)
  BY <1>1, <1>2, <1>3, DescendStep
<1>4. CASE ~More /\ call = "mkdir" /\ Return(TRUE) /\ UNCHANGED disk
  BY <1>1, <1>4, ReturnStep
<1>5. CASE Fail
  BY <1>1, <1>5, ReturnStep DEF Fail
<1>6. CASE /\ ~More /\ call = "write" /\ loc' = <<cl, j>>
           /\ Goto(IF data = <<>> THEN "free" ELSE "alloc") /\ Allocate("old")
  <2>1. /\ UNCHANGED <<disk, leaked, acked, call, path, comp, data, dir_cl, cl, new_cl>>
        /\ kind' = "old" /\ first' = 0 /\ prev' = 0 /\ i' = 0 /\ pc' \in {"free", "alloc"}
        /\ pc' = IF data = <<>> THEN "free" ELSE "alloc"
    BY <1>6 DEF Goto, Allocate
  <2>2. path \in FilePaths \cup DirPaths /\ data \in Contents \cup {<<>>} /\ Len(data) \in Nat
    BY <1>1, DataFacts DEF CallOK, ExTypeOK
  <2>3. ExTypeOK'
    BY <1>1, <1>2, <1>6, <2>1, <2>2, Geometry DEF ExTypeOK, disk, tree
  <2>4. InHand = {} /\ leaked \in BOOLEAN /\ leaked' = leaked
    BY <1>1, <2>1 DEF InHand, ExTypeOK
  <2>5. /\ ExVolumeSafe' /\ Entries' = Entries /\ own' = own /\ cont' = cont /\ dirs' = dirs
        /\ home' = home /\ fat' = fat
    BY <1>1, <2>1, <2>3, <2>4, QuietStep
  <2>6. CallOK'
    BY <1>1, <1>6, <2>1, <2>5 DEF CallOK, Chosen, Placing, Freeing, Undoing, More
  <2>7. FoundOK'
    <3>1. loc' \in Entries' /\ loc'[1] = cl /\ loc'[2] = j
      BY <1>2, <1>6, <2>5
    <3>2. Wanted' = Wanted
      BY <2>1 DEF Wanted
    <3>3. ~cont[cl][j].dir
      BY <1>2, <1>6
    <3>4. SetName(cont[loc[1]], loc[2])' = SetName(cont[cl], j)
      BY <2>5, <3>1 DEF SetName
    <3> QED
      BY <1>2, <2>5, <3>1, <3>2, <3>3, <3>4 DEF FoundOK
  <2>8. SetOK' /\ FreeOK'
    BY <2>1 DEF SetOK, FreeOK
  <2>9. ChainOK'
    <3>1. pc' = "alloc" => Len(data') > 0
      BY <2>1, <2>2, DataFacts
    <3>2. 0 \notin dirs'
      BY <1>1, <2>5, Geometry DEF ExTypeOK
    <3> QED
      BY <2>1, <3>1, <3>2 DEF ChainOK, Growing, Placing, Freeing, Need
  <2> QED
    BY <2>5, <2>6, <2>7, <2>8, <2>9 DEF ExInv
<1> QED
  BY <1>1, <1>3, <1>4, <1>5, <1>6 DEF Found

\* A directory goes on in the cluster that follows.
LEMMA NextCluster ==
  ASSUME ExInv, cl \in dirs, pc # "xzero", fat[cl] # EOC
  PROVE  fat[cl] \in dirs /\ fat[cl] \in Cluster /\ home[fat[cl]] = home[cl]
<1>1. ExTypeOK /\ InUse(fat, own, dirs) /\ KindKept(fat, dirs, home, {})
  BY DEF ExInv, ExVolumeSafe
<1>2. fat[cl] \in Cluster /\ cl \in Cluster
  BY <1>1 DEF ExTypeOK, InUse
<1> QED
  BY <1>1, <1>2 DEF KindKept

LEMMA FindNextStep == ASSUME ExInv, FindNext PROVE ExInv'
<1>1. /\ UNCHANGED <<disk, leaked, acked, call, path, comp, data, dir_cl, loc, kind, first, prev, new_cl, i>>
      /\ cl' = fat[cl] /\ pc' = "find" /\ pc = "find" /\ fat[cl] # EOC /\ Hits(cont[cl], Wanted) = {}
  BY DEF FindNext, Goto
<1>2. ExTypeOK /\ CallOK /\ cl \in dirs /\ EntriesSound /\ RowsSound
  BY <1>1 DEF ExInv, ExVolumeSafe, CallOK
<1>3. cl' \in dirs /\ cl' \in Cluster /\ home[cl'] = home[cl]
  BY <1>1, <1>2, NextCluster
<1>4. ExTypeOK'
  BY <1>1, <1>2, <1>3 DEF ExTypeOK, disk, tree
<1>5. InHand = {} /\ InHand' = {} /\ leaked \in BOOLEAN /\ leaked' = leaked
  BY <1>1, <1>2 DEF InHand, ExTypeOK
<1>6. ExVolumeSafe' /\ dirs' = dirs /\ home' = home
  BY <1>1, <1>4, <1>5, QuietStep
<1>7. ~(comp = 1 /\ Wanted = Upper[HostFile])
  <2> SUFFICES ASSUME comp = 1, Wanted = Upper[HostFile] PROVE FALSE
    OBVIOUS
  <2>1. cl = RootClus
    BY <1>1, <1>2 DEF CallOK
  <2>2. /\ <<cl, SysCells>> \in Entries /\ SysCells \in 0 .. Cells - 1
        /\ SetName(cont[cl], SysCells) = Wanted /\ \A k \in 0 .. SysCells - 1 : cont[cl][k].t = "sys"
    BY <1>2, <2>1, Geometry DEF RowsSound
  <2>3. cont[cl][SysCells].t = "file"
    BY <2>2 DEF Entries
  <2>4. IsSet(cont[cl], SysCells)
    BY <1>1, <1>2, <2>2 DEF EntriesSound
  <2>5. \A k \in 0 .. SysCells : cont[cl][k].t # "end"
    BY <2>2, <2>3, Geometry
  <2>6. SysCells \in Hits(cont[cl], Wanted)
    BY <2>2, <2>4, <2>5 DEF Hits, Visible
  <2> QED
    BY <1>1, <2>6
<1>8. CallOK'
  BY <1>1, <1>2, <1>3, <1>6, <1>7 DEF CallOK, Chosen, Placing, Freeing, Undoing, Wanted
<1>9. FoundOK' /\ SetOK' /\ ChainOK' /\ FreeOK'
  BY <1>1 DEF FoundOK, SetOK, ChainOK, FreeOK, Chosen, Placing, Freeing, Undoing, Growing
<1> QED
  BY <1>6, <1>8, <1>9 DEF ExInv

LEMMA NotFoundStep == ASSUME ExInv, NotFound PROVE ExInv'
<1>1. /\ UNCHANGED <<disk, leaked, acked, call, path, comp, data, dir_cl, loc, new_cl>>
      /\ cl' = dir_cl /\ first' = 0 /\ prev' = 0 /\ i' = 0 /\ pc = "find"
      /\ kind' = (IF More \/ call = "mkdir" THEN "dir" ELSE "new")
      /\ pc' = (IF kind' = "new" /\ data = <<>> THEN "slot" ELSE "alloc")
  BY DEF NotFound, Goto
<1>2. ExTypeOK /\ CallOK /\ dir_cl \in dirs /\ data \in Contents \cup {<<>>} /\ Len(data) \in Nat
  BY <1>1, DataFacts DEF ExInv, ExVolumeSafe, CallOK, ExTypeOK
<1>3. ExTypeOK'
  BY <1>1, <1>2, Geometry DEF ExTypeOK, disk, tree
<1>4. InHand = {} /\ leaked \in BOOLEAN /\ leaked' = leaked
  BY <1>1, <1>2 DEF InHand, ExTypeOK
<1>5. ExVolumeSafe' /\ dirs' = dirs /\ home' = home
  BY <1>1, <1>3, <1>4, QuietStep
<1>6. CallOK'
  BY <1>1, <1>2, <1>5 DEF CallOK, Chosen, Placing, Freeing, Undoing, More
<1>7. FoundOK' /\ SetOK' /\ FreeOK'
  BY <1>1 DEF FoundOK, SetOK, FreeOK
<1>8. ChainOK'
  <2>1. pc' = "alloc" => 0 < Need'
    BY <1>1, <1>2, DataFacts DEF Need
  <2>2. 0 \notin dirs'
    BY <1>2, <1>5, Geometry DEF ExTypeOK
  <2>3. pc' = "slot" => kind' # "dir"
    BY <1>1
  <2> QED
    BY <1>1, <2>1, <2>2, <2>3 DEF ChainOK, Growing, Placing, Freeing
<1> QED
  BY <1>5, <1>6, <1>7, <1>8 DEF ExInv

---------------------------------------------------------------------------
(* Building a chain.                                                       *)

LEMMA FreeClusterFacts ==
  ASSUME ExInv, FreeClusters # {}
  PROVE  Least(FreeClusters) \in Cluster /\ fat[Least(FreeClusters)] = 0
<1>1. FreeClusters \subseteq Cluster /\ FreeClusters \subseteq Nat
  BY GeometryAssumption DEF FreeClusters, Cluster
<1>2. Least(FreeClusters) \in FreeClusters
  BY <1>1, LeastIn
<1> QED
  BY <1>1, <1>2 DEF FreeClusters

\* exfat_alloc_cluster's first write, for a chain or for a directory.
LEMMA Taking ==
  ASSUME ExInv, pc \in {"alloc", "xalloc"}, pc' = (IF pc = "alloc" THEN "mark" ELSE "xmark"),
         NEW c \in Cluster, fat[c] = 0, new_cl' = c, fat' = [fat EXCEPT ![c] = EOC],
         UNCHANGED <<bitmap, tree, leaked, acked, call, path, comp, data, dir_cl, cl, loc, kind, first, prev, i>>
  PROVE  /\ ExVolumeSafe' /\ own' = own /\ Entries' = Entries /\ cont' = cont /\ dirs' = dirs /\ home' = home
         /\ Fresh(new_cl)' /\ fat'[c] = EOC /\ \A d \in Cluster : fat[d] # 0 => fat'[d] = fat[d]
         /\ \A d \in Cluster : Loose(fat, own, d)' <=> Loose(fat, own, d)
<1>1. ExVolumeSafe /\ ExTypeOK
  BY DEF ExInv, ExVolumeSafe
<1>2. /\ EntriesSound' /\ DirsSound' /\ RowsSound' /\ Entries' = Entries /\ own' = own
      /\ cont' = cont /\ dirs' = dirs /\ home' = home
  BY <1>1, Quiet DEF ExVolumeSafe
<1>3. /\ fat \in Table /\ dirs \subseteq Cluster /\ \A e \in DOMAIN own : own[e] \in Cluster
      /\ OneOwner(fat, own) /\ InUse(fat, own, dirs)
  BY <1>1, EntryFacts DEF ExVolumeSafe
<1>4. /\ fat' \in Table /\ OneOwner(fat', own) /\ InUse(fat', own, dirs)
      /\ \A d \in Cluster : Loose(fat', own, d) <=> Loose(fat, own, d)
      /\ \A H : NoneLost(fat, own, H) => NoneLost(fat', own, H \cup {c})
      /\ \A h, x : KindKept(fat, dirs, h, x) => KindKept(fat', dirs, h, x)
  BY <1>3, AllocFat
<1>5. Loose(fat, own, c) /\ c \notin dirs
  BY <1>3, FreeIsLoose
<1>6. fat'[c] = EOC /\ \A d \in Cluster : fat[d] # 0 => fat'[d] = fat[d]
  BY <1>3, <1>4 DEF Table
<1>7. ExTypeOK'
  BY <1>1, <1>2, <1>4 DEF ExTypeOK, Table
<1>8. BitmapAgrees'
  <2>1. bitmap = {d \in Cluster : fat[d] # 0}
    BY <1>1 DEF ExVolumeSafe, BitmapAgrees
  <2>2. bitmap' = {d \in Cluster : fat'[d] # 0} \ {c}
    BY <1>3, <2>1 DEF Table
  <2> QED
    BY <2>2 DEF BitmapAgrees
<1>9. (leaked \/ NoneLost(fat, own, InHand))'
  <2>1. InHand' = InHand \cup {c}
    BY DEF InHand
  <2> QED
    BY <1>1, <1>2, <1>4, <2>1 DEF ExVolumeSafe
<1>10. KindKept(fat, dirs, home, IF pc = "xzero" THEN {cl} ELSE {})'
  BY <1>1, <1>2, <1>4 DEF ExVolumeSafe
<1>11. Fresh(new_cl)'
  BY <1>2, <1>4, <1>5, <1>6, Geometry DEF Fresh
<1>12. ExVolumeSafe'
  BY <1>2, <1>4, <1>7, <1>8, <1>9, <1>10 DEF ExVolumeSafe
<1> QED
  BY <1>2, <1>4, <1>6, <1>11, <1>12

LEMMA AllocStep == ASSUME ExInv, Alloc PROVE ExInv'
<1> DEFINE c == Least(FreeClusters)
<1>1. /\ UNCHANGED <<bitmap, tree, leaked, acked, call, path, comp, data, dir_cl, cl, loc, kind, first, prev, i>>
      /\ new_cl' = c /\ fat' = [fat EXCEPT ![c] = EOC] /\ pc = "alloc" /\ pc' = "mark"
      /\ c \in Cluster /\ fat[c] = 0
  BY FreeClusterFacts DEF Alloc, Goto
<1>2. /\ ExVolumeSafe' /\ own' = own /\ Entries' = Entries /\ cont' = cont /\ dirs' = dirs /\ home' = home
      /\ Fresh(new_cl)' /\ fat'[c] = EOC /\ \A d \in Cluster : fat[d] # 0 => fat'[d] = fat[d]
      /\ \A d \in Cluster : Loose(fat', own', d) <=> Loose(fat, own, d)
  BY <1>1, Taking
<1>3. CallOK /\ FoundOK /\ ChainOK /\ ExTypeOK
  BY DEF ExInv, ExVolumeSafe
<1>4. CallOK'
  BY <1>1, <1>2, <1>3 DEF CallOK, Chosen, Placing, Freeing, Undoing, More
<1>5. FoundOK'
  BY <1>1, <1>2, <1>3 DEF FoundOK, Chosen, SetName, Wanted
<1>6. SetOK' /\ FreeOK'
  BY <1>1 DEF SetOK, FreeOK
<1>7. ChainOK'
  <2>1. /\ i < Need /\ (first = 0 <=> prev = 0) /\ (first # 0 => Fresh(first)) /\ (kind = "dir" => first = 0)
        /\ prev # 0 => prev \in Cluster \ dirs /\ fat[prev] = EOC
    BY <1>1, <1>3 DEF ChainOK, Growing
  <2>2. first # 0 => Fresh(first)' /\ first # c
    BY <1>1, <1>2, <2>1, Geometry DEF Fresh
  <2>3. prev # 0 => prev # c /\ fat'[prev] = EOC
    BY <1>1, <1>2, <2>1, Geometry
  <2>4. c # 0
    BY <1>1, Geometry
  <2>5. Need' = Need
    BY <1>1 DEF Need
  <2> QED
    BY <1>1, <1>2, <2>1, <2>2, <2>3, <2>4, <2>5 DEF ChainOK, Growing, Placing, Freeing
<1> QED
  BY <1>2, <1>4, <1>5, <1>6, <1>7 DEF ExInv

LEMMA AllocFailStep == ASSUME ExInv, AllocFail PROVE ExInv'
<1>1. CASE pc = "alloc" /\ first = 0 /\ Fail
  BY <1>1, ReturnStep DEF Fail
<1>2. CASE /\ pc = "alloc" /\ first # 0 /\ cl' = first /\ Goto("undo")
           /\ UNCHANGED <<disk, leaked, call, path, comp, data, dir_cl, loc, kind, first, prev, new_cl, i>>
  <2>1. /\ UNCHANGED <<disk, leaked, acked, call, path, comp, data, dir_cl, loc, kind, first, prev, new_cl, i>>
        /\ pc' = "undo" /\ cl' = first
    BY <1>2 DEF Goto
  <2>2. CallOK /\ FoundOK /\ ExTypeOK /\ Fresh(first) /\ kind # "dir"
    BY <1>2 DEF ExInv, ExVolumeSafe, ChainOK, Growing
  <2>3. ExTypeOK'
    BY <2>1, <2>2 DEF ExTypeOK, disk, tree, Fresh
  <2>4. InHand = InHand' /\ leaked \in BOOLEAN /\ leaked' = leaked
    BY <1>2, <2>1, <2>2 DEF InHand, ExTypeOK
  <2>5. /\ ExVolumeSafe' /\ Entries' = Entries /\ own' = own /\ cont' = cont /\ dirs' = dirs
        /\ home' = home /\ fat' = fat
    BY <1>2, <2>1, <2>3, <2>4, QuietStep
  <2>6. CallOK'
    BY <1>2, <2>1, <2>2, <2>5 DEF CallOK, Chosen, Placing, Freeing, Undoing, More
  <2>7. FoundOK'
    BY <1>2, <2>1, <2>2, <2>5 DEF FoundOK, Chosen, SetName, Wanted
  <2>8. SetOK' /\ ChainOK'
    BY <2>1 DEF SetOK, ChainOK, Growing, Placing, Freeing
  <2>9. FreeOK'
    BY <2>1, <2>2, <2>5 DEF FreeOK, Fresh
  <2> QED
    BY <2>5, <2>6, <2>7, <2>8, <2>9 DEF ExInv
<1> QED
  BY <1>1, <1>2 DEF AllocFail

\* exfat_mark_bitmap changes the bitmap only.
LEMMA MarkStep == ASSUME ExInv, Mark \/ ExtendMark PROVE ExInv'
<1>1. /\ UNCHANGED <<fat, tree, leaked, acked, call, path, comp, data, dir_cl, cl, loc, kind, first, prev, new_cl, i>>
      /\ bitmap' = bitmap \cup {new_cl}
      /\ pc \in {"mark", "xmark"} /\ pc' = IF pc = "mark" THEN "link" ELSE "xlink"
  BY DEF Mark, ExtendMark, Goto, frame
<1>2. ExVolumeSafe /\ ExTypeOK /\ CallOK /\ FoundOK /\ ChainOK
  BY DEF ExInv, ExVolumeSafe
<1>3. /\ EntriesSound' /\ DirsSound' /\ RowsSound' /\ Entries' = Entries /\ own' = own
      /\ cont' = cont /\ dirs' = dirs /\ home' = home
  BY <1>1, <1>2, Quiet DEF ExVolumeSafe
<1>4. Fresh(new_cl)
  BY <1>1, <1>2 DEF ChainOK
<1>5. ExTypeOK'
  BY <1>1, <1>2, <1>3, <1>4 DEF ExTypeOK, Fresh
<1>6. BitmapAgrees'
  <2>1. bitmap = {d \in Cluster : fat[d] # 0} \ {new_cl}
    BY <1>1, <1>2 DEF ExVolumeSafe, BitmapAgrees
  <2>2. bitmap' = {d \in Cluster : fat'[d] # 0}
    BY <1>1, <1>4, <2>1 DEF Fresh
  <2> QED
    BY <1>1, <2>2 DEF BitmapAgrees
<1>7. InHand' = InHand
  BY <1>1 DEF InHand
<1>8. ExVolumeSafe'
  BY <1>1, <1>2, <1>3, <1>5, <1>6, <1>7 DEF ExVolumeSafe
<1>9. CallOK'
  BY <1>1, <1>2, <1>3 DEF CallOK, Chosen, Placing, Freeing, Undoing, More
<1>10. FoundOK'
  BY <1>1, <1>2, <1>3 DEF FoundOK, Chosen, SetName, Wanted
<1>11. SetOK' /\ FreeOK'
  BY <1>1 DEF SetOK, FreeOK
<1>12. ChainOK'
  BY <1>1, <1>2, <1>3 DEF ChainOK, Growing, Placing, Freeing, Need, Fresh
<1> QED
  BY <1>8, <1>9, <1>10, <1>11, <1>12 DEF ExInv

LEMMA LinkStep == ASSUME ExInv, Link PROVE ExInv'
<1>1. /\ UNCHANGED <<bitmap, tree, leaked, acked, call, path, comp, data, dir_cl, loc, kind, new_cl>>
      /\ pc = "link" /\ fat' = (IF prev = 0 THEN fat ELSE [fat EXCEPT ![prev] = new_cl])
      /\ first' = (IF first = 0 THEN new_cl ELSE first) /\ prev' = new_cl
      /\ i' = (IF i + 1 < Need THEN i + 1 ELSE 0)
      /\ cl' = (IF i + 1 < Need THEN cl ELSE first')
      /\ pc' = IF i + 1 < Need THEN "alloc" ELSE "data"
  BY DEF Link, Goto
<1>2. ExVolumeSafe /\ ExTypeOK /\ CallOK /\ FoundOK /\ ChainOK
  BY DEF ExInv, ExVolumeSafe
<1>3. /\ EntriesSound' /\ DirsSound' /\ RowsSound' /\ Entries' = Entries /\ own' = own
      /\ cont' = cont /\ dirs' = dirs /\ home' = home
  BY <1>1, <1>2, Quiet DEF ExVolumeSafe
<1>4. /\ i < Need /\ (first = 0 <=> prev = 0) /\ (first # 0 => Fresh(first)) /\ (kind = "dir" => first = 0)
      /\ prev # 0 => prev \in Cluster \ dirs /\ fat[prev] = EOC
      /\ Fresh(new_cl) /\ fat[new_cl] = EOC /\ new_cl # first /\ new_cl # prev
  BY <1>1, <1>2 DEF ChainOK, Growing
<1>5. /\ fat \in Table /\ dirs \subseteq Cluster /\ \A e \in DOMAIN own : own[e] \in Cluster
      /\ OneOwner(fat, own) /\ InUse(fat, own, dirs) /\ KindKept(fat, dirs, home, {})
      /\ (leaked \/ NoneLost(fat, own, InHand))
  BY <1>1, <1>2, EntryFacts DEF ExVolumeSafe
<1>6. /\ fat' \in Table /\ OneOwner(fat', own) /\ InUse(fat', own, dirs) /\ KindKept(fat', dirs, home, {})
      /\ (leaked \/ NoneLost(fat', own, {first'}))
      /\ first' # 0 /\ first' \in Cluster \ dirs /\ Loose(fat', own, first') /\ fat'[first'] # 0
      /\ fat'[new_cl] = EOC /\ \A d \in Cluster : fat'[d] = 0 <=> fat[d] = 0
  <2>1. CASE prev = 0
    <3>1. fat' = fat /\ first = 0 /\ first' = new_cl
      BY <1>1, <1>4, <2>1
    <3>2. leaked \/ NoneLost(fat', own, {first'})
      <4>1. InHand = {0, new_cl}
        BY <1>1, <3>1 DEF InHand
      <4> QED
        BY <1>5, <3>1, <4>1, Geometry DEF NoneLost
    <3> QED
      BY <1>4, <1>5, <3>1, <3>2, Geometry DEF Fresh
  <2>2. CASE prev # 0
    <3>1. fat' = [fat EXCEPT ![prev] = new_cl] /\ first # 0 /\ first' = first
      BY <1>1, <1>4, <2>2
    <3>2. prev \in Cluster /\ prev \notin dirs /\ fat[prev] = EOC
      BY <1>4, <2>2
    <3>3. new_cl \in Cluster /\ Loose(fat, own, new_cl) /\ fat[new_cl] # 0 /\ new_cl \notin dirs
      BY <1>4 DEF Fresh
    <3>4. /\ fat' \in Table /\ OneOwner(fat', own) /\ InUse(fat', own, dirs)
          /\ \A d \in Cluster \ {new_cl} : Loose(fat', own, d) <=> Loose(fat, own, d)
          /\ \A H : NoneLost(fat, own, H) => NoneLost(fat', own, H \ {new_cl})
          /\ \A h, x : KindKept(fat, dirs, h, x) /\ prev \notin dirs /\ new_cl \notin dirs
                      => KindKept(fat', dirs, h, x)
          /\ \A h : KindKept(fat, dirs, h, {}) => KindKept(fat', dirs, h, {prev})
      <4>1. fat \in Table /\ dirs \subseteq Cluster /\ \A e \in DOMAIN own : own[e] \in Cluster
        BY <1>5
      <4>2. OneOwner(fat, own) /\ InUse(fat, own, dirs) /\ Loose(fat, own, new_cl)
        BY <1>5, <3>3
      <4>3. prev \in Cluster /\ new_cl \in Cluster /\ fat[prev] = EOC /\ fat[new_cl] # 0
        BY <3>2, <3>3
      <4>4. fat' = [fat EXCEPT ![prev] = new_cl]
        BY <3>1
      <4> QED
        BY <4>1, <4>2, <4>3, <4>4, LinkFat
    <3>5. leaked \/ NoneLost(fat', own, {first'})
      <4>1. InHand = {first, new_cl} /\ InHand \ {new_cl} = {first}
        BY <1>1, <1>4 DEF InHand
      <4> QED
        BY <1>5, <3>1, <3>4, <4>1
    <3>6. \A d \in Cluster : fat'[d] = IF d = prev THEN new_cl ELSE fat[d]
      BY <1>5, <3>1 DEF Table
    <3>7. Fresh(first)
      BY <1>4, <3>1
    <3> QED
      BY <1>4, <1>5, <3>1, <3>2, <3>3, <3>4, <3>5, <3>6, <3>7, Geometry DEF Fresh
  <2> QED
    BY <2>1, <2>2
<1>7. data \in Contents \cup {<<>>} /\ Len(data) \in Nat /\ Need' = Need /\ i \in Nat /\ Need \in Nat
  BY <1>1, <1>2, DataFacts, Geometry DEF ExTypeOK, Need
<1>8. ExTypeOK'
  <2>1. i' \in 0 .. Cells + Len(data')
    BY <1>1, <1>7, Geometry DEF Need
  <2>2. {first', new_cl'} \subseteq {0} \cup Cluster /\ prev' \in {0, EOC} \cup Cluster /\ cl' \in Cluster
    BY <1>1, <1>2, <1>4, <1>6 DEF ExTypeOK, Fresh
  <2> QED
    BY <1>1, <1>2, <1>3, <1>6, <2>1, <2>2 DEF ExTypeOK, Table
<1>9. BitmapAgrees'
  <2>1. bitmap = {d \in Cluster : fat[d] # 0}
    BY <1>1, <1>2 DEF ExVolumeSafe, BitmapAgrees
  <2>2. bitmap' = {d \in Cluster : fat'[d] # 0}
    BY <1>1, <1>6, <2>1
  <2> QED
    BY <1>1, <2>2 DEF BitmapAgrees
<1>10. InHand' = {first'} /\ pc' # "xzero"
  BY <1>1 DEF InHand
<1>11. ExVolumeSafe'
  BY <1>1, <1>3, <1>6, <1>8, <1>9, <1>10 DEF ExVolumeSafe
<1>12. CallOK'
  BY <1>1, <1>2, <1>3 DEF CallOK, Chosen, Placing, Freeing, Undoing, More
<1>13. FoundOK'
  BY <1>1, <1>2, <1>3 DEF FoundOK, Chosen, SetName, Wanted
<1>14. SetOK' /\ FreeOK'
  BY <1>1 DEF SetOK, FreeOK
<1>15. ChainOK'
  <2>1. Fresh(first)' /\ prev' # 0 /\ prev' \in Cluster \ dirs' /\ fat'[prev'] = EOC
    BY <1>1, <1>3, <1>4, <1>6, Geometry DEF Fresh
  <2>2. i' < Need'
    BY <1>1, <1>4, <1>7
  <2>3. pc' = "alloc" => kind' # "dir"
    BY <1>1, <1>4, <1>7 DEF Need
  <2>4. pc' = "data" => cl' = first' /\ (kind' = "dir" => fat'[cl'] = EOC)
    BY <1>1, <1>4, <1>6
  <2> QED
    BY <1>1, <1>3, <1>6, <2>1, <2>2, <2>3, <2>4 DEF ChainOK, Growing, Placing, Freeing
<1> QED
  BY <1>11, <1>12, <1>13, <1>14, <1>15 DEF ExInv

\* A cluster that belongs to no directory is filled with data, or cleared and
\* made a directory: the entries are the same.
LEMMA WriteOutside ==
  ASSUME ExTypeOK, EntriesSound, DirsSound, RowsSound, NEW c \in Cluster \ dirs, NEW row \in Row,
         cont' = [cont EXCEPT ![c] = row],
         \/ dirs' = dirs /\ home' = home
         \/ /\ dirs' = dirs \cup {c} /\ row = Zeroed /\ c \notin Reserved /\ \A e \in Entries : ClusOf(e) # c
            /\ \E v \in DirUps \cup {<<>>} : home' = [home EXCEPT ![c] = v],
         Partial = {}, Changing = {}, Changing' = {}, pc # "set",
         Partial' = {} \/ (Partial' = {loc'} /\ loc'[1] = c)
  PROVE  /\ EntriesSound' /\ DirsSound' /\ RowsSound' /\ Entries' = Entries /\ own' = own
         /\ \A d \in Cluster \ {c} : cont'[d] = cont[d] /\ home'[d] = home[d]
<1>1. /\ cont \in [Cluster -> Row] /\ dirs \subseteq Cluster /\ home \in [Cluster -> Seq(UNames)]
      /\ \A e \in Entries : /\ e = <<e[1], e[2]>> /\ e[1] \in dirs /\ e[2] \in 0 .. Cells - 1
                            /\ cont[e[1]][e[2]].t = "file" /\ ClusOf(e) \in {0} \cup Cluster
  BY EntryFacts
<1>2. cont'[c] = row /\ \A d \in Cluster \ {c} : cont'[d] = cont[d] /\ home'[d] = home[d]
  BY <1>1
<1>3. c \in dirs' => \A j \in 0 .. Cells - 1 : cont'[c][j].t = "end"
  BY <1>2, CellTypes
<1>4. Entries' = Entries
  <2>1. ASSUME NEW e PROVE e \in Entries' <=> e \in Entries
    <3>1. CASE e \in Entries
      <4>1. e[1] # c /\ cont'[e[1]] = cont[e[1]] /\ e[1] \in dirs'
        BY <1>1, <1>2, <3>1
      <4>2. e \notin Partial'
        BY <4>1
      <4> QED
        BY <1>1, <3>1, <4>1, <4>2 DEF Entries
    <3>2. CASE e \in Entries'
      <4>1. e = <<e[1], e[2]>> /\ e[1] \in dirs' /\ e[2] \in 0 .. Cells - 1 /\ cont'[e[1]][e[2]].t = "file"
        BY <3>2 DEF Entries
      <4>2. e[1] # c
        BY <1>3, <4>1
      <4>3. e[1] \in dirs /\ cont'[e[1]] = cont[e[1]]
        BY <1>1, <1>2, <4>1, <4>2
      <4> QED
        BY <4>1, <4>3 DEF Entries
    <3> QED
      BY <3>1, <3>2
  <2> QED
    BY <2>1
<1>5. \A e \in Entries : e[1] # c /\ cont'[e[1]] = cont[e[1]] /\ ClusOf(e)' = ClusOf(e)
  BY <1>1, <1>2 DEF ClusOf
<1>6. own' = own
  <2>1. Owners' = Owners
    BY <1>4, <1>5 DEF Owners
  <2>2. \A e \in Owners : ClusOf(e)' = ClusOf(e)
    BY <1>5 DEF Owners
  <2> QED
    BY <2>1, <2>2 DEF own
<1>7. \A e \in Entries : /\ ClusOf(e) \in dirs' <=> ClusOf(e) \in dirs
                         /\ ClusOf(e) \in dirs => home'[ClusOf(e)] = home[ClusOf(e)]
                         /\ home'[e[1]] = home[e[1]]
  BY <1>1, <1>2
<1>8. EntriesSound'
  <2> SUFFICES ASSUME NEW e \in Entries'
               PROVE  LET r == cont'[e[1]] IN
                      /\ Whole(r, e[2])
                      /\ r[e[2]].dir <=> ClusOf(e)' \in dirs'
                      /\ r[e[2]].dir => home'[ClusOf(e)'] = Append(home'[e[1]], SetName(r, e[2]))
                      /\ ~(pc' = "set" /\ e = loc') => IsSet(r, e[2])
    BY DEF EntriesSound
  <2>1. /\ Whole(cont[e[1]], e[2])
        /\ cont[e[1]][e[2]].dir <=> ClusOf(e) \in dirs
        /\ cont[e[1]][e[2]].dir => home[ClusOf(e)] = Append(home[e[1]], SetName(cont[e[1]], e[2]))
        /\ IsSet(cont[e[1]], e[2])
    BY <1>4 DEF EntriesSound
  <2> QED
    BY <1>4, <1>5, <1>7, <2>1
<1>9. DirsSound'
  BY <1>1, <1>2 DEF DirsSound
<1>10. RowsSound'
  <2>1. RootClus # c /\ RootClus \in Cluster
    BY Geometry DEF DirsSound
  <2>2. \A d \in dirs' : \A j, k \in 0 .. Cells - 1 :
          j < k /\ cont'[d][j].t = "end" => cont'[d][k].t = "end"
    BY <1>1, <1>2, <1>3 DEF RowsSound
  <2> QED
    BY <1>2, <1>4, <2>1, <2>2 DEF RowsSound, SetName
<1> QED
  BY <1>2, <1>4, <1>6, <1>8, <1>9, <1>10

LEMMA WriteChainStep == ASSUME ExInv, WriteChain PROVE ExInv'
<1>1. /\ UNCHANGED <<fat, bitmap, leaked, acked, call, path, comp, data, dir_cl, loc, kind, first, prev, new_cl>>
      /\ pc = "data"
      /\ cont' = [cont EXCEPT ![cl] = IF kind = "dir" THEN Zeroed ELSE Raw(data[i + 1])]
      /\ dirs' = (IF kind = "dir" THEN dirs \cup {cl} ELSE dirs)
      /\ home' = (IF kind = "dir" THEN [home EXCEPT ![cl] = Upto(path, comp)] ELSE home)
      /\ \/ fat[cl] # EOC /\ i + 1 < Need /\ cl' = fat[cl] /\ i' = i + 1 /\ pc' = "data"
         \/ cl' = dir_cl /\ i' = 0 /\ pc' = IF kind = "old" THEN "free" ELSE "slot"
  BY DEF WriteChain, Goto
<1>2. ExVolumeSafe /\ ExTypeOK /\ CallOK /\ FoundOK /\ ChainOK /\ DirsSound
  BY DEF ExInv, ExVolumeSafe
<1>3. /\ i < Need /\ first # 0 /\ prev # 0 /\ Fresh(first) /\ cl \notin dirs /\ fat[cl] # 0
      /\ kind = "dir" => cl = first /\ fat[cl] = EOC
  BY <1>1, <1>2 DEF ChainOK
<1>4. /\ path \in FilePaths \cup DirPaths /\ comp \in 1 .. Len(path) /\ dir_cl \in dirs
      /\ home[dir_cl] = Upto(path, comp - 1) /\ (kind = "dir" <=> More \/ call = "mkdir")
      /\ call = "mkdir" => path \in DirPaths
  BY <1>1, <1>2 DEF CallOK, Chosen, ExTypeOK
<1>5. /\ data \in Seq(Chunk) /\ Len(data) \in Nat /\ i \in Nat
      /\ fat \in Table /\ cl \in Cluster /\ dir_cl \in Cluster /\ dirs \subseteq Cluster
      /\ home \in [Cluster -> Seq(UNames)] /\ \A e \in DOMAIN own : own[e] \in Cluster
  <2>1. data \in Contents \cup {<<>>} /\ cl \in Cluster /\ dir_cl \in Cluster /\ i \in 0 .. Cells + Len(data)
    BY <1>2 DEF ExTypeOK
  <2>2. data \in Seq(Chunk) /\ Len(data) \in Nat /\ i \in Nat
    BY <2>1, DataFacts, Geometry
  <2> QED
    BY <1>2, <2>1, <2>2, EntryFacts
<1> DEFINE row == IF kind = "dir" THEN Zeroed ELSE Raw(data[i + 1])
<1>6. row \in Row
  <2>1. CASE kind = "dir"
    BY <2>1, CellTypes
  <2>2. CASE kind # "dir"
    <3>1. data[i + 1] \in Chunk
      BY <1>3, <1>5, <2>2 DEF Need
    <3> QED
      BY <2>2, <3>1, CellTypes
  <2> QED
    BY <2>1, <2>2
<1>7. kind = "dir" => /\ cl \notin Reserved /\ Upto(path, comp) \in DirUps
                      /\ Upto(path, comp) \in Seq(UNames) /\ \A e \in Entries : ClusOf(e) # cl
  <2> SUFFICES ASSUME kind = "dir"
               PROVE  /\ cl \notin Reserved /\ Upto(path, comp) \in DirUps
                      /\ Upto(path, comp) \in Seq(UNames) /\ \A e \in Entries : ClusOf(e) # cl
    OBVIOUS
  <2>1. Loose(fat, own, cl)
    BY <1>3 DEF Fresh
  <2>2. Upto(path, comp) \in DirUps
    BY <1>4, PathFacts DEF More
  <2>3. Upto(path, comp) \in Seq(UNames)
    BY <1>4, PathFacts, UptoFacts
  <2>4. \A e \in Entries : ClusOf(e) # 0 => e \in Owners
    BY <1>1 DEF Owners, Changing
  <2>5. \A e \in Entries : ClusOf(e) # cl
    BY <1>2, <1>5, <2>1, <2>4, EntryFacts, Geometry DEF Loose
  <2> QED
    BY <2>1, <2>2, <2>3, <2>5 DEF Loose, System
<1>8. Partial = {} /\ Changing = {} /\ Partial' = {} /\ Changing' = {}
  BY <1>1 DEF Partial, Changing
<1>9. /\ EntriesSound' /\ DirsSound' /\ RowsSound' /\ Entries' = Entries /\ own' = own
      /\ \A d \in Cluster \ {cl} : cont'[d] = cont[d] /\ home'[d] = home[d]
  <2>1. cont' = [cont EXCEPT ![cl] = row] /\ cl \in Cluster \ dirs /\ pc # "set"
    BY <1>1, <1>3, <1>5
  <2>2. CASE kind # "dir"
    <3>1. dirs' = dirs /\ home' = home
      BY <1>1, <2>2
    <3> HIDE DEF row
    <3> QED
      BY <1>2, <1>6, <1>8, <2>1, <3>1, WriteOutside DEF ExVolumeSafe
  <2>3. CASE kind = "dir"
    <3>1. /\ dirs' = dirs \cup {cl} /\ row = Zeroed /\ cl \notin Reserved /\ \A e \in Entries : ClusOf(e) # cl
          /\ \E v \in DirUps \cup {<<>>} : home' = [home EXCEPT ![cl] = v]
      BY <1>1, <1>7, <2>3
    <3> HIDE DEF row
    <3> QED
      BY <1>2, <1>6, <1>8, <2>1, <3>1, WriteOutside DEF ExVolumeSafe
  <2> QED
    BY <2>2, <2>3
<1>10. /\ InUse(fat, own, dirs') /\ KindKept(fat, dirs', home', {})
  <2>1. InUse(fat, own, dirs) /\ KindKept(fat, dirs, home, {})
    BY <1>1, <1>2 DEF ExVolumeSafe
  <2>2. CASE kind # "dir"
    BY <1>1, <2>1, <2>2
  <2>3. CASE kind = "dir"
    <3>1. Loose(fat, own, cl) /\ fat[cl] = EOC
      BY <1>3, <2>3 DEF Fresh
    <3>2. dirs' = dirs \cup {cl} /\ home' = [home EXCEPT ![cl] = Upto(path, comp)]
      BY <1>1, <2>3
    <3> QED
      BY <1>3, <1>5, <2>1, <3>1, <3>2, NewDir
  <2> QED
    BY <2>2, <2>3
<1>11. pc' = "data" => cl' \in Cluster \ dirs /\ fat[cl'] # 0 /\ kind # "dir"
  <2> SUFFICES ASSUME pc' = "data" PROVE cl' \in Cluster \ dirs /\ fat[cl'] # 0 /\ kind # "dir"
    OBVIOUS
  <2>1. cl' = fat[cl] /\ fat[cl] # EOC /\ kind # "dir"
    BY <1>1, <1>3
  <2>2. fat[cl] \in Cluster
    BY <1>3, <1>5, <2>1 DEF Table
  <2>3. fat[cl] \notin dirs /\ fat[fat[cl]] # 0
    BY <1>1, <1>2, <1>3, <1>5, <2>2 DEF ExVolumeSafe, KindKept, InUse
  <2> QED
    BY <2>1, <2>2, <2>3
<1>12. ExTypeOK'
  <2>1. cont' \in [Cluster -> Row] /\ dirs' \subseteq Cluster /\ home' \in [Cluster -> Seq(UNames)]
    BY <1>1, <1>2, <1>5, <1>6, <1>7, EntryFacts
  <2>2. cl' \in Cluster /\ i' \in 0 .. Cells + Len(data')
    BY <1>1, <1>3, <1>5, <1>11, Geometry DEF Need
  <2> QED
    BY <1>1, <1>2, <2>1, <2>2 DEF ExTypeOK, Row
<1>13. BitmapAgrees'
  BY <1>1, <1>2 DEF ExVolumeSafe, BitmapAgrees
<1>14. InHand' = InHand
  BY <1>1 DEF InHand
<1>15. ExVolumeSafe'
  <2>1. KindKept(fat, dirs, home, IF pc = "xzero" THEN {cl} ELSE {})'
    BY <1>1, <1>10
  <2> QED
    BY <1>1, <1>2, <1>9, <1>10, <1>12, <1>13, <1>14, <2>1 DEF ExVolumeSafe
<1>16. CallOK'
  <2>1. dir_cl' \in dirs' /\ home'[dir_cl'] = home[dir_cl]
    BY <1>1, <1>3, <1>4, <1>5, <1>9
  <2> QED
    BY <1>1, <1>2, <1>4, <2>1 DEF CallOK, Chosen, Placing, Freeing, Undoing, More
<1>17. FoundOK'
  <2> SUFFICES ASSUME kind = "old" PROVE FoundOK'
    BY <1>1 DEF FoundOK
  <2>1. loc \in Entries /\ ~cont[loc[1]][loc[2]].dir /\ SetName(cont[loc[1]], loc[2]) = Wanted
    BY <1>1, <1>2 DEF FoundOK, Chosen
  <2>2. loc[1] \in dirs /\ cont'[loc[1]] = cont[loc[1]]
    BY <1>2, <1>3, <1>5, <1>9, <2>1, EntryFacts
  <2> QED
    BY <1>1, <1>9, <2>1, <2>2 DEF FoundOK, SetName, Wanted
<1>18. SetOK' /\ FreeOK'
  BY <1>1 DEF SetOK, FreeOK
<1>19. ChainOK'
  <2>1. Loose(fat, own, first)' /\ fat'[first'] # 0 /\ first' \in Cluster
    BY <1>1, <1>3, <1>9 DEF Fresh
  <2>2. CASE pc' = "data"
    <3>1. dirs' = dirs /\ i' < Need' /\ Fresh(first)'
      BY <1>1, <1>3, <1>5, <1>11, <2>1, <2>2 DEF Need, Fresh
    <3> QED
      BY <1>1, <1>3, <1>11, <2>2, <3>1 DEF ChainOK, Growing, Placing, Freeing
  <2>3. CASE pc' # "data"
    <3>1. kind = "dir" <=> first \in dirs'
      BY <1>1, <1>3 DEF Fresh
    <3>2. kind = "dir" => home'[first] = Upto(path, comp)
      BY <1>1, <1>3, <1>5
    <3> QED
      BY <1>1, <2>1, <2>3, <3>1, <3>2 DEF ChainOK, Growing, Placing, Freeing
  <2> QED
    BY <2>2, <2>3
<1> QED
  BY <1>15, <1>16, <1>17, <1>18, <1>19 DEF ExInv

---------------------------------------------------------------------------
(* Freeing a chain.                                                        *)

\* The set of the file that is overwritten has room for the new one.
LEMMA OldSetFacts ==
  ASSUME ExInv, pc \in Chosen, kind = "old"
  PROVE  /\ loc \in Entries /\ loc = <<loc[1], loc[2]>> /\ loc[1] \in dirs /\ loc[1] \in Cluster
         /\ loc[2] \in 0 .. Cells - 1 /\ path[comp] \in Comp
         /\ loc[2] + Total(path[comp]) <= Cells
         /\ cont[loc[1]][loc[2]].t = "file" /\ cont[loc[1]][loc[2]].n = Total(path[comp]) - 1
         /\ ~cont[loc[1]][loc[2]].dir /\ SetName(cont[loc[1]], loc[2]) = Upper[path[comp]]
         /\ ClusOf(loc) = cont[loc[1]][loc[2] + 1].clus /\ ClusOf(loc) \notin dirs
<1>1. ExTypeOK /\ EntriesSound /\ CallOK /\ FoundOK
  BY DEF ExInv, ExVolumeSafe
<1>2. /\ loc \in Entries /\ ~cont[loc[1]][loc[2]].dir /\ SetName(cont[loc[1]], loc[2]) = Wanted
      /\ path \in FilePaths \cup DirPaths /\ comp \in 1 .. Len(path)
  BY <1>1 DEF FoundOK, CallOK, Chosen
<1>3. /\ loc = <<loc[1], loc[2]>> /\ loc[1] \in dirs /\ loc[1] \in Cluster /\ loc[2] \in 0 .. Cells - 1
      /\ cont[loc[1]][loc[2]].t = "file"
  BY <1>1, <1>2, EntryFacts
<1>4. Whole(cont[loc[1]], loc[2]) /\ (cont[loc[1]][loc[2]].dir <=> ClusOf(loc) \in dirs)
  BY <1>1, <1>2 DEF EntriesSound
<1>5. path[comp] \in Comp
  BY <1>2, PathFacts, UptoFacts
<1>6. Total(cont[loc[1]][loc[2] + 2].name) = Total(path[comp])
  BY <1>2, <1>4, <1>5, CaseKeepsLength DEF Whole, SetName, Wanted, Total
<1>7. cont[loc[1]][loc[2]].n = Total(path[comp]) - 1
  BY <1>4, <1>6 DEF Whole
<1>8. loc[2] + Total(path[comp]) <= Cells /\ loc[2] + 2 < Cells
  <2>1. loc[2] + (Total(path[comp]) - 1) < Cells /\ loc[2] + 2 < Cells
    BY <1>4, <1>7 DEF Whole
  <2>2. Total(path[comp]) \in Nat /\ loc[2] \in Nat
    BY <1>3, <1>5, Geometry
  <2> QED
    BY <2>1, <2>2, Geometry
<1>9. ClusOf(loc) = cont[loc[1]][loc[2] + 1].clus
  BY <1>3, <1>8, Geometry DEF ClusOf
<1> QED
  BY <1>2, <1>3, <1>4, <1>5, <1>7, <1>8, <1>9 DEF Wanted

\* Nothing of the new set is written yet.
LEMMA SetBegins ==
  ASSUME ExInv, pc \in Chosen, kind = "old", pc' = "set", i' = 0,
         UNCHANGED <<cont, dirs, home, loc, kind, path, comp, first, data>>
  PROVE  SetOK'
<1>1. loc[1] \in dirs /\ loc[2] + Total(path[comp]) <= Cells /\ 0 < Total(path[comp])
  BY OldSetFacts, Geometry
<1>2. Total(path[comp])' = Total(path[comp])
  BY DEF Total
<1> QED
  BY <1>1, <1>2 DEF SetOK

LEMMA FreeStartStep == ASSUME ExInv, FreeStart PROVE ExInv'
<1>1. /\ UNCHANGED <<disk, leaked, acked, call, path, comp, data, dir_cl, loc, kind, first, prev, new_cl>>
      /\ pc = "free" /\ i' = 0
      /\ \/ OldCluster = 0 /\ pc' = "set" /\ cl' = cl
         \/ OldCluster # 0 /\ pc' = "unchain" /\ cl' = OldCluster
  BY DEF FreeStart, Goto
<1>2. ExVolumeSafe /\ ExTypeOK /\ CallOK /\ FoundOK /\ ChainOK /\ kind = "old"
  BY <1>1 DEF ExInv, ExVolumeSafe, CallOK, Freeing
<1>3. /\ loc \in Entries /\ loc[1] \in dirs /\ ClusOf(loc) = OldCluster /\ ClusOf(loc) \notin dirs
  BY <1>1, <1>2, OldSetFacts DEF Chosen, OldCluster
<1>4. fat' = fat /\ bitmap' = bitmap /\ cont' = cont /\ dirs' = dirs /\ home' = home /\ UNCHANGED tree
  BY <1>1 DEF disk, tree
<1>5. Partial = {} /\ Changing = {} /\ Partial' = {} /\ Changing' = {loc}
  BY <1>1, <1>2 DEF Partial, Changing
<1>6. Entries' = Entries
  BY <1>4, <1>5 DEF Entries
<1>7. EntriesSound' /\ DirsSound' /\ RowsSound'
  BY <1>1, <1>2, <1>4, <1>6, SameTree DEF ExVolumeSafe
<1>8. Owners' = Owners \ {loc} /\ (loc \in Owners <=> OldCluster # 0)
  <2>1. \A e : ClusOf(e)' = ClusOf(e)
    BY <1>4 DEF ClusOf
  <2>2. Owners = {e \in Entries : ClusOf(e) # 0}
    BY <1>5 DEF Owners
  <2>3. Owners' = {e \in Entries \ {loc} : ClusOf(e) # 0}
    BY <1>5, <1>6, <2>1 DEF Owners
  <2> QED
    BY <1>3, <2>2, <2>3
<1>9. DOMAIN own' = DOMAIN own \ {loc} /\ \A e \in DOMAIN own' : own'[e] = own[e]
  <2>1. own' = [e \in Owners' |-> ClusOf(e)]
    BY <1>4 DEF own, ClusOf
  <2> QED
    BY <1>8, <2>1 DEF own
<1>10. /\ fat \in Table /\ dirs \subseteq Cluster /\ \A e \in DOMAIN own : own[e] \in Cluster
       /\ OneOwner(fat, own) /\ InUse(fat, own, dirs) /\ KindKept(fat, dirs, home, {})
       /\ (leaked \/ NoneLost(fat, own, {first})) /\ bitmap = {d \in Cluster : fat[d] # 0}
       /\ first # 0 => Loose(fat, own, first) /\ fat[first] # 0
  <2>1. InHand = {first}
    BY <1>1 DEF InHand
  <2>2. bitmap = {d \in Cluster : fat[d] # 0}
    BY <1>1, <1>2 DEF ExVolumeSafe, BitmapAgrees
  <2>3. first # 0 => Loose(fat, own, first) /\ fat[first] # 0
    BY <1>1, <1>2 DEF ChainOK, Freeing
  <2> QED
    BY <1>1, <1>2, <2>1, <2>2, <2>3, EntryFacts DEF ExVolumeSafe
<1>11. /\ OneOwner(fat, own') /\ InUse(fat, own', dirs) /\ (leaked \/ NoneLost(fat, own', InHand'))
       /\ first # 0 => Loose(fat, own', first) /\ fat[first] # 0
       /\ pc' = "unchain" => Fresh(cl)' /\ cl' # first
  <2>1. CASE OldCluster = 0
    <3>1. own' = own
      <4>1. Owners' = Owners
        BY <1>8, <2>1
      <4> QED
        BY <1>4, <4>1 DEF own, ClusOf
    <3>2. InHand' = {first} /\ pc' = "set"
      BY <1>1, <2>1 DEF InHand
    <3> QED
      BY <1>10, <3>1, <3>2
  <2>2. CASE OldCluster # 0
    <3>1. loc \in DOMAIN own /\ own[loc] = OldCluster
      BY <1>3, <1>8, <2>2 DEF own
    <3>2. /\ OneOwner(fat, own') /\ InUse(fat, own', dirs) /\ Loose(fat, own', own[loc]) /\ ~Loose(fat, own, own[loc])
          /\ \A d : Loose(fat, own, d) => Loose(fat, own', d)
          /\ \A H : NoneLost(fat, own, H) => NoneLost(fat, own', H \cup {own[loc]})
      BY <1>9, <1>10, <3>1, DropOwner
    <3>3. InHand' = {first} \cup {own[loc]} /\ cl' = own[loc]
      BY <1>1, <2>2, <3>1 DEF InHand
    <3>4. fat[own[loc]] # 0 /\ own[loc] \in Cluster /\ own[loc] \notin dirs /\ own[loc] # 0
      BY <1>3, <1>10, <3>1, Geometry DEF InUse
    <3>5. Fresh(cl)'
      BY <1>4, <3>2, <3>3, <3>4 DEF Fresh
    <3> QED
      BY <1>10, <3>2, <3>3, <3>4, <3>5
  <2> QED
    BY <2>1, <2>2
<1>12. ExTypeOK'
  <2>1. cl' \in Cluster
    BY <1>1, <1>2, <1>11 DEF ExTypeOK, Fresh
  <2>2. i' \in 0 .. Cells + Len(data')
    BY <1>1, <1>2, DataFacts, Geometry DEF ExTypeOK
  <2> QED
    BY <1>1, <1>2, <1>4, <2>1, <2>2 DEF ExTypeOK
<1>13. BitmapAgrees'
  BY <1>1, <1>4, <1>10 DEF BitmapAgrees
<1>14. ExVolumeSafe'
  <2>1. pc' # "xzero"
    BY <1>1
  <2> QED
    BY <1>1, <1>4, <1>7, <1>10, <1>11, <1>12, <1>13, <2>1 DEF ExVolumeSafe
<1>15. CallOK'
  BY <1>1, <1>2, <1>4 DEF CallOK, Chosen, Placing, Freeing, Undoing, More
<1>16. FoundOK'
  BY <1>1, <1>2, <1>4, <1>6 DEF FoundOK, Chosen, SetName, Wanted
<1>17. SetOK'
  <2>1. CASE pc' = "set"
    BY <1>1, <1>2, <1>4, <2>1, SetBegins DEF Chosen
  <2>2. CASE pc' # "set"
    BY <2>2 DEF SetOK
  <2> QED
    BY <2>1, <2>2
<1>18. ChainOK'
  <2>1. pc \in Freeing /\ pc' \in {"unchain", "set"}
    BY <1>1 DEF Freeing
  <2>2. kind' = "dir" <=> first' \in dirs'
    BY <1>1, <1>2, <1>4, <2>1 DEF ChainOK
  <2> QED
    BY <1>1, <1>2, <1>4, <1>11, <2>1, <2>2 DEF ChainOK, Growing, Placing, Freeing
<1>19. FreeOK'
  BY <1>1, <1>11 DEF FreeOK
<1> QED
  BY <1>14, <1>15, <1>16, <1>17, <1>18, <1>19 DEF ExInv

LEMMA FreeClusterStep ==
  ASSUME ExInv, NEW l \in {"unchain", "undo"}, FreeCluster(l)
  PROVE  ExInv'
<1>1. /\ UNCHANGED <<bitmap, tree, leaked, acked, call, path, comp, data, dir_cl, cl, loc, kind, first, new_cl, i>>
      /\ pc = l /\ prev' = fat[cl] /\ fat' = [fat EXCEPT ![cl] = 0]
      /\ pc' = IF l = "undo" THEN "undo_bit" ELSE "unchain_bit"
  BY DEF FreeCluster, Goto
<1>2. ExVolumeSafe /\ ExTypeOK /\ CallOK /\ FoundOK /\ ChainOK /\ FreeOK
  BY DEF ExInv, ExVolumeSafe
<1>3. cont' = cont /\ dirs' = dirs /\ home' = home
  BY <1>1 DEF tree
<1>4. Entries' = Entries /\ own' = own
  <2>1. Partial' = Partial /\ Changing' = Changing
    BY <1>1 DEF Partial, Changing
  <2> QED
    BY <1>3, <2>1, SameEntries
<1>5. EntriesSound' /\ DirsSound' /\ RowsSound'
  BY <1>1, <1>2, <1>4, SameTree DEF ExVolumeSafe
<1>6. Fresh(cl) /\ (l = "unchain" => cl # first /\ i = 0)
  BY <1>1, <1>2 DEF FreeOK
<1>7. /\ fat \in Table /\ dirs \subseteq Cluster /\ \A e \in DOMAIN own : own[e] \in Cluster
      /\ OneOwner(fat, own) /\ InUse(fat, own, dirs) /\ KindKept(fat, dirs, home, {})
      /\ (leaked \/ NoneLost(fat, own, InHand)) /\ bitmap = {d \in Cluster : fat[d] # 0}
  <2>1. bitmap = {d \in Cluster : fat[d] # 0}
    BY <1>1, <1>2 DEF ExVolumeSafe, BitmapAgrees
  <2> QED
    BY <1>1, <1>2, <2>1, EntryFacts DEF ExVolumeSafe
<1>8. /\ fat' \in Table /\ OneOwner(fat', own) /\ InUse(fat', own, dirs)
      /\ \A d \in Cluster : Loose(fat, own, d) => Loose(fat', own, d)
      /\ fat[cl] \in Cluster => Loose(fat', own, fat[cl]) /\ fat'[fat[cl]] # 0 /\ ~Loose(fat, own, fat[cl])
      /\ \A H : NoneLost(fat, own, H) => NoneLost(fat', own, (H \ {cl}) \cup {fat[cl]})
      /\ \A h, x : KindKept(fat, dirs, h, x) => KindKept(fat', dirs, h, x)
  <2>1. cl \in Cluster /\ Loose(fat, own, cl) /\ cl \notin dirs /\ fat[cl] # 0
    BY <1>6 DEF Fresh
  <2>2. fat' = [fat EXCEPT ![cl] = 0]
    BY <1>1
  <2> QED
    BY <1>7, <2>1, <2>2, FreeFat
<1>9. \A d \in Cluster : fat'[d] = IF d = cl THEN 0 ELSE fat[d]
  BY <1>1, <1>7 DEF Table
<1>10. ExTypeOK'
  <2>1. prev' \in {0, EOC} \cup Cluster
    BY <1>1, <1>6, <1>7 DEF Table, Fresh
  <2> QED
    BY <1>1, <1>2, <1>3, <1>8, <2>1 DEF ExTypeOK, Table
<1>11. BitmapAgrees'
  <2>1. bitmap' = {d \in Cluster : fat'[d] # 0} \cup {cl}
    BY <1>1, <1>6, <1>7, <1>9 DEF Fresh
  <2> QED
    BY <1>1, <2>1 DEF BitmapAgrees
<1>12. (leaked \/ NoneLost(fat, own, InHand))'
  <2>1. (InHand \ {cl}) \cup {fat[cl]} = InHand'
    BY <1>1, <1>6 DEF InHand
  <2> QED
    BY <1>1, <1>4, <1>7, <1>8, <2>1
<1>13. ExVolumeSafe'
  <2>1. pc' # "xzero" /\ KindKept(fat', dirs, home, {})
    BY <1>1, <1>7, <1>8
  <2> QED
    BY <1>3, <1>4, <1>5, <1>8, <1>10, <1>11, <1>12, <2>1 DEF ExVolumeSafe
<1>14. CallOK'
  BY <1>1, <1>2, <1>3 DEF CallOK, Chosen, Placing, Freeing, Undoing, More
<1>15. FoundOK'
  BY <1>1, <1>2, <1>3, <1>4 DEF FoundOK, Chosen, SetName, Wanted
<1>16. SetOK'
  BY <1>1 DEF SetOK
<1>17. ChainOK'
  <2>1. CASE l = "undo"
    BY <1>1, <2>1 DEF ChainOK, Growing, Placing, Freeing
  <2>2. CASE l = "unchain"
    <3>1. (first # 0 => Loose(fat, own, first) /\ fat[first] # 0) /\ first \in {0} \cup Cluster
      BY <1>1, <1>2, <2>2 DEF ChainOK, Freeing, ExTypeOK
    <3>2. first # 0 => Loose(fat', own, first) /\ fat'[first] # 0
      BY <1>6, <1>8, <1>9, <2>2, <3>1
    <3>3. kind = "dir" <=> first \in dirs
      BY <1>1, <1>2, <2>2 DEF ChainOK, Freeing
    <3>4. kind = "dir" => home[first] = Upto(path, comp)
      BY <1>1, <1>2, <2>2 DEF ChainOK, Freeing
    <3> QED
      BY <1>1, <1>3, <1>4, <2>2, <3>2, <3>3, <3>4 DEF ChainOK, Growing, Placing, Freeing
  <2> QED
    BY <2>1, <2>2
<1>18. FreeOK'
  <2>1. fat'[cl'] = 0
    BY <1>1, <1>6, <1>9 DEF Fresh
  <2>2. ASSUME prev' \notin {0, EOC} PROVE Fresh(prev)' /\ (l = "unchain" => prev' # first')
    <3>1. fat[cl] \in Cluster /\ prev' = fat[cl]
      BY <1>1, <1>6, <1>7, <2>2 DEF Table, Fresh
    <3>2. fat[cl] \notin dirs
      BY <1>6, <1>7, <3>1 DEF KindKept, Fresh
    <3>3. l = "unchain" /\ first # 0 => Loose(fat, own, first)
      BY <1>1, <1>2 DEF ChainOK, Freeing
    <3> QED
      BY <1>1, <1>3, <1>4, <1>8, <3>1, <3>2, <3>3, Geometry DEF Fresh
  <2> QED
    BY <1>1, <1>6, <2>1, <2>2 DEF FreeOK
<1> QED
  BY <1>13, <1>14, <1>15, <1>16, <1>17, <1>18 DEF ExInv

LEMMA FreeBitStep ==
  ASSUME ExInv, NEW l \in {"unchain_bit", "undo_bit"}, FreeBit(l)
  PROVE  ExInv'
<1>1. pc = l /\ bitmap' = bitmap \ {cl} /\ fat' = fat /\ cont' = cont /\ dirs' = dirs /\ home' = home /\ UNCHANGED tree
  BY DEF FreeBit, tree
<1>2. \/ /\ prev \notin {0, EOC} /\ cl' = prev /\ pc' = (IF l = "undo_bit" THEN "undo" ELSE "unchain")
         /\ UNCHANGED <<leaked, acked, call, path, comp, data, dir_cl, loc, kind, first, prev, new_cl, i>>
      \/ prev \in {0, EOC} /\ l = "undo_bit" /\ Return(FALSE)
      \/ /\ prev \in {0, EOC} /\ l = "unchain_bit" /\ pc' = "set"
         /\ UNCHANGED <<leaked, acked, call, path, comp, data, dir_cl, cl, loc, kind, first, prev, new_cl, i>>
  BY DEF FreeBit, Goto, frame
<1>3. ExVolumeSafe /\ ExTypeOK /\ CallOK /\ FoundOK /\ ChainOK /\ FreeOK
  BY DEF ExInv, ExVolumeSafe
<1>4. /\ fat[cl] = 0 /\ (prev \notin {0, EOC} => Fresh(prev)) /\ (l = "unchain_bit" => i = 0 /\ kind = "old")
      /\ l = "unchain_bit" /\ prev \notin {0, EOC} => prev # first
  BY <1>1, <1>3 DEF FreeOK, CallOK, Freeing
<1>5. bitmap' = {d \in Cluster : fat'[d] # 0}
  <2>1. bitmap = {d \in Cluster : fat[d] # 0} \cup {cl}
    BY <1>1, <1>3 DEF ExVolumeSafe, BitmapAgrees
  <2> QED
    BY <1>1, <1>4, <2>1
<1>6. pc' \in {"undo", "unchain", "idle", "set"}
  BY <1>2 DEF Return, Reset
<1>7. Partial' = Partial /\ Changing' = Changing
  <2>1. CASE prev \notin {0, EOC}
    BY <1>1, <1>2, <2>1 DEF Partial, Changing
  <2>2. CASE prev \in {0, EOC} /\ l = "undo_bit" /\ Return(FALSE)
    BY <1>1, <2>2 DEF Partial, Changing, Return, Reset
  <2>3. CASE prev \in {0, EOC} /\ l = "unchain_bit"
    BY <1>1, <1>2, <1>4, <2>3 DEF Partial, Changing
  <2> QED
    BY <1>2, <2>1, <2>2, <2>3
<1>8. Entries' = Entries /\ own' = own
  BY <1>1, <1>7, SameEntries
<1>9. EntriesSound' /\ DirsSound' /\ RowsSound'
  BY <1>1, <1>3, <1>8, SameTree DEF ExVolumeSafe
<1>10. BitmapAgrees'
  BY <1>5, <1>6 DEF BitmapAgrees
<1>11. OneOwner(fat, own)' /\ InUse(fat, own, dirs)' /\ KindKept(fat, dirs, home, IF pc = "xzero" THEN {cl} ELSE {})'
  BY <1>1, <1>3, <1>6, <1>8 DEF ExVolumeSafe
<1>12. (leaked \/ NoneLost(fat, own, InHand))'
  <2>1. leaked' = leaked
    BY <1>1, <1>2, <1>3 DEF Return, ExTypeOK
  <2>2. InHand \cap Cluster \subseteq InHand'
    <3>1. CASE prev \notin {0, EOC}
      BY <1>1, <1>2, <3>1 DEF InHand
    <3>2. CASE prev \in {0, EOC} /\ l = "undo_bit" /\ Return(FALSE)
      <4>1. InHand = {prev}
        BY <1>1, <3>2 DEF InHand
      <4> QED
        BY <3>2, <4>1, Geometry
    <3>3. CASE prev \in {0, EOC} /\ l = "unchain_bit"
      <4>1. InHand = {first, prev} /\ InHand' = {first}
        BY <1>1, <1>2, <3>3 DEF InHand
      <4> QED
        BY <3>3, <4>1, Geometry
    <3> QED
      BY <1>2, <3>1, <3>2, <3>3
  <2> QED
    BY <1>1, <1>3, <1>8, <2>1, <2>2 DEF ExVolumeSafe, NoneLost
<1>13. CASE prev \notin {0, EOC}
  <2>1. /\ cl' = prev /\ pc' = (IF l = "undo_bit" THEN "undo" ELSE "unchain")
        /\ UNCHANGED <<leaked, acked, call, path, comp, data, dir_cl, loc, kind, first, prev, new_cl, i>>
    BY <1>2, <1>13
  <2>2. ExTypeOK'
    BY <1>1, <1>3, <1>4, <1>5, <1>13, <2>1 DEF ExTypeOK, Fresh
  <2>3. CallOK'
    BY <1>1, <1>3, <2>1 DEF CallOK, Chosen, Placing, Freeing, Undoing, More
  <2>4. FoundOK'
    BY <1>1, <1>3, <1>8, <2>1 DEF FoundOK, Chosen, SetName, Wanted
  <2>5. SetOK'
    BY <2>1 DEF SetOK
  <2>6. ChainOK'
    BY <1>1, <1>3, <1>8, <2>1 DEF ChainOK, Growing, Placing, Freeing
  <2>7. FreeOK'
    BY <1>1, <1>4, <1>8, <1>13, <2>1 DEF FreeOK, Fresh
  <2> QED
    BY <1>9, <1>10, <1>11, <1>12, <2>2, <2>3, <2>4, <2>5, <2>6, <2>7 DEF ExInv, ExVolumeSafe
<1>14. CASE prev \in {0, EOC} /\ l = "undo_bit" /\ Return(FALSE)
  <2>1. Reset /\ acked' = acked /\ leaked' = leaked
    BY <1>1, <1>3, <1>14 DEF Return, ExTypeOK
  <2>2. ExTypeOK'
    BY <1>1, <1>3, <1>5, <2>1, ResetTypes DEF ExTypeOK, Row
  <2> QED
    BY <1>9, <1>10, <1>11, <1>12, <2>1, <2>2, IdleOK DEF ExInv, ExVolumeSafe
<1>15. CASE prev \in {0, EOC} /\ l = "unchain_bit"
  <2>1. /\ pc' = "set"
        /\ UNCHANGED <<leaked, acked, call, path, comp, data, dir_cl, cl, loc, kind, first, prev, new_cl, i>>
    BY <1>2, <1>15
  <2>2. ExTypeOK'
    BY <1>1, <1>3, <1>5, <2>1 DEF ExTypeOK
  <2>3. CallOK'
    BY <1>1, <1>3, <1>15, <2>1 DEF CallOK, Chosen, Placing, Freeing, Undoing, More
  <2>4. FoundOK'
    BY <1>1, <1>3, <1>8, <1>15, <2>1 DEF FoundOK, Chosen, SetName, Wanted
  <2>5. SetOK'
    BY <1>1, <1>4, <1>15, <2>1, SetBegins DEF Chosen
  <2>6. ChainOK'
    BY <1>1, <1>3, <1>8, <1>15, <2>1 DEF ChainOK, Growing, Placing, Freeing
  <2>7. FreeOK'
    BY <2>1 DEF FreeOK
  <2> QED
    BY <1>9, <1>10, <1>11, <1>12, <2>2, <2>3, <2>4, <2>5, <2>6, <2>7 DEF ExInv, ExVolumeSafe
<1> QED
  BY <1>2, <1>13, <1>14, <1>15

---------------------------------------------------------------------------
(* Room for a set.                                                         *)

\* What the steps between the search for room and the first cell know.
LEMMA PlacingFacts ==
  ASSUME ExInv, pc \in Placing
  PROVE  /\ cl \in dirs /\ cl \in Cluster /\ dir_cl \in dirs /\ home[cl] = home[dir_cl] /\ kind # "old"
         /\ path \in FilePaths \cup DirPaths /\ comp \in 1 .. Len(path) /\ path[comp] \in Comp
         /\ cont[cl] \in Row
<1>1. ExTypeOK /\ CallOK
  BY DEF ExInv, ExVolumeSafe
<1>2. /\ cl \in dirs /\ dir_cl \in dirs /\ home[cl] = home[dir_cl] /\ kind # "old"
      /\ path \in FilePaths \cup DirPaths /\ comp \in 1 .. Len(path)
  BY <1>1 DEF CallOK, Placing
<1> QED
  BY <1>1, <1>2, PathFacts, UptoFacts DEF ExTypeOK, Row

LEMMA SlotStep == ASSUME ExInv, Slot PROVE ExInv'
<1> DEFINE m == Least(Room(cont[cl]))
<1>1. /\ UNCHANGED <<disk, leaked, acked, call, path, comp, data, dir_cl, cl, kind, first, prev, new_cl>>
      /\ pc = "slot" /\ Room(cont[cl]) # {} /\ loc' = <<cl, m>> /\ i' = 0 /\ pc' = "set"
  BY DEF Slot, Goto
<1>2. ExVolumeSafe /\ ExTypeOK /\ CallOK /\ ChainOK
  BY DEF ExInv, ExVolumeSafe
<1>3. /\ cl \in dirs /\ cl \in Cluster /\ dir_cl \in dirs /\ home[cl] = home[dir_cl] /\ kind # "old"
      /\ path[comp] \in Comp /\ cont[cl] \in Row
  BY <1>1, PlacingFacts DEF Placing
<1>4. fat' = fat /\ bitmap' = bitmap /\ cont' = cont /\ dirs' = dirs /\ home' = home /\ UNCHANGED tree
  BY <1>1 DEF disk, tree
<1>5. /\ m \in 0 .. Cells - 1 /\ cont[cl][m].t = "end" /\ m + Total(path[comp]) <= Cells
      /\ \A j \in 0 .. Cells - 1 : cont[cl][j].t = "end" <=> j >= m
  <2>1. Room(cont[cl]) \subseteq 0 .. Cells - 1 /\ Room(cont[cl]) \subseteq Nat
    BY Geometry DEF Room, Ends
  <2>2. m \in Room(cont[cl]) /\ \A j \in Room(cont[cl]) : m <= j
    BY <1>1, <2>1, LeastIn
  <2> HIDE DEF m
  <2>3. Total(path[comp]) \in Nat
    BY <1>3, Geometry
  <2>4. m \in 0 .. Cells - 1 /\ cont[cl][m].t = "end" /\ Cells - m >= Total(path[comp])
    BY <2>2 DEF Room, Ends
  <2>5. ASSUME NEW j \in 0 .. Cells - 1, j < m PROVE cont[cl][j].t # "end"
    <3>1. j \notin Room(cont[cl])
      BY <2>2, <2>4, <2>5, Geometry
    <3>2. Cells - j >= Total(path[comp])
      BY <2>3, <2>4, <2>5, Geometry
    <3> QED
      BY <3>1, <3>2 DEF Room, Ends
  <2>6. ASSUME NEW j \in 0 .. Cells - 1, j > m PROVE cont[cl][j].t = "end"
    BY <1>2, <1>3, <2>4, <2>6 DEF ExVolumeSafe, RowsSound
  <2>7. m + Total(path[comp]) <= Cells
    BY <2>3, <2>4, Geometry
  <2>8. ASSUME NEW j \in 0 .. Cells - 1 PROVE cont[cl][j].t = "end" <=> j >= m
    BY <2>4, <2>5, <2>6, Geometry
  <2> QED
    BY <2>4, <2>7, <2>8
<1> HIDE DEF m
<1>6. Partial = {} /\ Changing = {} /\ Partial' = {<<cl, m>>} /\ Changing' = {}
  BY <1>1, <1>3 DEF Partial, Changing
<1>7. Entries' = Entries
  <2>1. Entries' = Entries \ {<<cl, m>>}
    BY <1>4, <1>6 DEF Entries
  <2>2. <<cl, m>> \notin Entries
    BY <1>5 DEF Entries
  <2> QED
    BY <2>1, <2>2
<1>8. own' = own
  BY <1>4, <1>6, <1>7 DEF own, Owners, ClusOf
<1>9. EntriesSound' /\ DirsSound' /\ RowsSound'
  BY <1>1, <1>2, <1>4, <1>7, SameTree DEF ExVolumeSafe
<1>10. ExTypeOK'
  <2>1. loc' \in Cluster \X (0 .. Cells - 1) /\ i' \in 0 .. Cells + Len(data')
    <3>1. Len(data') \in Nat
      BY <1>1, <1>2, DataFacts DEF ExTypeOK
    <3> QED
      BY <1>1, <1>3, <1>5, <3>1, Geometry
  <2> QED
    BY <1>1, <1>2, <1>4, <2>1 DEF ExTypeOK
<1>11. BitmapAgrees' /\ InHand' = InHand
  BY <1>1, <1>2, <1>4 DEF ExVolumeSafe, BitmapAgrees, InHand
<1>12. ExVolumeSafe'
  BY <1>1, <1>2, <1>4, <1>8, <1>9, <1>10, <1>11 DEF ExVolumeSafe
<1>13. CallOK'
  BY <1>1, <1>2, <1>4 DEF CallOK, Chosen, Placing, Freeing, Undoing, More
<1>14. FoundOK' /\ FreeOK'
  BY <1>1, <1>3 DEF FoundOK, FreeOK
<1>15. SetOK'
  <2>1. loc'[1] = cl /\ loc'[2] = m /\ 0 < Total(path[comp]) /\ Total(path[comp])' = Total(path[comp])
    BY <1>1, <1>3, Geometry DEF Total
  <2>2. m + 0 = m
    BY <1>5
  <2> QED
    BY <1>1, <1>3, <1>4, <1>5, <2>1, <2>2 DEF SetOK
<1>16. ChainOK'
  BY <1>1, <1>2, <1>4, <1>8 DEF ChainOK, Growing, Placing, Freeing
<1> QED
  BY <1>12, <1>13, <1>14, <1>15, <1>16 DEF ExInv

LEMMA SlotNextStep == ASSUME ExInv, SlotNext PROVE ExInv'
<1>1. /\ UNCHANGED <<disk, leaked, acked, call, path, comp, data, dir_cl, loc, kind, first, prev, new_cl, i>>
      /\ pc = "slot"
      /\ \/ fat[cl] # EOC /\ cl' = fat[cl] /\ pc' = "slot"
         \/ fat[cl] = EOC /\ cl' = cl /\ pc' = "xalloc"
  BY DEF SlotNext, Goto
<1>2. ExTypeOK /\ CallOK /\ ChainOK
  BY DEF ExInv, ExVolumeSafe
<1>3. cl \in dirs /\ cl \in Cluster /\ home[cl] = home[dir_cl] /\ kind # "old"
  BY <1>1, PlacingFacts DEF Placing
<1>4. cl' \in dirs /\ cl' \in Cluster /\ home[cl'] = home[cl]
  BY <1>1, <1>3, NextCluster
<1>5. ExTypeOK'
  BY <1>1, <1>2, <1>4 DEF ExTypeOK, disk, tree
<1>6. InHand' = InHand /\ leaked \in BOOLEAN /\ leaked' = leaked
  BY <1>1, <1>2 DEF InHand, ExTypeOK
<1>7. ExVolumeSafe' /\ own' = own /\ dirs' = dirs /\ home' = home /\ fat' = fat
  BY <1>1, <1>5, <1>6, QuietStep
<1>8. CallOK'
  BY <1>1, <1>2, <1>3, <1>4, <1>7 DEF CallOK, Chosen, Placing, Freeing, Undoing, More
<1>9. FoundOK' /\ SetOK' /\ FreeOK'
  BY <1>1, <1>3 DEF FoundOK, SetOK, FreeOK
<1>10. ChainOK'
  BY <1>1, <1>2, <1>7 DEF ChainOK, Growing, Placing, Freeing
<1> QED
  BY <1>7, <1>8, <1>9, <1>10 DEF ExInv

LEMMA ExtendFailStep == ASSUME ExInv, ExtendFail PROVE ExInv'
BY ReturnStep DEF ExtendFail, Fail

LEMMA ExtendAllocStep == ASSUME ExInv, ExtendAlloc PROVE ExInv'
<1> DEFINE c == Least(FreeClusters)
<1>1. /\ UNCHANGED <<bitmap, tree, leaked, acked, call, path, comp, data, dir_cl, cl, loc, kind, first, prev, i>>
      /\ new_cl' = c /\ fat' = [fat EXCEPT ![c] = EOC] /\ pc = "xalloc" /\ pc' = "xmark"
      /\ c \in Cluster /\ fat[c] = 0
  BY FreeClusterFacts DEF ExtendAlloc, Goto
<1>2. /\ ExVolumeSafe' /\ own' = own /\ Entries' = Entries /\ cont' = cont /\ dirs' = dirs /\ home' = home
      /\ Fresh(new_cl)' /\ fat'[c] = EOC /\ \A d \in Cluster : fat[d] # 0 => fat'[d] = fat[d]
      /\ \A d \in Cluster : Loose(fat', own', d) <=> Loose(fat, own, d)
  BY <1>1, Taking
<1>3. CallOK /\ ChainOK /\ ExTypeOK
  BY DEF ExInv, ExVolumeSafe
<1>4. cl \in Cluster /\ kind # "old"
  BY <1>1, PlacingFacts DEF Placing
<1>5. CallOK'
  BY <1>1, <1>2, <1>3 DEF CallOK, Chosen, Placing, Freeing, Undoing, More
<1>6. FoundOK' /\ SetOK' /\ FreeOK'
  BY <1>1, <1>4 DEF FoundOK, SetOK, FreeOK
<1>7. ChainOK'
  <2>1. /\ first # 0 => Loose(fat, own, first) /\ fat[first] # 0
        /\ fat[cl] = EOC /\ first \in {0} \cup Cluster
    BY <1>1, <1>3 DEF ChainOK, Placing, ExTypeOK
  <2>2. first # 0 => Loose(fat', own', first) /\ fat'[first] # 0
    BY <1>2, <2>1
  <2>3. first # c /\ fat'[cl] = EOC
    BY <1>1, <1>2, <1>4, <2>1, Geometry
  <2> QED
    BY <1>1, <1>2, <1>3, <2>2, <2>3 DEF ChainOK, Growing, Placing, Freeing
<1> QED
  BY <1>2, <1>5, <1>6, <1>7 DEF ExInv

\* The new cluster of a directory is linked before it is cleared.
LEMMA ExtendLinkStep == ASSUME ExInv, ExtendLink PROVE ExInv'
<1>1. /\ UNCHANGED <<bitmap, tree, leaked, acked, call, path, comp, data, dir_cl, cl, loc, kind, first, prev, new_cl, i>>
      /\ pc = "xlink" /\ pc' = "xzero" /\ fat' = [fat EXCEPT ![cl] = new_cl]
  BY DEF ExtendLink, Goto, frame
<1>2. ExVolumeSafe /\ ExTypeOK /\ CallOK /\ ChainOK
  BY DEF ExInv, ExVolumeSafe
<1>3. /\ EntriesSound' /\ DirsSound' /\ RowsSound' /\ Entries' = Entries /\ own' = own
      /\ cont' = cont /\ dirs' = dirs /\ home' = home
  BY <1>1, <1>2, Quiet DEF ExVolumeSafe
<1>4. cl \in dirs /\ cl \in Cluster /\ kind # "old"
  BY <1>1, PlacingFacts DEF Placing
<1>5. /\ new_cl \in Cluster /\ Loose(fat, own, new_cl) /\ fat[new_cl] = EOC /\ new_cl \notin dirs
      /\ new_cl # first /\ fat[cl] = EOC /\ fat[new_cl] # 0 /\ first \in {0} \cup Cluster
      /\ first # 0 => Loose(fat, own, first) /\ fat[first] # 0
  BY <1>1, <1>2 DEF ChainOK, Fresh, Placing, ExTypeOK
<1>6. /\ fat \in Table /\ dirs \subseteq Cluster /\ \A e \in DOMAIN own : own[e] \in Cluster
  BY <1>2, EntryFacts
<1>7. /\ OneOwner(fat, own) /\ InUse(fat, own, dirs) /\ KindKept(fat, dirs, home, {})
      /\ (leaked \/ NoneLost(fat, own, InHand))
  BY <1>1, <1>2 DEF ExVolumeSafe
<1>8. /\ fat' \in Table /\ OneOwner(fat', own) /\ InUse(fat', own, dirs)
      /\ \A d \in Cluster \ {new_cl} : Loose(fat', own, d) <=> Loose(fat, own, d)
      /\ \A H : NoneLost(fat, own, H) => NoneLost(fat', own, H \ {new_cl})
      /\ \A h, x : KindKept(fat, dirs, h, x) /\ cl \notin dirs /\ new_cl \notin dirs
                     => KindKept(fat', dirs, h, x)
      /\ \A h : KindKept(fat, dirs, h, {}) => KindKept(fat', dirs, h, {cl})
  <2>1. OneOwner(fat, own) /\ InUse(fat, own, dirs) /\ Loose(fat, own, new_cl)
    BY <1>5, <1>7
  <2>2. cl \in Cluster /\ new_cl \in Cluster /\ fat[cl] = EOC /\ fat[new_cl] # 0
    BY <1>4, <1>5
  <2>3. fat' = [fat EXCEPT ![cl] = new_cl]
    BY <1>1
  <2> QED
    BY <1>6, <2>1, <2>2, <2>3, LinkFat
<1>9. \A d \in Cluster : fat'[d] = IF d = cl THEN new_cl ELSE fat[d]
  BY <1>1, <1>6 DEF Table
<1>10. ExTypeOK'
  BY <1>1, <1>2, <1>3, <1>8 DEF ExTypeOK, Table
<1>11. BitmapAgrees'
  <2>1. bitmap = {d \in Cluster : fat[d] # 0}
    BY <1>1, <1>2 DEF ExVolumeSafe, BitmapAgrees
  <2>2. bitmap' = {d \in Cluster : fat'[d] # 0}
    BY <1>1, <1>5, <1>9, <2>1, Geometry
  <2> QED
    BY <1>1, <2>2 DEF BitmapAgrees
<1>12. (leaked \/ NoneLost(fat, own, InHand))'
  <2>1. InHand' = InHand \ {new_cl}
    BY <1>1, <1>5 DEF InHand
  <2> QED
    BY <1>1, <1>3, <1>7, <1>8, <2>1
<1>13. ExVolumeSafe'
  <2>1. KindKept(fat, dirs, home, IF pc = "xzero" THEN {cl} ELSE {})'
    BY <1>1, <1>3, <1>7, <1>8
  <2> QED
    BY <1>3, <1>8, <1>10, <1>11, <1>12, <2>1 DEF ExVolumeSafe
<1>14. CallOK'
  BY <1>1, <1>2, <1>3 DEF CallOK, Chosen, Placing, Freeing, Undoing, More
<1>15. FoundOK' /\ SetOK' /\ FreeOK'
  BY <1>1, <1>4 DEF FoundOK, SetOK, FreeOK
<1>16. ChainOK'
  <2>1. first # 0 => Loose(fat', own, first) /\ fat'[first] # 0
    BY <1>5, <1>8, <1>9, Geometry
  <2>2. fat'[cl] = new_cl /\ fat'[new_cl] = EOC
    BY <1>4, <1>5, <1>9
  <2> QED
    BY <1>1, <1>2, <1>3, <1>5, <2>1, <2>2 DEF ChainOK, Growing, Placing, Freeing
<1> QED
  BY <1>13, <1>14, <1>15, <1>16 DEF ExInv

LEMMA ExtendZeroStep == ASSUME ExInv, ExtendZero PROVE ExInv'
<1>1. /\ UNCHANGED <<fat, bitmap, leaked, acked, call, path, comp, data, dir_cl, cl, kind, first, prev, new_cl>>
      /\ pc = "xzero" /\ pc' = "set" /\ cont' = [cont EXCEPT ![new_cl] = Zeroed]
      /\ dirs' = dirs \cup {new_cl} /\ home' = [home EXCEPT ![new_cl] = home[cl]]
      /\ loc' = <<new_cl, 0>> /\ i' = 0
  BY DEF ExtendZero, Goto
<1>2. ExVolumeSafe /\ ExTypeOK /\ CallOK /\ ChainOK /\ DirsSound
  BY DEF ExInv, ExVolumeSafe
<1>3. /\ cl \in dirs /\ cl \in Cluster /\ dir_cl \in dirs /\ home[cl] = home[dir_cl] /\ kind # "old"
      /\ path[comp] \in Comp
  BY <1>1, PlacingFacts DEF Placing
<1>4. /\ fat[cl] = new_cl /\ new_cl \in Cluster \ dirs /\ fat[new_cl] = EOC /\ first \in {0} \cup Cluster
      /\ first # 0 => Loose(fat, own, first) /\ fat[first] # 0
  BY <1>1, <1>2 DEF ChainOK, Placing, ExTypeOK
<1>5. /\ fat \in Table /\ dirs \subseteq Cluster /\ home \in [Cluster -> Seq(UNames)]
      /\ cont \in [Cluster -> Row] /\ \A e \in DOMAIN own : own[e] \in Cluster
  BY <1>2, EntryFacts
<1>6. OneOwner(fat, own) /\ InUse(fat, own, dirs) /\ KindKept(fat, dirs, home, {cl})
  BY <1>1, <1>2 DEF ExVolumeSafe
<1>7. new_cl \notin Reserved /\ \A e \in Entries : ClusOf(e) # new_cl
  <2>1. \A e \in Entries : ClusOf(e) # 0 => e \in Owners
    BY <1>1 DEF Owners, Changing
  <2>2. \A e \in Entries : ClusOf(e) # new_cl
    <3> SUFFICES ASSUME NEW e \in Entries, ClusOf(e) = new_cl PROVE FALSE
      OBVIOUS
    <3>1. e \in Owners
      BY <1>4, <2>1, Geometry
    <3>2. e \in DOMAIN own /\ own[e] = new_cl
      BY <1>2, <3>1, EntryFacts
    <3> QED
      BY <1>3, <1>4, <1>6, <3>2 DEF OneOwner
  <2> QED
    BY <1>3, <1>4, <1>6, <2>2 DEF OneOwner, System
<1>8. home[cl] \in DirUps \cup {<<>>} /\ home[cl] \in Seq(UNames)
  BY <1>2, <1>3, <1>5 DEF DirsSound
<1>9. Partial = {} /\ Changing = {} /\ Partial' = {loc'} /\ Changing' = {} /\ loc'[1] = new_cl /\ loc'[2] = 0
  BY <1>1, <1>3 DEF Partial, Changing
<1>10. /\ EntriesSound' /\ DirsSound' /\ RowsSound' /\ Entries' = Entries /\ own' = own
       /\ \A d \in Cluster \ {new_cl} : cont'[d] = cont[d] /\ home'[d] = home[d]
  <2>1. pc # "set" /\ cont' = [cont EXCEPT ![new_cl] = Zeroed] /\ Zeroed \in Row
    BY <1>1, CellTypes
  <2>2. /\ dirs' = dirs \cup {new_cl} /\ new_cl \notin Reserved /\ \A e \in Entries : ClusOf(e) # new_cl
        /\ \E v \in DirUps \cup {<<>>} : home' = [home EXCEPT ![new_cl] = v]
    BY <1>1, <1>7, <1>8
  <2>3. EntriesSound /\ RowsSound
    BY <1>2 DEF ExVolumeSafe
  <2> QED
    BY <1>2, <1>4, <1>9, <2>1, <2>2, <2>3, WriteOutside
<1>11. InUse(fat, own, dirs') /\ KindKept(fat, dirs', home', {})
  BY <1>1, <1>3, <1>4, <1>5, <1>6, MoreDir
<1>12. ExTypeOK'
  <2>1. cont' \in [Cluster -> Row] /\ dirs' \subseteq Cluster /\ home' \in [Cluster -> Seq(UNames)]
    BY <1>1, <1>4, <1>5, <1>8, CellTypes
  <2>2. loc' \in Cluster \X (0 .. Cells - 1) /\ i' \in 0 .. Cells + Len(data')
    <3>1. Len(data') \in Nat
      BY <1>1, <1>2, DataFacts DEF ExTypeOK
    <3> QED
      BY <1>1, <1>4, <3>1, Geometry
  <2> QED
    BY <1>1, <1>2, <2>1, <2>2 DEF ExTypeOK, Row
<1>13. BitmapAgrees' /\ InHand' = InHand
  BY <1>1, <1>2 DEF ExVolumeSafe, BitmapAgrees, InHand
<1>14. ExVolumeSafe'
  BY <1>1, <1>2, <1>10, <1>11, <1>12, <1>13 DEF ExVolumeSafe
<1>15. dir_cl \in Cluster \ {new_cl} /\ home'[dir_cl] = home[dir_cl] /\ home'[new_cl] = home[cl]
  BY <1>1, <1>3, <1>4, <1>5, <1>10
<1>16. CallOK'
  BY <1>1, <1>2, <1>3, <1>15 DEF CallOK, Chosen, Placing, Freeing, Undoing, More
<1>17. FoundOK' /\ FreeOK'
  BY <1>1, <1>3 DEF FoundOK, FreeOK
<1>18. SetOK'
  <2>1. /\ Total(path[comp]) \in Nat /\ 0 < Total(path[comp]) /\ 0 + Total(path[comp]) <= Cells
        /\ Total(path[comp])' = Total(path[comp])
    BY <1>1, <1>3, Geometry DEF Total
  <2>2. \A j \in 0 .. Cells - 1 : cont'[new_cl][j].t = "end" /\ j >= 0 + 0
    BY <1>1, <1>4, <1>5, CellTypes, Geometry
  <2>3. new_cl \in dirs' /\ home'[new_cl] = home'[dir_cl']
    BY <1>1, <1>3, <1>15
  <2> QED
    BY <1>1, <1>9, <2>1, <2>2, <2>3 DEF SetOK
<1>19. ChainOK'
  <2>1. first # new_cl
    BY <1>3, <1>4, Geometry DEF Loose
  <2>2. first \in dirs' <=> first \in dirs
    BY <1>1, <2>1
  <2>3. first \in dirs => home'[first] = home[first]
    BY <1>5, <1>10, <2>1
  <2>4. /\ kind = "dir" <=> first \in dirs
        /\ kind = "dir" => home[first] = Upto(path, comp)
    BY <1>1, <1>2 DEF ChainOK, Placing
  <2> QED
    BY <1>1, <1>4, <1>10, <2>2, <2>3, <2>4 DEF ChainOK, Growing, Placing, Freeing
<1> QED
  BY <1>14, <1>16, <1>17, <1>18, <1>19 DEF ExInv

---------------------------------------------------------------------------
(* Writing a set.                                                          *)

\* Two sets of a row with a cell in common are one.
LEMMA SetsApart ==
  ASSUME NEW r \in Row, NEW a \in 0 .. Cells - 1, NEW b \in 0 .. Cells - 1,
         r[a].t = "file", r[b].t = "file", Whole(r, a), Whole(r, b),
         NEW k \in 0 .. r[a].n, NEW l \in 0 .. r[b].n, a + k = b + l
  PROVE  a = b
<1>1. r[a].n \in Nat /\ r[b].n \in Nat
  BY DEF Row, Cell
<1>2. /\ k = 0 => r[a + k].t = "file"
      /\ k = 1 => r[a + k].t = "stream"
      /\ k >= 2 => r[a + k].t = "name" /\ r[a + k].n = k - 1
  BY <1>1, Geometry DEF Whole
<1>3. /\ l = 0 => r[b + l].t = "file"
      /\ l = 1 => r[b + l].t = "stream"
      /\ l >= 2 => r[b + l].t = "name" /\ r[b + l].n = l - 1
  BY <1>1, Geometry DEF Whole
<1>4. k = l
  <2>1. k \in Nat /\ l \in Nat
    BY <1>1
  <2> QED
    BY <1>2, <1>3, <2>1
<1> QED
  BY <1>4, Geometry

\* A set whose cells are the same is the same set.
LEMMA SameSet ==
  ASSUME NEW r \in Row, NEW q \in Row, NEW j \in 0 .. Cells - 1, Whole(r, j),
         \A k \in 0 .. r[j].n : q[j + k] = r[j + k]
  PROVE  /\ q[j] = r[j] /\ Whole(q, j) /\ SetName(q, j) = SetName(r, j) /\ q[j + 1].clus = r[j + 1].clus
         /\ IsSet(r, j) => IsSet(q, j)
<1>1. r[j].n \in Nat /\ r[j].n >= 2
  BY Geometry DEF Whole
<1>2. q[j] = r[j] /\ q[j + 1] = r[j + 1] /\ q[j + 2] = r[j + 2]
  <2>1. j + 0 = j /\ 0 \in 0 .. r[j].n /\ 1 \in 0 .. r[j].n /\ 2 \in 0 .. r[j].n
    BY <1>1, Geometry
  <2> QED
    BY <2>1
<1>3. \A k \in 2 .. r[j].n : q[j + k] = r[j + k]
  BY <1>1
<1> QED
  BY <1>2, <1>3 DEF Whole, IsSet, SetName

\* What is written, and where.
LEMMA CellFacts ==
  ASSUME ExInv, pc = "set"
  PROVE  /\ loc = <<loc[1], loc[2]>> /\ loc[1] \in dirs /\ loc[1] \in Cluster /\ loc[2] \in 0 .. Cells - 1
         /\ path \in FilePaths \cup DirPaths /\ comp \in 1 .. Len(path) /\ path[comp] \in Comp
         /\ Total(path[comp]) \in Nat /\ Total(path[comp]) >= 3 /\ i \in Nat /\ i < Total(path[comp])
         /\ loc[2] + Total(path[comp]) <= Cells /\ loc[2] + i \in 0 .. Cells - 1
         /\ cont[loc[1]] \in Row
         /\ \A k \in 0 .. i - 1 : cont[loc[1]][loc[2] + k] = Cell0(k)
         /\ \A k \in Nat : /\ Cell0(k) \in Cell /\ Cell0(k).t # "end" /\ Cell0(k).t # "sys"
                           /\ (Cell0(k).t = "file" <=> k = 0)
         /\ Cell0(0).dir = (kind = "dir") /\ Cell0(0).n = Total(path[comp]) - 1
         /\ Cell0(1).t = "stream" /\ Cell0(1).clus = first
         /\ \A k \in Nat : k >= 2 => /\ Cell0(k).t = "name" /\ Cell0(k).n = k - 1
                                     /\ Cell0(k).name = path[comp]
<1>1. ExTypeOK /\ CallOK /\ SetOK
  BY DEF ExInv, ExVolumeSafe
<1>2. /\ loc = <<loc[1], loc[2]>> /\ loc[1] \in Cluster /\ loc[2] \in 0 .. Cells - 1
      /\ cont[loc[1]] \in Row /\ first \in {0} \cup Cluster
      /\ data \in Contents \cup {<<>>} /\ i \in 0 .. Cells + Len(data)
  BY <1>1 DEF ExTypeOK, Row
<1>3. path \in FilePaths \cup DirPaths /\ comp \in 1 .. Len(path) /\ path[comp] \in Comp
  BY <1>1, PathFacts, UptoFacts DEF CallOK
<1>4. /\ loc[1] \in dirs /\ loc[2] + Total(path[comp]) <= Cells /\ i < Total(path[comp])
      /\ \A k \in 0 .. i - 1 : cont[loc[1]][loc[2] + k] = Cell0(k)
  BY <1>1 DEF SetOK
<1>5. Total(path[comp]) \in Nat /\ Total(path[comp]) >= 3 /\ i \in Nat /\ Len(data) \in Nat
  BY <1>2, <1>3, DataFacts, Geometry
<1>6. loc[2] + i \in 0 .. Cells - 1
  BY <1>2, <1>4, <1>5, Geometry
<1>7. Cell0(0) = [t |-> "file", name |-> NoAck, dir |-> (kind = "dir"), clus |-> 0, n |-> Total(path[comp]) - 1]
  <2>1. Cell0(0) = [End EXCEPT !.t = "file", !.dir = (kind = "dir"), !.n = Total(path[comp]) - 1]
    BY DEF Cell0, SetCell
  <2> QED
    BY <2>1 DEF End
<1>8. Cell0(1) = [t |-> "stream", name |-> NoAck, dir |-> FALSE, clus |-> first,
                  n |-> IF kind = "dir" THEN 0 ELSE Len(data)]
  <2>1. Cell0(1) = [End EXCEPT !.t = "stream", !.clus = first, !.n = IF kind = "dir" THEN 0 ELSE Len(data)]
    BY DEF Cell0, SetCell
  <2> QED
    BY <2>1 DEF End
<1>9. ASSUME NEW k \in Nat, k >= 2
      PROVE  Cell0(k) = [t |-> "name", name |-> path[comp], dir |-> FALSE, clus |-> 0, n |-> k - 1]
  <2>1. Cell0(k) = [End EXCEPT !.t = "name", !.name = path[comp], !.n = k - 1]
    BY <1>9 DEF Cell0, SetCell
  <2> QED
    BY <2>1 DEF End
<1>10. ASSUME NEW k \in Nat
       PROVE  /\ Cell0(k) \in Cell /\ Cell0(k).t # "end" /\ Cell0(k).t # "sys"
              /\ (Cell0(k).t = "file" <=> k = 0)
  <2>1. CASE k = 0
    <3>1. Cell0(0) \in Cell
      <4>1. Total(path[comp]) - 1 \in Nat
        BY <1>5
      <4>2. CASE kind = "dir"
        <5>1. Cell0(0) = [t |-> "file", name |-> NoAck, dir |-> TRUE, clus |-> 0, n |-> Total(path[comp]) - 1]
          BY <1>7, <4>2
        <5>2. [t |-> "file", name |-> NoAck, dir |-> TRUE, clus |-> 0, n |-> Total(path[comp]) - 1] \in Cell
          BY <4>1 DEF Cell
        <5> QED
          BY <5>1, <5>2
      <4>3. CASE kind # "dir"
        <5>1. Cell0(0) = [t |-> "file", name |-> NoAck, dir |-> FALSE, clus |-> 0, n |-> Total(path[comp]) - 1]
          BY <1>7, <4>3
        <5>2. [t |-> "file", name |-> NoAck, dir |-> FALSE, clus |-> 0, n |-> Total(path[comp]) - 1] \in Cell
          BY <4>1 DEF Cell
        <5> QED
          BY <5>1, <5>2
      <4> QED
        BY <4>2, <4>3
    <3>2. Cell0(0).t = "file"
      BY <1>7
    <3> QED
      BY <2>1, <3>1, <3>2
  <2>2. CASE k = 1
    <3>1. Cell0(1) \in Cell
      <4>1. PICK m \in Nat : m = IF kind = "dir" THEN 0 ELSE Len(data)
        BY <1>5
      <4>2. Cell0(1) = [t |-> "stream", name |-> NoAck, dir |-> FALSE, clus |-> first, n |-> m]
        BY <1>8, <4>1
      <4>3. [t |-> "stream", name |-> NoAck, dir |-> FALSE, clus |-> first, n |-> m] \in Cell
        BY <1>2 DEF Cell
      <4> QED
        BY <4>2, <4>3
    <3>2. Cell0(1).t = "stream"
      BY <1>8
    <3> QED
      BY <2>2, <3>1, <3>2
  <2>3. CASE k >= 2
    <3>1. Cell0(k) = [t |-> "name", name |-> path[comp], dir |-> FALSE, clus |-> 0, n |-> k - 1]
      BY <1>9, <2>3
    <3>2. Cell0(k) \in Cell
      BY <1>3, <2>3, <3>1 DEF Cell
    <3> QED
      BY <2>3, <3>1, <3>2
  <2> QED
    BY <2>1, <2>2, <2>3
<1>11. \A k \in Nat : k >= 2 => Cell0(k).t = "name" /\ Cell0(k).n = k - 1 /\ Cell0(k).name = path[comp]
  BY <1>9
<1>12. Cell0(0).dir = (kind = "dir") /\ Cell0(0).n = Total(path[comp]) - 1
  BY <1>7
<1>13. Cell0(1).t = "stream" /\ Cell0(1).clus = first
  BY <1>8
<1> QED
  BY <1>2, <1>3, <1>4, <1>5, <1>6, <1>10, <1>11, <1>12, <1>13

\* One cell changes.
LEMMA WrittenRow ==
  ASSUME ExInv, WriteSet
  PROVE  /\ pc = "set" /\ fat' = fat /\ bitmap' = bitmap /\ dirs' = dirs /\ home' = home
         /\ cont' \in [Cluster -> Row] /\ cont'[loc[1]] \in Row
         /\ \A c \in Cluster : c # loc[1] => cont'[c] = cont[c]
         /\ \A j \in 0 .. Cells - 1 :
              cont'[loc[1]][j] = IF j = loc[2] + i THEN Cell0(i) ELSE cont[loc[1]][j]
<1>1. /\ pc = "set" /\ fat' = fat /\ bitmap' = bitmap /\ dirs' = dirs /\ home' = home
      /\ cont' = [cont EXCEPT ![loc[1]][loc[2] + i] = Cell0(i)]
  BY DEF WriteSet, Cell0
<1>2. /\ loc[1] \in Cluster /\ loc[2] + i \in 0 .. Cells - 1 /\ cont[loc[1]] \in Row /\ i \in Nat
      /\ \A k \in Nat : Cell0(k) \in Cell
  BY <1>1, CellFacts
<1>3. cont \in [Cluster -> Row]
  BY EntryFacts DEF ExInv, ExVolumeSafe
<1>4. [cont[loc[1]] EXCEPT ![loc[2] + i] = Cell0(i)] \in Row
  BY <1>2 DEF Row
<1>5. cont' = [cont EXCEPT ![loc[1]] = [cont[loc[1]] EXCEPT ![loc[2] + i] = Cell0(i)]]
  BY <1>1
<1>6. cont'[loc[1]] = [cont[loc[1]] EXCEPT ![loc[2] + i] = Cell0(i)]
  BY <1>2, <1>3, <1>5
<1>7. \A j \in 0 .. Cells - 1 :
         cont'[loc[1]][j] = IF j = loc[2] + i THEN Cell0(i) ELSE cont[loc[1]][j]
  BY <1>2, <1>6 DEF Row
<1>8. \A c \in Cluster : c # loc[1] => cont'[c] = cont[c]
  BY <1>3, <1>5
<1>9. cont' \in [Cluster -> Row]
  BY <1>2, <1>3, <1>4, <1>5
<1> QED
  BY <1>1, <1>4, <1>6, <1>7, <1>8, <1>9

\* Before it changes, the cell is the end of the directory, or one of the set
\* of the file that is overwritten.
LEMMA WrittenCell ==
  ASSUME ExInv, pc = "set"
  PROVE  /\ kind # "old" => cont[loc[1]][loc[2] + i].t = "end"
         /\ kind = "old" => /\ Whole(cont[loc[1]], loc[2]) /\ cont[loc[1]][loc[2]].t = "file"
                            /\ cont[loc[1]][loc[2]].n = Total(path[comp]) - 1 /\ loc \in Entries
                            /\ i \in 0 .. cont[loc[1]][loc[2]].n
                            /\ cont[loc[1]][loc[2] + i].t \in {"file", "stream", "name"}
                            /\ (cont[loc[1]][loc[2] + i].t = "file" <=> i = 0)
<1>1. /\ loc[2] \in 0 .. Cells - 1 /\ i \in Nat /\ i < Total(path[comp]) /\ Total(path[comp]) \in Nat
      /\ loc[2] + i \in 0 .. Cells - 1
  BY CellFacts
<1>2. CASE kind # "old"
  <2>1. \A j \in 0 .. Cells - 1 : cont[loc[1]][j].t = "end" <=> j >= loc[2] + i
    BY <1>2 DEF ExInv, SetOK
  <2> QED
    BY <1>1, <1>2, <2>1
<1>3. CASE kind = "old"
  <2>1. /\ cont[loc[1]][loc[2]].t = "file" /\ cont[loc[1]][loc[2]].n = Total(path[comp]) - 1
        /\ loc \in Entries
    BY <1>3, OldSetFacts DEF Chosen
  <2>2. Whole(cont[loc[1]], loc[2])
    BY <2>1 DEF ExInv, ExVolumeSafe, EntriesSound
  <2>3. i \in 0 .. cont[loc[1]][loc[2]].n
    BY <1>1, <2>1
  <2>4. CASE i = 0
    <3>1. loc[2] + i = loc[2]
      BY <1>1, <2>4
    <3> QED
      BY <1>3, <2>1, <2>2, <2>3, <2>4, <3>1
  <2>5. CASE i = 1
    <3>1. cont[loc[1]][loc[2] + i].t = "stream"
      BY <2>2, <2>5 DEF Whole
    <3> QED
      BY <1>3, <2>1, <2>2, <2>3, <2>5, <3>1
  <2>6. CASE i >= 2
    <3>1. i \in 2 .. cont[loc[1]][loc[2]].n
      BY <1>1, <2>1, <2>6
    <3>2. cont[loc[1]][loc[2] + i].t = "name"
      BY <2>2, <3>1 DEF Whole
    <3> QED
      BY <1>3, <2>1, <2>2, <2>3, <2>6, <3>2
  <2> QED
    BY <1>1, <2>4, <2>5, <2>6
<1> QED
  BY <1>2, <1>3

\* The other sets stay as they are.
LEMMA OtherSets ==
  ASSUME ExInv, WriteSet, NEW e \in Entries, e # loc
  PROVE  /\ cont'[e[1]][e[2]] = cont[e[1]][e[2]] /\ Whole(cont'[e[1]], e[2])
         /\ SetName(cont'[e[1]], e[2]) = SetName(cont[e[1]], e[2])
         /\ ClusOf(e)' = ClusOf(e) /\ IsSet(cont'[e[1]], e[2])
<1>1. ExTypeOK /\ EntriesSound /\ pc = "set"
  BY WrittenRow DEF ExInv, ExVolumeSafe
<1>2. /\ e = <<e[1], e[2]>> /\ e[1] \in dirs /\ e[1] \in Cluster /\ e[2] \in 0 .. Cells - 1
      /\ cont[e[1]][e[2]].t = "file" /\ cont[e[1]] \in Row
  BY <1>1, EntryFacts
<1>3. Whole(cont[e[1]], e[2]) /\ IsSet(cont[e[1]], e[2])
  BY <1>1 DEF EntriesSound
<1>4. CASE e[1] # loc[1]
  <2>1. cont'[e[1]] = cont[e[1]]
    BY <1>2, <1>4, WrittenRow
  <2> QED
    BY <1>3, <2>1 DEF ClusOf
<1>5. CASE e[1] = loc[1]
  <2>1. /\ loc = <<loc[1], loc[2]>> /\ loc[2] \in 0 .. Cells - 1 /\ loc[1] \in Cluster
        /\ loc[2] + i \in 0 .. Cells - 1 /\ i \in Nat
    BY <1>1, CellFacts
  <2>2. cont[e[1]][e[2]].n \in Nat /\ e[2] + cont[e[1]][e[2]].n < Cells /\ e[2] + 1 < Cells
    BY <1>2, <1>3, Geometry DEF Row, Cell, Whole
  <2>3. ASSUME NEW k \in 0 .. cont[e[1]][e[2]].n PROVE e[2] + k # loc[2] + i
    <3> SUFFICES ASSUME e[2] + k = loc[2] + i PROVE FALSE
      OBVIOUS
    <3>1. /\ k = 0 => cont[e[1]][e[2] + k].t = "file"
          /\ k = 1 => cont[e[1]][e[2] + k].t = "stream"
          /\ k >= 2 => cont[e[1]][e[2] + k].t = "name"
      BY <1>2, <1>3, <2>2, <2>3, Geometry DEF Whole
    <3>2. cont[e[1]][e[2] + k].t # "end"
      BY <2>2, <2>3, <3>1
    <3>3. kind = "old"
      BY <1>1, <1>5, <3>2, WrittenCell
    <3>4. /\ Whole(cont[loc[1]], loc[2]) /\ cont[loc[1]][loc[2]].t = "file"
          /\ i \in 0 .. cont[loc[1]][loc[2]].n
      BY <1>1, <3>3, WrittenCell
    <3>5. e[2] = loc[2]
      BY <1>2, <1>3, <1>5, <2>1, <2>3, <3>4, SetsApart
    <3> QED
      BY <1>2, <1>5, <2>1, <3>5
  <2>4. \A k \in 0 .. cont[e[1]][e[2]].n : cont'[e[1]][e[2] + k] = cont[e[1]][e[2] + k]
    <3> SUFFICES ASSUME NEW k \in 0 .. cont[e[1]][e[2]].n
                 PROVE  cont'[e[1]][e[2] + k] = cont[e[1]][e[2] + k]
      OBVIOUS
    <3>1. e[2] + k \in 0 .. Cells - 1
      BY <1>2, <2>2, Geometry
    <3> QED
      BY <1>5, <2>3, <3>1, WrittenRow
  <2>5. cont'[e[1]] \in Row
    BY <1>5, WrittenRow
  <2>6. /\ cont'[e[1]][e[2]] = cont[e[1]][e[2]] /\ Whole(cont'[e[1]], e[2])
        /\ SetName(cont'[e[1]], e[2]) = SetName(cont[e[1]], e[2])
        /\ cont'[e[1]][e[2] + 1].clus = cont[e[1]][e[2] + 1].clus
        /\ IsSet(cont[e[1]], e[2]) => IsSet(cont'[e[1]], e[2])
    BY <1>2, <1>3, <2>4, <2>5, SameSet
  <2> QED
    BY <1>3, <2>6 DEF ClusOf
<1> QED
  BY <1>4, <1>5

\* A set starts where one started before, but for the one that is written.
LEMMA FileCells ==
  ASSUME ExInv, WriteSet
  PROVE  /\ \A e \in dirs \X (0 .. Cells - 1) :
              e # loc => (cont'[e[1]][e[2]].t = "file" <=> cont[e[1]][e[2]].t = "file")
         /\ kind = "old" \/ i + 1 = Total(path[comp]) => cont'[loc[1]][loc[2]].t = "file"
<1>1. /\ pc = "set" /\ loc = <<loc[1], loc[2]>> /\ loc[2] \in 0 .. Cells - 1 /\ i \in Nat
      /\ loc[2] + i \in 0 .. Cells - 1 /\ Total(path[comp]) >= 3 /\ dirs \subseteq Cluster
      /\ Cell0(i).t = "file" <=> i = 0
  BY WrittenRow, CellFacts, EntryFacts DEF ExInv, ExVolumeSafe
<1>2. ASSUME NEW e \in dirs \X (0 .. Cells - 1), e # loc
      PROVE  cont'[e[1]][e[2]].t = "file" <=> cont[e[1]][e[2]].t = "file"
  <2>1. e = <<e[1], e[2]>> /\ e[1] \in dirs /\ e[2] \in 0 .. Cells - 1
    OBVIOUS
  <2>2. CASE e[1] # loc[1]
    BY <1>1, <2>1, <2>2, WrittenRow
  <2>3. CASE e[1] = loc[1] /\ e[2] # loc[2] + i
    BY <2>1, <2>3, WrittenRow
  <2>4. CASE e[1] = loc[1] /\ e[2] = loc[2] + i
    <3>1. i # 0
      BY <1>1, <1>2, <2>1, <2>4
    <3>2. cont'[e[1]][e[2]].t # "file"
      BY <1>1, <2>1, <2>4, <3>1, WrittenRow
    <3>3. cont[e[1]][e[2]].t # "file"
      BY <1>1, <2>4, <3>1, WrittenCell
    <3> QED
      BY <3>2, <3>3
  <2> QED
    BY <2>2, <2>3, <2>4
<1>3. ASSUME kind = "old" \/ i + 1 = Total(path[comp]) PROVE cont'[loc[1]][loc[2]].t = "file"
  <2>1. CASE i = 0
    <3>1. loc[2] = loc[2] + i
      BY <1>1, <2>1
    <3> QED
      BY <1>1, <2>1, <3>1, WrittenRow
  <2>2. CASE i # 0
    <3>1. loc[2] # loc[2] + i
      BY <1>1, <2>2
    <3>2. cont'[loc[1]][loc[2]] = cont[loc[1]][loc[2]]
      BY <1>1, <3>1, WrittenRow
    <3>3. CASE kind = "old"
      BY <1>1, <3>2, <3>3, WrittenCell
    <3>4. CASE i + 1 = Total(path[comp])
      <4>1. 0 \in 0 .. i - 1 /\ loc[2] + 0 = loc[2]
        BY <1>1, <2>2
      <4>2. cont[loc[1]][loc[2]] = Cell0(0)
        BY <1>1, <4>1, CellFacts
      <4> QED
        BY <1>1, <3>2, <4>2, CellFacts
    <3> QED
      BY <1>3, <3>3, <3>4
  <2> QED
    BY <2>1, <2>2
<1> QED
  BY <1>2, <1>3

\* The set of an old file is whole with any number of its cells written.
LEMMA OldSetWhole ==
  ASSUME ExInv, WriteSet, kind = "old"
  PROVE  /\ Whole(cont'[loc[1]], loc[2]) /\ ~cont'[loc[1]][loc[2]].dir
         /\ SetName(cont'[loc[1]], loc[2]) = Wanted /\ cont'[loc[1]][loc[2] + 1].clus \notin dirs
<1> DEFINE r == cont[loc[1]]
           q == cont'[loc[1]]
           j == loc[2]
           n == Total(path[comp]) - 1
<1>1. /\ pc = "set" /\ j \in 0 .. Cells - 1 /\ i \in Nat /\ path[comp] \in Comp
      /\ j + i \in 0 .. Cells - 1 /\ n \in Nat /\ n >= 2 /\ j + n < Cells /\ i \in 0 .. n
  <2>1. /\ pc = "set" /\ j \in 0 .. Cells - 1 /\ i \in Nat /\ path[comp] \in Comp
        /\ j + i \in 0 .. Cells - 1 /\ Total(path[comp]) \in Nat /\ Total(path[comp]) >= 3
        /\ j + Total(path[comp]) <= Cells /\ i < Total(path[comp])
    BY WrittenRow, CellFacts
  <2> QED
    BY <2>1, Geometry
<1>2. \A k \in 0 .. n : j + k \in 0 .. Cells - 1 /\ q[j + k] = IF k = i THEN Cell0(k) ELSE r[j + k]
  <2> SUFFICES ASSUME NEW k \in 0 .. n
               PROVE  j + k \in 0 .. Cells - 1 /\ q[j + k] = IF k = i THEN Cell0(k) ELSE r[j + k]
    OBVIOUS
  <2>1. j + k \in 0 .. Cells - 1 /\ (j + k = j + i <=> k = i)
    BY <1>1, Geometry
  <2> QED
    BY <2>1, WrittenRow
<1>3. Whole(r, j) /\ r[j].n = n /\ ~r[j].dir /\ SetName(r, j) = Upper[path[comp]] /\ ClusOf(loc) \notin dirs
      /\ ClusOf(loc) = r[j + 1].clus
  BY <1>1, WrittenCell, OldSetFacts DEF Chosen
<1>4. first \notin dirs
  BY <1>1 DEF ExInv, ChainOK
<1>5. /\ ~Cell0(0).dir /\ Cell0(0).n = n /\ Cell0(1).t = "stream" /\ Cell0(1).clus = first
      /\ \A k \in Nat : k >= 2 => Cell0(k).t = "name" /\ Cell0(k).n = k - 1 /\ Cell0(k).name = path[comp]
  BY <1>1, CellFacts
<1>6. 0 \in 0 .. n /\ 1 \in 0 .. n /\ 2 \in 0 .. n /\ j + 0 = j
  BY <1>1
<1>7. q[j].n = n /\ ~q[j].dir
  <2>1. q[j] = IF 0 = i THEN Cell0(0) ELSE r[j]
    BY <1>2, <1>6
  <2> QED
    BY <1>3, <1>5, <2>1
<1>8. q[j + 1].t = "stream" /\ q[j + 1].clus \notin dirs
  <2>1. q[j + 1] = IF 1 = i THEN Cell0(1) ELSE r[j + 1]
    BY <1>2, <1>6
  <2>2. r[j + 1].t = "stream"
    BY <1>3 DEF Whole
  <2> QED
    BY <1>3, <1>4, <1>5, <2>1, <2>2
<1>9. ASSUME NEW k \in 2 .. n
      PROVE  /\ q[j + k].t = "name" /\ q[j + k].n = k - 1 /\ q[j + k].name \in Comp
             /\ Upper[q[j + k].name] = Upper[path[comp]]
  <2>1. q[j + k] = IF k = i THEN Cell0(k) ELSE r[j + k]
    BY <1>1, <1>2
  <2>2. CASE k = i
    <3>1. k \in Nat /\ k >= 2
      BY <1>1
    <3> QED
      BY <1>1, <1>5, <2>1, <2>2, <3>1
  <2>3. CASE k # i
    <3>1. k \in 2 .. r[j].n
      BY <1>3
    <3>2. r[j + k].t = "name" /\ r[j + k].n = k - 1 /\ r[j + k].name \in Comp
          /\ Upper[r[j + k].name] = Upper[r[j + 2].name]
      BY <1>3, <3>1 DEF Whole
    <3> QED
      BY <1>3, <2>1, <2>3, <3>2 DEF SetName
  <2> QED
    BY <2>2, <2>3
<1>10. q[j + 2].name \in Comp /\ Upper[q[j + 2].name] = Upper[path[comp]] /\ 2 \in 2 .. n
  BY <1>1, <1>9
<1>11. Total(q[j + 2].name) = Total(path[comp])
  BY <1>1, <1>10, CaseKeepsLength DEF Total
<1>12. Whole(q, j)
  <2>1. j + 2 < Cells /\ j + q[j].n < Cells
    BY <1>1, <1>7, Geometry
  <2>2. q[j].n = Total(q[j + 2].name) - 1
    BY <1>7, <1>11
  <2>3. \A k \in 2 .. q[j].n : /\ q[j + k].t = "name" /\ q[j + k].n = k - 1 /\ q[j + k].name \in Comp
                                /\ Upper[q[j + k].name] = Upper[q[j + 2].name]
    BY <1>7, <1>9, <1>10
  <2> QED
    BY <1>8, <1>10, <2>1, <2>2, <2>3 DEF Whole
<1>13. SetName(q, j) = Wanted
  BY <1>10 DEF SetName, Wanted
<1> QED
  BY <1>7, <1>8, <1>12, <1>13

\* With its last cell a set is complete.
LEMMA NewSetWhole ==
  ASSUME ExInv, WriteSet, i + 1 = Total(path[comp])
  PROVE  /\ Whole(cont'[loc[1]], loc[2]) /\ IsSet(cont'[loc[1]], loc[2])
         /\ (cont'[loc[1]][loc[2]].dir <=> kind = "dir") /\ cont'[loc[1]][loc[2] + 1].clus = first
         /\ SetName(cont'[loc[1]], loc[2]) = Wanted
<1> DEFINE q == cont'[loc[1]]
           j == loc[2]
           n == Total(path[comp]) - 1
<1>1. /\ pc = "set" /\ j \in 0 .. Cells - 1 /\ i \in Nat /\ path[comp] \in Comp
      /\ n \in Nat /\ n >= 2 /\ j + n < Cells /\ i = n
  <2>1. /\ pc = "set" /\ j \in 0 .. Cells - 1 /\ i \in Nat /\ path[comp] \in Comp
        /\ Total(path[comp]) \in Nat /\ Total(path[comp]) >= 3 /\ j + Total(path[comp]) <= Cells
    BY WrittenRow, CellFacts
  <2> QED
    BY <2>1, Geometry
<1>2. \A k \in 0 .. n : q[j + k] = Cell0(k)
  <2> SUFFICES ASSUME NEW k \in 0 .. n PROVE q[j + k] = Cell0(k)
    OBVIOUS
  <2>1. j + k \in 0 .. Cells - 1 /\ (j + k = j + i <=> k = i) /\ (k # i => k \in 0 .. i - 1)
    BY <1>1, Geometry
  <2>2. q[j + k] = IF k = i THEN Cell0(k) ELSE cont[loc[1]][j + k]
    BY <2>1, WrittenRow
  <2> QED
    BY <1>1, <2>1, <2>2, CellFacts
<1>3. /\ (Cell0(0).dir <=> kind = "dir") /\ Cell0(0).n = n /\ Cell0(0).t = "file"
      /\ Cell0(1).t = "stream" /\ Cell0(1).clus = first
      /\ \A k \in Nat : k >= 2 => Cell0(k).t = "name" /\ Cell0(k).n = k - 1 /\ Cell0(k).name = path[comp]
  BY <1>1, CellFacts
<1>4. 0 \in 0 .. n /\ 1 \in 0 .. n /\ 2 \in 0 .. n /\ 2 \in 2 .. n /\ j + 0 = j
  BY <1>1
<1>5. /\ q[j].n = n /\ q[j].t = "file" /\ (q[j].dir <=> kind = "dir")
      /\ q[j + 1].t = "stream" /\ q[j + 1].clus = first
  BY <1>2, <1>3, <1>4
<1>6. \A k \in 2 .. n : q[j + k].t = "name" /\ q[j + k].n = k - 1 /\ q[j + k].name = path[comp]
  <2> SUFFICES ASSUME NEW k \in 2 .. n
               PROVE  q[j + k].t = "name" /\ q[j + k].n = k - 1 /\ q[j + k].name = path[comp]
    OBVIOUS
  <2>1. k \in 0 .. n /\ k \in Nat /\ k >= 2
    BY <1>1
  <2> QED
    BY <1>2, <1>3, <2>1
<1>7. q[j + 2].name = path[comp]
  BY <1>4, <1>6
<1>8. j + 2 < Cells /\ j + q[j].n < Cells /\ q[j].n = Total(q[j + 2].name) - 1
  BY <1>1, <1>5, <1>7, Geometry
<1>9. Whole(q, j)
  BY <1>1, <1>5, <1>6, <1>7, <1>8 DEF Whole
<1>10. IsSet(q, j)
  BY <1>5, <1>6, <1>7, <1>8 DEF IsSet
<1> QED
  BY <1>5, <1>7, <1>9, <1>10 DEF SetName, Wanted

\* The entries after the write: a new set becomes one with its last cell.
LEMMA EntriesAfter ==
  ASSUME ExInv, WriteSet
  PROVE  /\ loc \in Entries <=> kind = "old"
         /\ i + 1 < Total(path[comp]) => Entries' = Entries
         /\ i + 1 = Total(path[comp]) => Entries' = Entries \cup {loc}
<1>1. /\ pc = "set" /\ dirs' = dirs /\ loc \in dirs \X (0 .. Cells - 1) /\ i \in Nat
      /\ Total(path[comp]) \in Nat
  BY WrittenRow, CellFacts
<1> DEFINE F(c) == {e \in dirs \X (0 .. Cells - 1) : c[e[1]][e[2]].t = "file"}
<1>2. F(cont') \ {loc} = F(cont) \ {loc}
  BY FileCells
<1>3. /\ loc \in Entries <=> kind = "old"
      /\ Entries = IF kind = "old" THEN F(cont) ELSE F(cont) \ {loc}
  <2>1. kind = "old" => loc \in Entries
    BY <1>1, WrittenCell
  <2>2. kind # "old" => loc \notin Entries
    BY <1>1 DEF Entries, Partial
  <2>3. Entries = IF kind = "old" THEN F(cont) ELSE F(cont) \ {loc}
    BY <1>1 DEF Entries, Partial
  <2> QED
    BY <2>1, <2>2, <2>3
<1>4. kind = "old" \/ i + 1 = Total(path[comp]) => loc \in F(cont')
  BY <1>1, FileCells
<1>5. ASSUME i + 1 < Total(path[comp]) PROVE Entries' = Entries
  <2>1. pc' = "set" /\ kind' = kind /\ loc' = loc
    BY <1>5 DEF WriteSet, Goto
  <2>2. Entries' = IF kind = "old" THEN F(cont') ELSE F(cont') \ {loc}
    BY <1>1, <2>1 DEF Entries, Partial
  <2> QED
    BY <1>2, <1>3, <1>4, <2>2
<1>6. ASSUME i + 1 = Total(path[comp]) PROVE Entries' = Entries \cup {loc}
  <2>1. pc' # "set"
    <3>1. ~(i + 1 < Total(path[comp]))
      BY <1>1, <1>6
    <3> QED
      BY <3>1 DEF WriteSet, Goto, Return, Reset
  <2>2. Entries' = F(cont')
    BY <1>1, <2>1 DEF Entries, Partial
  <2> QED
    BY <1>2, <1>3, <1>4, <1>6, <2>2
<1> QED
  BY <1>3, <1>5, <1>6

\* No set is taken away from a directory and none put behind its end.
LEMMA RowsAfter ==
  ASSUME ExInv, WriteSet
  PROVE  /\ RowsSound'
         /\ kind # "old" => \A j \in 0 .. Cells - 1 : cont'[loc[1]][j].t = "end" <=> j >= loc[2] + (i + 1)
<1>1. /\ pc = "set" /\ dirs' = dirs /\ loc = <<loc[1], loc[2]>> /\ loc[2] \in 0 .. Cells - 1 /\ i \in Nat
      /\ loc[1] \in Cluster /\ loc[2] + i \in 0 .. Cells - 1 /\ dirs \subseteq Cluster
      /\ Cell0(i).t # "end" /\ Cell0(i).t # "sys" /\ Total(path[comp]) \in Nat /\ i < Total(path[comp])
  BY WrittenRow, CellFacts, EntryFacts DEF ExInv, ExVolumeSafe
<1>2. RowsSound
  BY DEF ExInv, ExVolumeSafe
<1>3. ASSUME kind # "old"
      PROVE  \A j \in 0 .. Cells - 1 : cont'[loc[1]][j].t = "end" <=> j >= loc[2] + (i + 1)
  <2>1. \A j \in 0 .. Cells - 1 : cont[loc[1]][j].t = "end" <=> j >= loc[2] + i
    BY <1>1, <1>3 DEF ExInv, SetOK
  <2> SUFFICES ASSUME NEW j \in 0 .. Cells - 1
               PROVE  cont'[loc[1]][j].t = "end" <=> j >= loc[2] + (i + 1)
    OBVIOUS
  <2>2. cont'[loc[1]][j] = IF j = loc[2] + i THEN Cell0(i) ELSE cont[loc[1]][j]
    BY WrittenRow
  <2>3. j >= loc[2] + (i + 1) <=> j >= loc[2] + i /\ j # loc[2] + i
    BY <1>1, Geometry
  <2> QED
    BY <1>1, <2>1, <2>2, <2>3
<1>4. ASSUME NEW c \in dirs, NEW j \in 0 .. Cells - 1, NEW k \in 0 .. Cells - 1, j < k,
             cont'[c][j].t = "end"
      PROVE  cont'[c][k].t = "end"
  <2>0. c \in Cluster
    BY <1>1
  <2>1. CASE c # loc[1]
    <3>1. cont'[c] = cont[c]
      BY <2>0, <2>1, WrittenRow
    <3> QED
      BY <1>2, <1>4, <3>1 DEF RowsSound
  <2>2. CASE c = loc[1] /\ kind # "old"
    <3>1. j >= loc[2] + (i + 1)
      BY <1>3, <1>4, <2>2
    <3>2. k >= loc[2] + (i + 1)
      BY <1>1, <1>4, <3>1, Geometry
    <3> QED
      BY <1>3, <2>2, <3>2
  <2>3. CASE c = loc[1] /\ kind = "old"
    <3>1. cont[loc[1]][loc[2] + i].t # "end"
      BY <1>1, <2>3, WrittenCell
    <3>2. j # loc[2] + i /\ cont'[c][j] = cont[c][j]
      BY <1>1, <1>4, <2>3, WrittenRow
    <3>3. cont[c][k].t = "end"
      BY <1>2, <1>4, <3>2 DEF RowsSound
    <3>4. cont'[c][k] = cont[c][k]
      BY <2>3, <3>1, <3>3, WrittenRow
    <3> QED
      BY <3>3, <3>4
  <2> QED
    BY <2>1, <2>2, <2>3
<1>5. ASSUME NEW j \in 0 .. SysCells - 1 PROVE cont'[RootClus][j].t = "sys"
  <2>1. cont[RootClus][j].t = "sys" /\ j \in 0 .. Cells - 1 /\ RootClus \in Cluster
    BY <1>2, Geometry DEF RowsSound
  <2>2. CASE RootClus # loc[1]
    BY <2>1, <2>2, WrittenRow
  <2>3. CASE RootClus = loc[1]
    <3>1. cont[loc[1]][loc[2] + i].t # "sys"
      BY <1>1, WrittenCell
    <3>2. j # loc[2] + i
      BY <2>1, <2>3, <3>1
    <3> QED
      BY <2>1, <2>3, <3>2, WrittenRow
  <2> QED
    BY <2>2, <2>3
<1>6. /\ <<RootClus, SysCells>> \in Entries' /\ ~cont'[RootClus][SysCells].dir
      /\ SetName(cont'[RootClus], SysCells) = Upper[HostFile]
  <2> DEFINE e == <<RootClus, SysCells>>
  <2>1. e \in Entries /\ ~cont[RootClus][SysCells].dir /\ SetName(cont[RootClus], SysCells) = Upper[HostFile]
    BY <1>2 DEF RowsSound
  <2>2. e \in Entries'
    BY <1>1, <2>1, EntriesAfter
  <2>3. CASE e # loc
    <3>1. /\ cont'[e[1]][e[2]] = cont[e[1]][e[2]]
          /\ SetName(cont'[e[1]], e[2]) = SetName(cont[e[1]], e[2])
      BY <2>1, <2>3, OtherSets
    <3> QED
      BY <2>1, <2>2, <3>1
  <2>4. CASE e = loc
    <3>1. kind = "old" /\ loc[1] = RootClus /\ loc[2] = SysCells
      BY <2>1, <2>4, EntriesAfter
    <3>2. ~cont'[loc[1]][loc[2]].dir /\ SetName(cont'[loc[1]], loc[2]) = Wanted
      BY <3>1, OldSetWhole
    <3>3. Wanted = SetName(cont[loc[1]], loc[2])
      BY <1>1, <3>1, OldSetFacts DEF Chosen, Wanted
    <3> QED
      BY <2>1, <2>2, <3>1, <3>2, <3>3
  <2> QED
    BY <2>3, <2>4
<1>7. RowsSound'
  <2>1. SetName(cont[RootClus], SysCells)' = SetName(cont'[RootClus], SysCells)
    BY DEF SetName
  <2> QED
    BY <1>1, <1>4, <1>5, <1>6, <2>1 DEF RowsSound
<1> QED
  BY <1>3, <1>7

\* The entries stay sound, whether the set is complete or not.
LEMMA EntriesSoundAfter ==
  ASSUME ExInv, WriteSet
  PROVE  EntriesSound'
<1>1. /\ pc = "set" /\ dirs' = dirs /\ home' = home /\ loc = <<loc[1], loc[2]>> /\ i \in Nat
      /\ Total(path[comp]) \in Nat /\ i < Total(path[comp]) /\ path \in FilePaths \cup DirPaths
      /\ comp \in 1 .. Len(path) /\ loc[2] + Total(path[comp]) <= Cells /\ Total(path[comp]) >= 3
      /\ loc[2] \in 0 .. Cells - 1
  BY WrittenRow, CellFacts
<1>2. /\ kind = "dir" <=> first \in dirs
      /\ kind = "dir" => home[first] = Upto(path, comp)
      /\ kind # "old" => home[loc[1]] = Upto(path, comp - 1)
  <2>1. kind # "old" => home[loc[1]] = home[dir_cl]
    BY <1>1 DEF ExInv, SetOK
  <2>2. home[dir_cl] = Upto(path, comp - 1)
    BY <1>1 DEF ExInv, CallOK
  <2> QED
    BY <1>1, <2>1, <2>2 DEF ExInv, ChainOK
<1>3. Append(Upto(path, comp - 1), Wanted) = Upto(path, comp)
  BY <1>1, PathFacts, UptoFacts DEF Wanted
<1>4. loc[2] + 1 < Cells
  BY <1>1, Geometry
<1> SUFFICES ASSUME NEW e \in Entries'
             PROVE  /\ Whole(cont'[e[1]], e[2])
                    /\ cont'[e[1]][e[2]].dir <=> ClusOf(e)' \in dirs
                    /\ cont'[e[1]][e[2]].dir =>
                         home[ClusOf(e)'] = Append(home[e[1]], SetName(cont'[e[1]], e[2]))
                    /\ ~(pc' = "set" /\ e = loc') => IsSet(cont'[e[1]], e[2])
  BY <1>1 DEF EntriesSound, Whole, SetName, IsSet, Total
<1>5. CASE e # loc
  <2>1. e \in Entries
    BY <1>1, <1>5, EntriesAfter
  <2>2. /\ cont'[e[1]][e[2]] = cont[e[1]][e[2]] /\ Whole(cont'[e[1]], e[2])
        /\ SetName(cont'[e[1]], e[2]) = SetName(cont[e[1]], e[2])
        /\ ClusOf(e)' = ClusOf(e) /\ IsSet(cont'[e[1]], e[2])
    BY <1>5, <2>1, OtherSets
  <2>3. /\ cont[e[1]][e[2]].dir <=> ClusOf(e) \in dirs
        /\ cont[e[1]][e[2]].dir => home[ClusOf(e)] = Append(home[e[1]], SetName(cont[e[1]], e[2]))
    BY <2>1 DEF ExInv, ExVolumeSafe, EntriesSound
  <2> QED
    BY <2>2, <2>3
<1>6. CASE e = loc /\ i + 1 = Total(path[comp])
  <2>1. /\ Whole(cont'[e[1]], e[2]) /\ IsSet(cont'[e[1]], e[2])
        /\ (cont'[e[1]][e[2]].dir <=> kind = "dir") /\ cont'[e[1]][e[2] + 1].clus = first
        /\ SetName(cont'[e[1]], e[2]) = Wanted
    BY <1>6, NewSetWhole
  <2>2. ClusOf(e)' = first
    BY <1>4, <1>6, <2>1 DEF ClusOf
  <2>3. kind = "dir" => home[first] = Append(home[e[1]], Wanted)
    BY <1>2, <1>3, <1>6
  <2> QED
    BY <1>2, <2>1, <2>2, <2>3
<1>7. CASE e = loc /\ i + 1 # Total(path[comp])
  <2>1. i + 1 < Total(path[comp])
    BY <1>1, <1>7
  <2>2. kind = "old" /\ pc' = "set" /\ loc' = loc
    BY <1>7, <2>1, EntriesAfter DEF WriteSet, Goto
  <2>3. /\ Whole(cont'[e[1]], e[2]) /\ ~cont'[e[1]][e[2]].dir /\ cont'[e[1]][e[2] + 1].clus \notin dirs
    BY <1>7, <2>2, OldSetWhole
  <2>4. ClusOf(e)' \notin dirs
    BY <1>4, <1>7, <2>3 DEF ClusOf
  <2> QED
    BY <1>7, <2>2, <2>3, <2>4
<1> QED
  BY <1>5, <1>6, <1>7

\* The first cluster of a complete set has its owner; before that nothing
\* changes.
LEMMA OwnersAfter ==
  ASSUME ExInv, WriteSet
  PROVE  /\ i + 1 < Total(path[comp]) => own' = own
         /\ i + 1 = Total(path[comp]) =>
              /\ OneOwner(fat, own') /\ InUse(fat, own', dirs)
              /\ leaked \/ NoneLost(fat, own', {})
<1>1. /\ pc = "set" /\ i \in Nat /\ Total(path[comp]) \in Nat /\ loc[2] \in 0 .. Cells - 1
      /\ loc[2] + Total(path[comp]) <= Cells /\ Total(path[comp]) >= 3
  BY WrittenRow, CellFacts
<1>2. \A e \in Entries : e # loc => ClusOf(e)' = ClusOf(e)
  BY OtherSets
<1>3. Owners = {e \in Entries \ {loc} : ClusOf(e) # 0}
  BY <1>1, EntriesAfter DEF Owners, Changing
<1>4. ASSUME i + 1 < Total(path[comp]) PROVE own' = own
  <2>1. pc' = "set" /\ kind' = kind /\ loc' = loc /\ Entries' = Entries
    BY <1>4, EntriesAfter DEF WriteSet, Goto
  <2>2. Owners' = {e \in Entries \ {loc} : ClusOf(e)' # 0}
    <3>1. (Entries \ Changing)' = Entries \ {loc}
      BY <2>1, EntriesAfter DEF Changing
    <3> QED
      BY <3>1 DEF Owners
  <2>3. Owners' = Owners
    BY <1>2, <1>3, <2>2
  <2>4. \A e \in Owners : ClusOf(e)' = ClusOf(e)
    BY <1>2, <1>3
  <2> QED
    BY <2>3, <2>4 DEF own
<1>5. ASSUME i + 1 = Total(path[comp])
      PROVE  OneOwner(fat, own') /\ InUse(fat, own', dirs) /\ (leaked \/ NoneLost(fat, own', {}))
  <2>1. pc' \in {"idle", "find"} /\ Entries' = Entries \cup {loc}
    <3>1. ~(i + 1 < Total(path[comp]))
      BY <1>1, <1>5
    <3> QED
      BY <1>5, <3>1, EntriesAfter DEF WriteSet, Goto, Return, Reset
  <2>2. \A e : e = loc => ClusOf(e)' = first
    <3> SUFFICES ASSUME NEW e, e = loc PROVE ClusOf(e)' = first
      OBVIOUS
    <3>1. cont'[e[1]][e[2] + 1].clus = first /\ e[2] + 1 < Cells
      BY <1>1, <1>5, NewSetWhole, Geometry
    <3> QED
      BY <3>1 DEF ClusOf
  <2>3. Owners' = {e \in Entries \cup {loc} : ClusOf(e)' # 0}
    BY <2>1 DEF Owners, Changing
  <2>4. Owners' = IF first = 0 THEN Owners ELSE Owners \cup {loc}
    BY <1>2, <1>3, <2>2, <2>3
  <2>5. DOMAIN own = Owners /\ DOMAIN own' = Owners' /\ loc \notin Owners
    BY <1>3 DEF own
  <2>6. \A e \in Owners : own[e] = ClusOf(e) /\ ClusOf(e)' = ClusOf(e)
    BY <1>2, <1>3 DEF own
  <2>7. \A e \in Owners' : own'[e] = ClusOf(e)'
    BY DEF own
  <2>8. \A e \in Owners : own'[e] = own[e]
    BY <2>4, <2>6, <2>7
  <2>9. /\ OneOwner(fat, own) /\ InUse(fat, own, dirs) /\ (leaked \/ NoneLost(fat, own, {first}))
        /\ ExTypeOK
    BY <1>1 DEF ExInv, ExVolumeSafe, InHand
  <2>10. CASE first = 0
    <3>1. own' = own
      <4>1. Owners' = Owners
        BY <2>4, <2>10
      <4> QED
        BY <2>6, <4>1 DEF own
    <3> QED
      BY <2>9, <2>10, <3>1, Geometry DEF NoneLost
  <2>11. CASE first # 0
    <3>1. fat \in Table /\ \A e \in DOMAIN own : own[e] \in Cluster
      BY <2>9, EntryFacts
    <3>2. first \in Cluster /\ Loose(fat, own, first) /\ fat[first] # 0
      BY <1>1, <2>9, <2>11 DEF ExTypeOK, ExInv, ChainOK
    <3>3. DOMAIN own' = DOMAIN own \cup {loc} /\ loc \notin DOMAIN own /\ own'[loc] = first
      BY <2>2, <2>4, <2>5, <2>7, <2>11
    <3>4. \A e \in DOMAIN own : own'[e] = own[e]
      BY <2>5, <2>8
    <3>5. /\ OneOwner(fat, own') /\ InUse(fat, own', dirs)
          /\ \A H : NoneLost(fat, own, H) => NoneLost(fat, own', H \ {first})
      BY <2>9, <3>1, <3>2, <3>3, <3>4, AddOwner
    <3>6. {first} \ {first} = {}
      OBVIOUS
    <3> QED
      BY <2>9, <3>5, <3>6
  <2> QED
    BY <2>10, <2>11
<1> QED
  BY <1>4, <1>5

LEMMA WriteSetStep == ASSUME ExInv, WriteSet PROVE ExInv'
<1>1. /\ pc = "set" /\ fat' = fat /\ bitmap' = bitmap /\ dirs' = dirs /\ home' = home
      /\ cont' \in [Cluster -> Row]
  BY WrittenRow
<1>2. /\ ExVolumeSafe /\ ExTypeOK /\ CallOK /\ ChainOK /\ SetOK
  BY DEF ExInv, ExVolumeSafe
<1>3. /\ i \in Nat /\ Total(path[comp]) \in Nat /\ i < Total(path[comp]) /\ path \in FilePaths \cup DirPaths
      /\ comp \in 1 .. Len(path) /\ Total(path[comp]) <= Cells /\ Len(data) \in Nat
      /\ Len(path) \in Nat \ {0}
  BY <1>1, <1>2, CellFacts, PathFacts, DataFacts, Geometry DEF ExTypeOK
<1>4. EntriesSound' /\ RowsSound'
  BY EntriesSoundAfter, RowsAfter
<1>5. DirsSound'
  BY <1>1, <1>2 DEF ExVolumeSafe, DirsSound
<1>6. /\ InHand = {first} /\ KindKept(fat, dirs, home, {}) /\ bitmap = {c \in Cluster : fat[c] # 0}
      /\ OneOwner(fat, own) /\ InUse(fat, own, dirs) /\ (leaked \/ NoneLost(fat, own, InHand))
  BY <1>1, <1>2 DEF ExVolumeSafe, InHand, BitmapAgrees
<1>7. CASE i + 1 < Total(path[comp])
  <2>1. /\ i' = i + 1 /\ pc' = "set" /\ acked' = acked
        /\ UNCHANGED <<leaked, call, path, comp, data, dir_cl, cl, loc, kind, first, prev, new_cl>>
    BY <1>7 DEF WriteSet, Goto
  <2>2. own' = own /\ Entries' = Entries
    BY <1>7, OwnersAfter, EntriesAfter
  <2>3. ExTypeOK'
    <3>1. i' \in 0 .. Cells + Len(data')
      BY <1>3, <1>7, <2>1, Geometry
    <3> QED
      BY <1>1, <1>2, <2>1, <3>1 DEF ExTypeOK, Row
  <2>4. BitmapAgrees' /\ InHand' = {first}
    BY <1>1, <1>6, <2>1 DEF BitmapAgrees, InHand
  <2>5. ExVolumeSafe'
    BY <1>1, <1>4, <1>5, <1>6, <2>1, <2>2, <2>3, <2>4 DEF ExVolumeSafe
  <2>6. CallOK'
    BY <1>1, <1>2, <2>1 DEF CallOK, Chosen, Placing, Freeing, Undoing, More, Wanted
  <2>7. FoundOK'
    <3> SUFFICES ASSUME kind = "old"
                 PROVE  /\ loc \in Entries' /\ ~cont'[loc[1]][loc[2]].dir
                        /\ SetName(cont'[loc[1]], loc[2]) = Wanted
      BY <2>1 DEF FoundOK, Wanted, SetName
    <3> QED
      BY <2>2, OldSetWhole, EntriesAfter
  <2>8. SetOK'
    <3>1. Total(path[comp])' = Total(path[comp]) /\ \A k : Cell0(k)' = Cell0(k)
      BY <2>1 DEF Total, Cell0, SetCell
    <3>2. /\ loc[1] \in dirs /\ loc[2] + Total(path[comp]) <= Cells
          /\ kind # "old" => home[loc[1]] = home[dir_cl]
      BY <1>1, <1>2 DEF SetOK
    <3>3. \A k \in 0 .. (i + 1) - 1 : cont'[loc[1]][loc[2] + k] = Cell0(k)
      <4> SUFFICES ASSUME NEW k \in 0 .. (i + 1) - 1 PROVE cont'[loc[1]][loc[2] + k] = Cell0(k)
        OBVIOUS
      <4>1. loc[2] \in 0 .. Cells - 1 /\ (k # i => k \in 0 .. i - 1) /\ k \in Nat
        BY <1>1, <1>3, CellFacts
      <4>2. loc[2] + k \in 0 .. Cells - 1 /\ (loc[2] + k = loc[2] + i <=> k = i)
        <5>1. k < Total(path[comp]) /\ loc[2] + Total(path[comp]) <= Cells
          BY <1>3, <3>2
        <5>2. loc[2] \in Nat /\ k \in Nat /\ Cells \in Nat
          BY <4>1, Geometry
        <5>3. \A a, b, m, n \in Nat : b < m /\ a + m <= n => a + b \in 0 .. n - 1
          OBVIOUS
        <5>4. loc[2] + k \in 0 .. Cells - 1
          BY <1>3, <5>1, <5>2, <5>3
        <5>5. \A a, b, m \in Nat : a + b = a + m <=> b = m
          OBVIOUS
        <5> QED
          BY <1>3, <5>2, <5>4, <5>5
      <4>3. cont'[loc[1]][loc[2] + k] = IF k = i THEN Cell0(i) ELSE cont[loc[1]][loc[2] + k]
        BY <4>2, WrittenRow
      <4> QED
        BY <1>1, <4>1, <4>3, CellFacts
    <3>4. kind # "old" => \A j \in 0 .. Cells - 1 : cont'[loc[1]][j].t = "end" <=> j >= loc[2] + (i + 1)
      BY RowsAfter
    <3> QED
      BY <1>1, <1>7, <2>1, <3>1, <3>2, <3>3, <3>4 DEF SetOK
  <2>9. ChainOK'
    BY <1>1, <1>2, <2>1, <2>2 DEF ChainOK, Growing, Placing, Freeing
  <2>10. FreeOK'
    BY <2>1 DEF FreeOK
  <2> QED
    BY <2>5, <2>6, <2>7, <2>8, <2>9, <2>10 DEF ExInv
<1>8. CASE i + 1 = Total(path[comp])
  <2>0. ~(i + 1 < Total(path[comp]))
    BY <1>3, <1>8
  <2>1. OneOwner(fat, own') /\ InUse(fat, own', dirs) /\ (leaked \/ NoneLost(fat, own', {}))
    BY <1>8, OwnersAfter
  <2>2. ASSUME pc' \in {"idle", "find"}, leaked' = leaked, ExTypeOK' PROVE ExVolumeSafe'
    <3>1. BitmapAgrees' /\ InHand' = {}
      BY <1>1, <1>6, <2>2 DEF BitmapAgrees, InHand
    <3> QED
      BY <1>1, <1>4, <1>5, <1>6, <2>1, <2>2, <3>1 DEF ExVolumeSafe
  <2>3. CASE More
    <3>1. /\ comp' = comp + 1 /\ dir_cl' = first /\ cl' = first /\ pc' = "find" /\ acked' = acked
          /\ UNCHANGED <<leaked, call, path, data, loc, kind, first, prev, new_cl, i>>
      BY <2>0, <2>3 DEF WriteSet, Goto
    <3>2. kind = "dir" /\ first \in dirs /\ home[first] = Upto(path, comp) /\ first \in Cluster
      BY <1>1, <1>2, <2>3 DEF CallOK, Chosen, ChainOK, ExTypeOK
    <3>3. comp + 1 \in 1 .. Len(path) /\ comp + 1 \in 1 .. Len(path) + 1 /\ (comp + 1) - 1 = comp /\ comp + 1 # 1
      BY <1>3, <2>3 DEF More
    <3>4. ExTypeOK'
      BY <1>1, <1>2, <3>1, <3>2, <3>3 DEF ExTypeOK, Row
    <3>5. ExVolumeSafe'
      BY <2>2, <3>1, <3>4
    <3>6. CallOK'
      BY <1>1, <1>2, <3>1, <3>2, <3>3 DEF CallOK, Chosen, Placing, Freeing, Undoing
    <3>7. FoundOK' /\ SetOK' /\ ChainOK' /\ FreeOK'
      BY <3>1 DEF FoundOK, SetOK, ChainOK, FreeOK, Chosen, Placing, Freeing, Undoing, Growing
    <3> QED
      BY <3>5, <3>6, <3>7 DEF ExInv
  <2>4. CASE ~More
    <3>1. Return(TRUE)
      BY <2>0, <2>4 DEF WriteSet
    <3>2. Reset /\ leaked' = leaked /\ pc' = "idle"
      <4>1. leaked' = (leaked \/ (~TRUE /\ pc = "xalloc" /\ first # 0))
        BY <3>1 DEF Return
      <4>2. leaked' = leaked
        BY <1>2, <4>1 DEF ExTypeOK
      <4> QED
        BY <3>1, <4>2 DEF Return, Reset
    <3>3. acked' \in [UPaths -> Contents \cup {<<>>, NoAck}]
      BY <1>2, <3>1 DEF Return, ExTypeOK
    <3>4. ExTypeOK'
      BY <1>1, <1>2, <3>2, <3>3, ResetTypes DEF ExTypeOK
    <3>5. ExVolumeSafe'
      BY <2>2, <3>2, <3>4
    <3> QED
      BY <3>2, <3>5, IdleOK DEF ExInv
  <2> QED
    BY <2>3, <2>4
<1> QED
  BY <1>3, <1>7, <1>8

---------------------------------------------------------------------------
(* The theorems.                                                           *)

\* The formatted root directory: system cells, then the host's empty file.
HostCell(k) == SetCell(HostFile, FALSE, 0, 0, k)

LEMMA FormattedRoot ==
  /\ RootRow \in Row /\ Whole(RootRow, SysCells) /\ IsSet(RootRow, SysCells)
  /\ SetName(RootRow, SysCells) = Upper[HostFile] /\ ~RootRow[SysCells].dir /\ RootRow[SysCells + 1].clus = 0
  /\ \A j \in 0 .. Cells - 1 : /\ RootRow[j].t = "file" <=> j = SysCells
                               /\ RootRow[j].t = "end" <=> j >= SysCells + Total(HostFile)
                               /\ RootRow[j].t = "sys" <=> j < SysCells
<1> DEFINE n == Total(HostFile) - 1
<1>1. /\ SysCells \in Nat /\ Cells \in Nat /\ HostFile \in Comp /\ n \in Nat /\ n >= 2 /\ SysCells + n < Cells
      /\ Total(HostFile) = n + 1
  <2>1. /\ SysCells \in Nat /\ Cells \in Nat /\ HostFile \in Comp
        /\ NameCells[HostFile] \in Nat \ {0} /\ SysCells + NameCells[HostFile] + 2 <= Cells
    BY Geometry, GeometryAssumption
  <2> QED
    BY <2>1 DEF Total
<1>2. /\ HostCell(0) = [t |-> "file", name |-> NoAck, dir |-> FALSE, clus |-> 0, n |-> n]
      /\ HostCell(1) = [t |-> "stream", name |-> NoAck, dir |-> FALSE, clus |-> 0, n |-> 0]
  <2>1. /\ HostCell(0) = [End EXCEPT !.t = "file", !.dir = FALSE, !.n = n]
        /\ HostCell(1) = [End EXCEPT !.t = "stream", !.clus = 0, !.n = 0]
    BY DEF HostCell, SetCell
  <2> QED
    BY <2>1 DEF End
<1>3. ASSUME NEW k \in Nat, k >= 2
      PROVE  HostCell(k) = [t |-> "name", name |-> HostFile, dir |-> FALSE, clus |-> 0, n |-> k - 1]
  <2>1. HostCell(k) = [End EXCEPT !.t = "name", !.name = HostFile, !.n = k - 1]
    BY <1>3 DEF HostCell, SetCell
  <2> QED
    BY <2>1 DEF End
<1>4. \A k \in Nat : HostCell(k) \in Cell
  <2> SUFFICES ASSUME NEW k \in Nat PROVE HostCell(k) \in Cell
    OBVIOUS
  <2>1. [t |-> "file", name |-> NoAck, dir |-> FALSE, clus |-> 0, n |-> n] \in Cell
    BY <1>1 DEF Cell
  <2>2. [t |-> "stream", name |-> NoAck, dir |-> FALSE, clus |-> 0, n |-> 0] \in Cell
    BY DEF Cell
  <2>3. CASE k >= 2
    <3>1. [t |-> "name", name |-> HostFile, dir |-> FALSE, clus |-> 0, n |-> k - 1] \in Cell
      BY <1>1, <2>3 DEF Cell
    <3> QED
      BY <1>3, <2>3, <3>1
  <2>4. CASE k = 0
    BY <1>2, <2>1, <2>4
  <2>5. CASE k = 1
    BY <1>2, <2>2, <2>5
  <2> QED
    BY <2>3, <2>4, <2>5
<1>5. ASSUME NEW j \in 0 .. Cells - 1
      PROVE  /\ j < SysCells => RootRow[j] = [End EXCEPT !.t = "sys"]
             /\ j >= SysCells /\ j <= SysCells + n => RootRow[j] = HostCell(j - SysCells) /\ j - SysCells \in 0 .. n
             /\ j > SysCells + n => RootRow[j] = End
  <2>1. j < SysCells + Total(HostFile) <=> j <= SysCells + n
    BY <1>1
  <2>2. RootRow[j] = IF j < SysCells THEN [End EXCEPT !.t = "sys"]
                     ELSE IF j < SysCells + Total(HostFile) THEN HostCell(j - SysCells) ELSE End
    BY DEF RootRow, HostCell
  <2> QED
    BY <1>1, <2>1, <2>2
<1>6. [End EXCEPT !.t = "sys"] \in Cell /\ [End EXCEPT !.t = "sys"].t = "sys"
  BY CellTypes DEF Cell
<1>7. RootRow \in Row
  <2>1. \A j \in 0 .. Cells - 1 : RootRow[j] \in Cell
    BY <1>1, <1>4, <1>5, <1>6, CellTypes
  <2> QED
    BY <2>1 DEF RootRow, Row
<1>8. ASSUME NEW k \in 0 .. n
      PROVE  RootRow[SysCells + k] = HostCell(k)
  <2>1. SysCells + k \in 0 .. Cells - 1 /\ (SysCells + k) - SysCells = k /\ SysCells + k >= SysCells
        /\ SysCells + k <= SysCells + n
    BY <1>1
  <2> QED
    BY <1>5, <2>1
<1>9. ASSUME NEW j \in 0 .. Cells - 1
      PROVE  /\ RootRow[j].t = "file" <=> j = SysCells
             /\ RootRow[j].t = "end" <=> j >= SysCells + Total(HostFile)
             /\ RootRow[j].t = "sys" <=> j < SysCells
  <2>1. CASE j < SysCells
    <3>1. RootRow[j].t = "sys"
      BY <1>5, <1>6, <2>1
    <3>2. j # SysCells /\ ~(j >= SysCells + Total(HostFile))
      BY <1>1, <2>1
    <3> QED
      BY <2>1, <3>1, <3>2
  <2>2. CASE j > SysCells + n
    <3>1. RootRow[j].t = "end"
      BY <1>5, <2>2, CellTypes
    <3>2. j # SysCells /\ j >= SysCells + Total(HostFile) /\ ~(j < SysCells)
      BY <1>1, <2>2
    <3> QED
      BY <3>1, <3>2
  <2>3. CASE j >= SysCells /\ j <= SysCells + n
    <3>1. PICK k \in 0 .. n : k = j - SysCells
      BY <1>1, <2>3
    <3>2. RootRow[j] = HostCell(k)
      BY <1>5, <2>3, <3>1
    <3>3. /\ k = 0 => HostCell(k).t = "file"
          /\ k = 1 => HostCell(k).t = "stream"
          /\ k >= 2 => HostCell(k).t = "name"
      BY <1>2, <1>3
    <3>4. k = 0 <=> j = SysCells
      BY <1>1, <3>1
    <3>5. HostCell(k).t \in {"file", "stream", "name"} /\ (HostCell(k).t = "file" <=> k = 0)
      BY <1>1, <3>3
    <3>6. ~(j >= SysCells + Total(HostFile)) /\ ~(j < SysCells)
      BY <1>1, <2>3
    <3> QED
      BY <3>2, <3>4, <3>5, <3>6
  <2> QED
    BY <1>1, <2>1, <2>2, <2>3
<1>10. 0 \in 0 .. n /\ 1 \in 0 .. n /\ 2 \in 0 .. n /\ SysCells + 0 = SysCells
  BY <1>1
<1>11. RootRow[SysCells] = HostCell(0) /\ RootRow[SysCells + 1] = HostCell(1) /\ RootRow[SysCells + 2] = HostCell(2)
  BY <1>8, <1>10
<1>12. \A k \in 2 .. n : RootRow[SysCells + k].t = "name" /\ RootRow[SysCells + k].n = k - 1
                         /\ RootRow[SysCells + k].name = HostFile
  BY <1>1, <1>3, <1>8
<1>13. RootRow[SysCells].n = n /\ RootRow[SysCells].t = "file" /\ ~RootRow[SysCells].dir
       /\ RootRow[SysCells + 1].t = "stream" /\ RootRow[SysCells + 1].clus = 0
       /\ RootRow[SysCells + 2].name = HostFile
  BY <1>2, <1>3, <1>11
<1>14. Whole(RootRow, SysCells) /\ IsSet(RootRow, SysCells) /\ SetName(RootRow, SysCells) = Upper[HostFile]
  BY <1>1, <1>12, <1>13 DEF Whole, IsSet, SetName
<1> QED
  BY <1>7, <1>9, <1>13, <1>14

LEMMA InitOK == ASSUME Init PROVE ExInv
<1>1. /\ pc = "idle" /\ path = <<>> /\ data = <<>> /\ i = 0 /\ leaked = FALSE /\ dirs = {RootClus}
      /\ home = [c \in Cluster |-> <<>>] /\ bitmap = System
      /\ fat = [c \in Cluster |-> IF c \in System THEN EOC ELSE 0]
      /\ cont = [c \in Cluster |-> IF c = RootClus THEN RootRow ELSE Stale]
  BY DEF Init, System
<1>2. RootClus \in Cluster /\ System \subseteq Cluster /\ RootClus \in System /\ SysCells \in 0 .. Cells - 1
      /\ SysCells + 1 < Cells
  BY Geometry DEF System
<1>3. \A c \in Cluster : fat[c] = (IF c \in System THEN EOC ELSE 0) /\ home[c] = <<>> /\ fat[c] \notin Cluster
  BY <1>1, Geometry
<1>4. cont[RootClus] = RootRow
  BY <1>1, <1>2
<1>5. ExTypeOK
  <2>1. fat \in [Cluster -> {0, EOC} \cup Cluster] /\ bitmap \subseteq Cluster
    BY <1>1, <1>2
  <2>2. cont \in [Cluster -> [0 .. Cells - 1 -> Cell]]
    BY <1>1, FormattedRoot, GeometryAssumption DEF Row
  <2>3. dirs \subseteq Cluster /\ home \in [Cluster -> Seq(UNames)]
    BY <1>1, <1>2
  <2>4. Len(<<>>) = 0 /\ <<RootClus, 0>> \in Cluster \X (0 .. Cells - 1)
    BY Geometry
  <2>5. acked \in [UPaths -> Contents \cup {<<>>, NoAck}]
    BY DEF Init
  <2>6. call \in {"write", "mkdir"} /\ path = <<>> /\ comp = 1 /\ data = <<>> /\ dir_cl = RootClus
        /\ cl = RootClus /\ loc = <<RootClus, 0>> /\ kind = "dir" /\ first = 0 /\ new_cl = 0 /\ prev = 0
        /\ i = 0 /\ leaked \in BOOLEAN
    BY DEF Init
  <2>7. comp \in 1 .. Len(path) + 1 /\ i \in 0 .. Cells + Len(data)
    BY <2>4, <2>6, Geometry
  <2> QED
    BY <1>2, <2>1, <2>2, <2>3, <2>4, <2>5, <2>6, <2>7 DEF ExTypeOK
<1>6. Entries = {<<RootClus, SysCells>>}
  <2>1. \A j \in 0 .. Cells - 1 : cont[RootClus][j].t = "file" <=> j = SysCells
    BY <1>4, FormattedRoot
  <2>2. Entries = {e \in {RootClus} \X (0 .. Cells - 1) : cont[e[1]][e[2]].t = "file"}
    BY <1>1 DEF Entries, Partial
  <2>3. ASSUME NEW e \in Entries PROVE e = <<RootClus, SysCells>>
    <3>1. e = <<e[1], e[2]>> /\ e[1] = RootClus /\ e[2] \in 0 .. Cells - 1 /\ cont[e[1]][e[2]].t = "file"
      BY <2>2
    <3> QED
      BY <2>1, <3>1
  <2>4. <<RootClus, SysCells>> \in Entries
    <3>1. <<RootClus, SysCells>> \in {RootClus} \X (0 .. Cells - 1) /\ cont[RootClus][SysCells].t = "file"
      BY <1>2, <2>1
    <3> QED
      BY <2>2, <3>1
  <2> QED
    BY <2>3, <2>4
<1>7. ClusOf(<<RootClus, SysCells>>) = 0
  BY <1>2, <1>4, FormattedRoot DEF ClusOf
<1>8. Owners = {} /\ DOMAIN own = {}
  <2>1. Owners = {}
    BY <1>6, <1>7 DEF Owners
  <2> QED
    BY <2>1 DEF own
<1>9. BitmapAgrees
  <2>1. System = {c \in Cluster : fat[c] # 0}
    BY <1>2, <1>3, Geometry
  <2> QED
    BY <1>1, <2>1 DEF BitmapAgrees
<1>10. OneOwner(fat, own)
  BY <1>2, <1>3, <1>8 DEF OneOwner
<1>11. InUse(fat, own, dirs) /\ KindKept(fat, dirs, home, {})
  BY <1>1, <1>2, <1>3, <1>8, Geometry DEF InUse, KindKept
<1>12. NoneLost(fat, own, InHand)
  BY <1>3 DEF NoneLost, Loose
<1>13. DirsSound
  BY <1>1, <1>2, <1>3, Geometry DEF DirsSound
<1>14. EntriesSound
  <2>1. ClusOf(<<RootClus, SysCells>>) \notin dirs
    BY <1>1, <1>2, <1>7, Geometry
  <2>2. Whole(RootRow, SysCells) /\ IsSet(RootRow, SysCells) /\ ~RootRow[SysCells].dir
    BY FormattedRoot
  <2> QED
    BY <1>4, <1>6, <2>1, <2>2 DEF EntriesSound
<1>15. RowsSound
  <2>1. \A j, k \in 0 .. Cells - 1 : j < k /\ RootRow[j].t = "end" => RootRow[k].t = "end"
    <3> SUFFICES ASSUME NEW j \in 0 .. Cells - 1, NEW k \in 0 .. Cells - 1, j < k, RootRow[j].t = "end"
                 PROVE  RootRow[k].t = "end"
      OBVIOUS
    <3>1. j >= SysCells + Total(HostFile)
      BY FormattedRoot
    <3>2. SysCells + Total(HostFile) \in Nat
      BY Geometry, GeometryAssumption
    <3>3. k >= SysCells + Total(HostFile)
      BY <3>1, <3>2
    <3> QED
      BY <3>3, FormattedRoot
  <2>2. \A j \in 0 .. SysCells - 1 : RootRow[j].t = "sys"
    <3> SUFFICES ASSUME NEW j \in 0 .. SysCells - 1 PROVE RootRow[j].t = "sys"
      OBVIOUS
    <3>1. j \in 0 .. Cells - 1 /\ j < SysCells
      BY Geometry
    <3> QED
      BY <3>1, FormattedRoot
  <2> QED
    BY <1>1, <1>4, <1>6, <2>1, <2>2, FormattedRoot DEF RowsSound
<1>16. ExVolumeSafe
  BY <1>1, <1>5, <1>9, <1>10, <1>11, <1>12, <1>13, <1>14, <1>15 DEF ExVolumeSafe
<1>17. CallOK /\ FoundOK /\ SetOK /\ ChainOK /\ FreeOK
  BY <1>1 DEF CallOK, FoundOK, SetOK, ChainOK, FreeOK, Chosen, Placing, Freeing, Undoing, Growing
<1> QED
  BY <1>16, <1>17 DEF ExInv

LEMMA NextOK == ASSUME ExInv, [Next]_vars PROVE ExInv'
<1>1. CASE \E p \in FilePaths, d \in Contents : Begin("write", p, d)
  BY <1>1, BeginStep
<1>2. CASE \E p \in DirPaths : Begin("mkdir", p, <<>>)
  BY <1>2, BeginStep
<1>3. CASE Found \/ FindNext \/ NotFound
  BY <1>3, FoundStep, FindNextStep, NotFoundStep
<1>4. CASE Alloc \/ AllocFail \/ Mark \/ Link \/ WriteChain
  BY <1>4, AllocStep, AllocFailStep, MarkStep, LinkStep, WriteChainStep
<1>5. CASE FreeStart \/ (\E l \in {"unchain", "undo"} : FreeCluster(l))
           \/ (\E l \in {"unchain_bit", "undo_bit"} : FreeBit(l))
  BY <1>5, FreeStartStep, FreeClusterStep, FreeBitStep
<1>6. CASE Slot \/ SlotNext \/ ExtendFail \/ ExtendAlloc \/ ExtendMark \/ ExtendLink \/ ExtendZero \/ WriteSet
  BY <1>6, SlotStep, SlotNextStep, ExtendFailStep, ExtendAllocStep, MarkStep, ExtendLinkStep, ExtendZeroStep,
     WriteSetStep
<1>7. CASE UNCHANGED vars
  <2>1. /\ UNCHANGED <<fat, bitmap, cont, dirs, home, pc, leaked, acked, call, path, comp, data, dir_cl, cl,
                       loc, kind, first, prev, new_cl, i>>
    BY <1>7 DEF vars, disk, tree, frame
  <2>2. Entries' = Entries /\ own' = own
    BY <2>1, SameEntries DEF Partial, Changing
  <2>3. ExTypeOK' = ExTypeOK /\ BitmapAgrees' = BitmapAgrees /\ InHand' = InHand
    BY <2>1 DEF ExTypeOK, BitmapAgrees, InHand
  <2>4. DirsSound' = DirsSound /\ EntriesSound' = EntriesSound /\ RowsSound' = RowsSound
    BY <2>1, <2>2 DEF DirsSound, EntriesSound, RowsSound, ClusOf, Whole, IsSet, SetName
  <2>5. ExVolumeSafe'
    BY <2>1, <2>2, <2>3, <2>4 DEF ExInv, ExVolumeSafe
  <2>6. CallOK' /\ FoundOK'
    BY <2>1, <2>2 DEF ExInv, CallOK, FoundOK, More, Wanted, SetName
  <2>7. SetOK'
    <3>1. Total(path[comp])' = Total(path[comp]) /\ \A k : Cell0(k)' = Cell0(k)
      BY <2>1 DEF Total, Cell0, SetCell
    <3> QED
      BY <2>1, <3>1 DEF ExInv, SetOK
  <2>8. ChainOK' /\ FreeOK'
    BY <2>1, <2>2 DEF ExInv, ChainOK, FreeOK, Fresh, Need
  <2> QED
    BY <2>5, <2>6, <2>7, <2>8 DEF ExInv
<1> QED
  BY <1>1, <1>2, <1>3, <1>4, <1>5, <1>6, <1>7 DEF Next, CallStep

\* The inductive invariant of the exFAT driver: what the volume and the call
\* in progress look like between any two writes.
THEOREM ExFatInvariant == Spec => []ExInv
<1>1. Init => ExInv
  BY InitOK
<1>2. ExInv /\ [Next]_vars => ExInv'
  BY NextOK
<1> QED
  BY <1>1, <1>2, PTL DEF Spec

\* After every single write of exfat_write_file_path and exfat_ensure_dir_path
\* the volume is sound: FAT and bitmap agree, no cluster has two owners,
\* nothing in use is free, nothing allocated is lost but by a directory that
\* could not be extended, and directories stay directories with whole sets.
THEOREM ExFatVolumeSafe == Spec => []ExVolumeSafe
<1>1. ExInv => ExVolumeSafe
  BY DEF ExInv
<1> QED
  BY <1>1, ExFatInvariant, PTL
===========================================================================
