---------------------------- MODULE Fat32Proofs ----------------------------
(***************************************************************************)
(* For every geometry, every prepared volume and every number of failed     *)
(* reads, failed writes and power losses: the FAT32 driver keeps the volume *)
(* sound, and as long as no read fails it keeps what it reported written.   *)
(* IInv is inductive; the lemmas of the first part say what one sector      *)
(* write does to a sound volume, those of the second that every action      *)
(* keeps IInv.  TreeInv is inductive with IInv; the last parts say the same *)
(* of the tree of names and of the files in it.                             *)
(***************************************************************************)
EXTENDS Fat32, SequenceTheorems, WellFoundedInduction, TLAPS

Area == [Cluster -> [0 .. Spc - 1 -> Sector]]
Table == [Cluster -> FatVal]

---------------------------------------------------------------------------
(* Cells and sectors.                                                      *)

\* What a cell of the data area is.
LEMMA AtType ==
  ASSUME NEW se \in Area, NEW c \in Cluster, NEW p \in Pos
  PROVE  At(se, c, p) \in Cell
<1>1. p[1] \in 0 .. Spc - 1 /\ p[2] \in 0 .. Slots - 1
  BY DEF Pos
<1>2. se[c][p[1]] \in Sector
  BY <1>1 DEF Area
<1> QED
  BY <1>1, <1>2 DEF At, Sector

\* Writing one cell changes that cell and no other.
LEMMA PutAt ==
  ASSUME NEW se \in Area, NEW c \in Cluster, NEW p \in Pos, NEW e \in Cell
  PROVE  /\ Put(se, c, p, e) \in Area
         /\ \A d \in Cluster : \A q \in Pos :
              At(Put(se, c, p, e), d, q) = IF d = c /\ q = p THEN e ELSE At(se, d, q)
<1>1. p[1] \in 0 .. Spc - 1 /\ p[2] \in 0 .. Slots - 1 /\ p = <<p[1], p[2]>>
  BY DEF Pos
<1>2. Put(se, c, p, e) \in Area
  BY <1>1 DEF Put, Area, Sector
<1>3. ASSUME NEW d \in Cluster, NEW q \in Pos
      PROVE  At(Put(se, c, p, e), d, q) = IF d = c /\ q = p THEN e ELSE At(se, d, q)
  <2>1. q[1] \in 0 .. Spc - 1 /\ q[2] \in 0 .. Slots - 1 /\ q = <<q[1], q[2]>>
    BY DEF Pos
  <2>2. q = p <=> q[1] = p[1] /\ q[2] = p[2]
    BY <1>1, <2>1
  <2>3. se[c] \in [0 .. Spc - 1 -> Sector] /\ se[c][p[1]] \in Sector
    BY <1>1 DEF Area
  <2>4. CASE d # c
    BY <1>1, <2>1, <2>4 DEF Put, At, Area
  <2>5. CASE d = c /\ q[1] # p[1]
    BY <1>1, <2>1, <2>2, <2>3, <2>5 DEF Put, At, Area
  <2>6. CASE d = c /\ q[1] = p[1]
    BY <1>1, <2>1, <2>2, <2>3, <2>6 DEF Put, At, Area, Sector
  <2> QED
    BY <2>4, <2>5, <2>6
<1> QED
  BY <1>2, <1>3

\* Writing one sector changes the cells of that sector and no others.
LEMMA FillAt ==
  ASSUME NEW se \in Area, NEW c \in Cluster, NEW i \in 0 .. Spc - 1, NEW row \in Sector
  PROVE  /\ Fill(se, c, i, row) \in Area
         /\ \A d \in Cluster : \A q \in Pos : d # c => At(Fill(se, c, i, row), d, q) = At(se, d, q)
         /\ \A j \in 0 .. Spc - 1 : Fill(se, c, i, row)[c][j] = IF j = i THEN row ELSE se[c][j]
<1>1. Fill(se, c, i, row) \in Area
  BY DEF Area, Fill
<1>2. \A d \in Cluster : \A q \in Pos : d # c => At(Fill(se, c, i, row), d, q) = At(se, d, q)
  BY DEF Area, At, Fill
<1>3. \A j \in 0 .. Spc - 1 : Fill(se, c, i, row)[c][j] = IF j = i THEN row ELSE se[c][j]
  BY DEF Area, Fill
<1> QED
  BY <1>1, <1>2, <1>3

\* The cells the driver writes.
LEMMA EntryType ==
  ASSUME NEW n \in CellName, NEW a \in {"file", "dir", "lfn", "raw"},
         NEW c \in {0} \cup Cluster, NEW sz \in Nat
  PROVE  Entry(n, a, c, sz) \in Cell
BY DEF Entry, Cell

LEMMA ZeroesType == Zeroes \in Sector
BY DEF Zeroes, Free, Sector, Cell, CellName

LEMMA RawType ==
  ASSUME NEW x \in Chunk
  PROVE  Raw(x) \in Sector
BY DEF Raw, Sector, Cell, CellName

LEMMA Origin == <<0, 0>> \in Pos
BY GeometryAssumption DEF Pos

LEMMA Geometry == /\ EOC \in FatVal /\ EOC \notin Cluster /\ EOC # 0
                  /\ 0 \notin Cluster /\ RootClus \in Cluster /\ Cluster \subseteq Nat
BY GeometryAssumption DEF EOC, FatVal, Cluster

\* Every nonempty set of numbers has a least element.
LEMMA LeastNat ==
  ASSUME NEW T, T \subseteq Nat, T # {}
  PROVE  \E n \in T : \A m \in T : n <= m
<1>1. PICK n \in T : \A m \in T : ~(<<m, n>> \in OpToRel(<, Nat))
  BY NatLessThanWellFounded, WFMin
<1>2. \A m \in T : ~(m < n)
  BY <1>1 DEF OpToRel
<1> QED
  BY <1>2

\* The first cell of a nonempty set of cells is one of them, before the others.
LEMMA FirstLeast ==
  ASSUME NEW S, S \subseteq Pos, S # {}
  PROVE  First(S) \in S /\ \A q \in S : First(S) = q \/ Before(First(S), q)
<1> DEFINE R == {p[1] : p \in S}
<1>1. PICK a \in R : \A b \in R : a <= b
  <2>1. R \subseteq Nat /\ R # {}
    BY GeometryAssumption DEF Pos
  <2> QED
    BY <2>1, LeastNat
<1> DEFINE C == {p[2] : p \in {q \in S : q[1] = a}}
<1>2. PICK b \in C : \A d \in C : b <= d
  <2>1. C \subseteq Nat /\ C # {}
    BY GeometryAssumption DEF Pos
  <2> QED
    BY <2>1, LeastNat
<1>3. PICK p \in S : p[1] = a /\ p[2] = b
  BY <1>2
<1>4. \A q \in S : p = q \/ Before(p, q)
  <2> SUFFICES ASSUME NEW q \in S, p # q PROVE Before(p, q)
    OBVIOUS
  <2>1. /\ p = <<p[1], p[2]>> /\ q = <<q[1], q[2]>>
        /\ p[1] \in Int /\ p[2] \in Int /\ q[1] \in Int /\ q[2] \in Int
    BY GeometryAssumption DEF Pos
  <2>2. p[1] <= q[1]
    BY <1>1, <1>3
  <2>3. p[1] = q[1] => p[2] <= q[2]
    BY <1>2, <1>3
  <2> QED
    BY <2>1, <2>2, <2>3 DEF Before
<1> QED
  BY <1>4 DEF First

LEMMA FirstIn ==
  ASSUME NEW S, S \subseteq Pos, S # {}
  PROVE  First(S) \in S
BY FirstLeast

---------------------------------------------------------------------------
(* What one sector write does to a sound volume.                           *)

\* Ending a chain early, or a new chain of one cluster, harms nothing.
LEMMA EocSound ==
  ASSUME NEW f \in Table, NEW se \in Area, NEW ds \in SUBSET Cluster,
         NEW c \in Cluster, Sound(f, se, ds)
  PROVE  /\ [f EXCEPT ![c] = EOC] \in Table
         /\ Sound([f EXCEPT ![c] = EOC], se, ds)
         /\ \A t \in Cluster : Fresh(f, se, ds, t) => Fresh([f EXCEPT ![c] = EOC], se, ds, t)
<1> DEFINE g == [f EXCEPT ![c] = EOC]
<1>1. /\ g \in Table /\ g[c] = EOC
      /\ \A d \in Cluster : d # c => g[d] = f[d]
  BY Geometry DEF Table
<1>2. \A d \in Cluster : /\ g[d] \in Cluster => g[d] = f[d] /\ d # c
                         /\ f[d] # 0 => g[d] # 0
  BY <1>1, Geometry
<1> HIDE DEF g
<1>3. DirsSeparate(g, se, ds)
  BY <1>2 DEF Sound, DirsSeparate
<1>4. ReferencedAllocated(g, se, ds)
  <2>1. \A d \in ds : \A p \in Pos : At(se, d, p).clus \in {0} \cup Cluster
    BY AtType DEF Cell
  <2> QED
    BY <1>2, <2>1 DEF Sound, ReferencedAllocated
<1>5. OneOwner(g, se, ds)
  <2>1. \A d \in ds : \A p \in Pos : At(se, d, p).clus \in {0} \cup Cluster
    BY AtType DEF Cell
  <2> QED
    BY <1>2, <2>1, Geometry DEF Sound, OneOwner
<1>6. DotsInPlace(se, ds)
  BY DEF Sound
<1>7. \A t \in Cluster : Fresh(f, se, ds, t) => Fresh(g, se, ds, t)
  BY <1>1, <1>2 DEF Fresh
<1> QED
  BY <1>1, <1>3, <1>4, <1>5, <1>6, <1>7 DEF Sound, g

\* A cluster that was free is nobody's once it is allocated.
LEMMA AllocFresh ==
  ASSUME NEW f \in Table, NEW se \in Area, NEW ds \in SUBSET Cluster,
         NEW c \in Cluster, Sound(f, se, ds), f[c] = 0
  PROVE  Fresh([f EXCEPT ![c] = EOC], se, ds, c)
<1> DEFINE g == [f EXCEPT ![c] = EOC]
<1>1. /\ g[c] = EOC
      /\ \A d \in Cluster : d # c => g[d] = f[d]
  BY Geometry DEF Table
<1> HIDE DEF g
<1>2. c \notin ds
  BY DEF Sound, ReferencedAllocated
<1>3. \A d \in Cluster : g[d] # c
  BY <1>1, Geometry DEF Sound, ReferencedAllocated
<1>4. \A d \in ds : \A p \in Pos : LiveCell(At(se, d, p)) => At(se, d, p).clus # c
  BY Geometry DEF Sound, ReferencedAllocated
<1> QED
  BY <1>1, <1>2, <1>3, <1>4 DEF Fresh, g

\* What happens outside the directories does not matter to them.
LEMMA OutsideSound ==
  ASSUME NEW f \in Table, NEW se \in Area, NEW se2 \in Area, NEW ds \in SUBSET Cluster,
         Sound(f, se, ds),
         \A d \in ds : \A p \in Pos : At(se2, d, p) = At(se, d, p)
  PROVE  /\ Sound(f, se2, ds)
         /\ \A t \in Cluster : Fresh(f, se, ds, t) => Fresh(f, se2, ds, t)
<1>1. DirsSeparate(f, se2, ds) /\ ReferencedAllocated(f, se2, ds)
  BY DEF Sound, DirsSeparate, ReferencedAllocated
<1>2. OneOwner(f, se2, ds)
  BY DEF Sound, OneOwner
<1>3. DotsInPlace(se2, ds)
  BY Origin DEF Sound, DotsInPlace, DirsSeparate
<1>4. \A t \in Cluster : Fresh(f, se, ds, t) => Fresh(f, se2, ds, t)
  BY DEF Fresh
<1> QED
  BY <1>1, <1>2, <1>3, <1>4 DEF Sound

\* A file entry for a cluster of its own, in a free slot or in place of the
\* entry it had.
LEMMA FileEntrySound ==
  ASSUME NEW f \in Table, NEW se \in Area, NEW se2 \in Area, NEW ds \in SUBSET Cluster,
         Sound(f, se, ds),
         NEW c \in ds, NEW p \in Pos, NEW e \in Cell,
         LiveCell(e), e.attr = "file", e.clus \in Cluster,
         At(se, c, p).name # DOT,
         \/ Fresh(f, se, ds, e.clus)
         \/ LiveCell(At(se, c, p)) /\ At(se, c, p).attr = "file" /\ At(se, c, p).clus = e.clus,
         \A d \in Cluster : \A q \in Pos :
           At(se2, d, q) = IF d = c /\ q = p THEN e ELSE At(se, d, q)
  PROVE  Sound(f, se2, ds)
<1>1. f[e.clus] # 0 /\ e.clus \notin ds /\ e.clus # RootClus
  BY Geometry DEF Fresh, Sound, DirsSeparate, ReferencedAllocated
<1>2. \A d \in Cluster : f[d] # e.clus
  BY Geometry DEF Fresh, Sound, OneOwner
<1>3. \A d \in ds : \A q \in Pos : LiveCell(At(se, d, q)) /\ At(se, d, q).clus = e.clus
                                    => d = c /\ q = p
  BY Geometry DEF Fresh, Sound, OneOwner
<1>4. DirsSeparate(f, se2, ds)
  BY <1>1 DEF Sound, DirsSeparate
<1>5. ReferencedAllocated(f, se2, ds)
  BY <1>1 DEF Sound, ReferencedAllocated
<1>6. OneOwner(f, se2, ds)
  <2>1. \A d, d2 \in ds : \A q, q2 \in Pos :
       LiveCell(At(se2, d, q)) /\ LiveCell(At(se2, d2, q2)) /\ At(se2, d, q).clus # 0
       /\ At(se2, d, q).clus = At(se2, d2, q2).clus => d = d2 /\ q = q2
    BY <1>3 DEF Sound, OneOwner
  <2> QED
    BY <1>1, <1>2, <2>1 DEF Sound, OneOwner
<1>7. DotsInPlace(se2, ds)
  <2> SUFFICES ASSUME NEW d \in ds, NEW q \in Pos, LiveCell(At(se2, d, q)), At(se2, d, q).attr = "dir"
               PROVE  /\ At(se2, At(se2, d, q).clus, <<0, 0>>).name = DOT
                      /\ At(se2, At(se2, d, q).clus, <<0, 0>>).clus = At(se2, d, q).clus
    BY DEF DotsInPlace
  <2>1. At(se2, d, q) = At(se, d, q) /\ At(se, d, q).clus \in ds
    BY DEF Sound, DirsSeparate
  <2>2. At(se, At(se, d, q).clus, <<0, 0>>).name = DOT
        /\ At(se, At(se, d, q).clus, <<0, 0>>).clus = At(se, d, q).clus
    BY <2>1 DEF Sound, DotsInPlace
  <2> QED
    BY <2>1, <2>2, Origin
<1> QED
  BY <1>4, <1>5, <1>6, <1>7 DEF Sound

\* The entry of a new directory, once its cluster is filled.
LEMMA DirEntrySound ==
  ASSUME NEW f \in Table, NEW se \in Area, NEW se2 \in Area, NEW ds \in SUBSET Cluster,
         Sound(f, se, ds),
         NEW c \in ds, NEW p \in Pos, NEW e \in Cell, NEW t \in Cluster,
         LiveCell(e), e.attr = "dir", e.clus = t, Fresh(f, se, ds, t),
         At(se, c, p).name # DOT, ~LiveCell(At(se, c, p)),
         \A q \in Pos : ~LiveCell(At(se, t, q)) /\ At(se, t, q).attr # "raw",
         At(se, t, <<0, 0>>).name = DOT, At(se, t, <<0, 0>>).clus = t,
         \A d \in Cluster : \A q \in Pos :
           At(se2, d, q) = IF d = c /\ q = p THEN e ELSE At(se, d, q)
  PROVE  Sound(f, se2, ds \cup {t})
<1> DEFINE d2 == ds \cup {t}
<1>1. f[t] = EOC /\ t \notin ds /\ t # RootClus /\ t # c
  BY Geometry DEF Fresh, Sound, DirsSeparate
<1>2. \A d \in Cluster : f[d] # t
  BY DEF Fresh
<1>3. \A d \in ds : \A q \in Pos : LiveCell(At(se, d, q)) => At(se, d, q).clus # t
  BY DEF Fresh
<1>4. DirsSeparate(f, se2, d2)
  <2>1. \A d \in Cluster : f[d] \in Cluster => (d \in d2 <=> f[d] \in d2)
    BY <1>1, <1>2, Geometry DEF Sound, DirsSeparate
  <2>2. \A d \in d2 : \A q \in Pos : At(se2, d, q).attr # "raw"
    BY DEF Sound, DirsSeparate
  <2>3. \A d \in d2 : \A q \in Pos : LiveCell(At(se2, d, q)) =>
       IF At(se2, d, q).attr = "dir" THEN At(se2, d, q).clus \in d2
                                     ELSE At(se2, d, q).clus \notin d2
    BY <1>1, <1>3 DEF Sound, DirsSeparate
  <2> QED
    BY <2>1, <2>2, <2>3 DEF Sound, DirsSeparate
<1>5. ReferencedAllocated(f, se2, d2)
  BY <1>1, Geometry DEF Sound, ReferencedAllocated
<1>6. OneOwner(f, se2, d2)
  <2>1. \A d, g \in d2 : \A q, r \in Pos :
       LiveCell(At(se2, d, q)) /\ LiveCell(At(se2, g, r)) /\ At(se2, d, q).clus # 0
       /\ At(se2, d, q).clus = At(se2, g, r).clus => d = g /\ q = r
    BY <1>1, <1>3 DEF Sound, OneOwner
  <2> QED
    BY <1>1, <1>2, <2>1 DEF Sound, OneOwner
<1>7. DotsInPlace(se2, d2)
  <2> SUFFICES ASSUME NEW d \in d2, NEW q \in Pos, LiveCell(At(se2, d, q)), At(se2, d, q).attr = "dir"
               PROVE  /\ At(se2, At(se2, d, q).clus, <<0, 0>>).name = DOT
                      /\ At(se2, At(se2, d, q).clus, <<0, 0>>).clus = At(se2, d, q).clus
    BY DEF DotsInPlace
  <2>1. CASE d = c /\ q = p
    BY <2>1, <1>1, Origin
  <2>2. CASE ~(d = c /\ q = p)
    <3>1. At(se2, d, q) = At(se, d, q) /\ d \in ds
      BY <2>2
    <3>2. At(se, d, q).clus \in ds
      BY <3>1 DEF Sound, DirsSeparate
    <3>3. At(se, At(se, d, q).clus, <<0, 0>>).name = DOT
          /\ At(se, At(se, d, q).clus, <<0, 0>>).clus = At(se, d, q).clus
      BY <3>1 DEF Sound, DotsInPlace
    <3> QED
      BY <3>1, <3>2, <3>3, Origin
  <2> QED
    BY <2>1, <2>2
<1> QED
  BY <1>4, <1>5, <1>6, <1>7 DEF Sound

---------------------------------------------------------------------------
(* The actions.                                                            *)

\* What the driver writes and promises is of the right type.
LEMMA DataFacts ==
  ASSUME TypeOK
  PROVE  /\ NewSize \in Nat /\ NewSize <= Len(data)
         /\ SubSeq(data, 1, NewSize) \in Seq(Chunk)
         /\ \A i \in 0 .. Spc - 1 : ChunkSector(i) \in Sector /\ DirSector(i) \in Sector
<1> data \in Seq(Chunk) /\ Len(data) \in Nat /\ target_cl \in Cluster /\ dir_cl \in Cluster
  BY DEF TypeOK
<1>1. NewSize \in Nat /\ NewSize <= Len(data)
  BY GeometryAssumption DEF NewSize
<1>2. SubSeq(data, 1, NewSize) \in Seq(Chunk)
  <2>1. \A i \in 1 .. NewSize : data[i] \in Chunk
    BY <1>1
  <2> QED
    BY <1>1, <2>1, SubSeqProperties
<1>3. \A i \in 0 .. Spc - 1 : ChunkSector(i) \in Sector
  <2> TAKE i \in 0 .. Spc - 1
  <2>1. i < NewSize => data[i + 1] \in Chunk
    BY <1>1, GeometryAssumption
  <2> QED
    BY <2>1, RawType, ZeroesType DEF ChunkSector
<1>4. DotSector \in Sector
  BY GeometryAssumption DEF DotSector, Entry, Free, Sector, Cell, CellName
<1> QED
  BY <1>1, <1>2, <1>3, <1>4, ZeroesType DEF DirSector

\* A call that returns leaves nothing behind but what it wrote.
LEMMA ReturnStep ==
  ASSUME IInv, NEW ok \in BOOLEAN, Return(ok),
         fat' \in Table, sect' \in Area, dirs' \in SUBSET Cluster, Sound(fat', sect', dirs'),
         rfaults' \in Nat, wfaults' \in Nat, losses' \in Nat
  PROVE  IInv'
<1>1. acked' \in [NamePaths -> Seq(Chunk) \cup {NoAck}]
  BY DataFacts DEF IInv, TypeOK, Return
<1>2. RootClus \in dirs' /\ RootClus \in Cluster
  BY Geometry DEF Sound, DirsSeparate
<1>3. Len(path') = 0 /\ path' \in Seq(Name) /\ data' \in Seq(Chunk)
  BY DEF Return
<1>a. at' \in Cluster \X Pos
  BY <1>2, Origin DEF Return
<1>b. found' \in BOOLEAN
  BY DEF Return
<1>c. comp' \in 1 .. Len(path') + 1 /\ s' \in 0 .. Spc
  BY <1>3, GeometryAssumption DEF Return
<1>4. TypeOK'
  BY <1>1, <1>2, <1>3, <1>a, <1>b, <1>c DEF TypeOK, Return, Labels, AllCalls, Table, Area
<1>5. CallOK' /\ FoundOK' /\ TargetOK'
  BY <1>2 DEF CallOK, FoundOK, TargetOK, Return
<1> QED
  BY <1>4, <1>5 DEF IInv

\* Faults and power losses are counted down to zero.
LEMMA FaultTypes ==
  ASSUME TypeOK, ReadFault \/ WriteFault \/ NoFault
  PROVE  rfaults' \in Nat /\ wfaults' \in Nat /\ losses' \in Nat
BY DEF TypeOK, ReadFault, WriteFault, NoFault, fault

LEMMA FailStep ==
  ASSUME IInv, Fail, rfaults' \in Nat, wfaults' \in Nat, losses' \in Nat
  PROVE  IInv'
<1>1. Return(FALSE) /\ fat' = fat /\ sect' = sect /\ dirs' = dirs
  BY DEF Fail, disk
<1>2. fat \in Table /\ sect \in Area /\ dirs \in SUBSET Cluster /\ Sound(fat, sect, dirs)
  BY DEF IInv, TypeOK, Table, Area
<1> QED
  BY <1>1, <1>2, ReturnStep

\* The volume's part of IInv when a step leaves the volume alone.
LEMMA NamesOfType ==
  ASSUME NEW p \in Paths
  PROVE  NamesOf(p) \in Seq(Name) /\ Len(NamesOf(p)) = Len(p) /\ Len(p) >= 1 /\ NamesOf(p) \in NamePaths
<1>1. p \in Seq(Comp) /\ p # <<>> /\ Len(p) \in Nat
  BY InputsAssumption
<1>2. \A i \in 1 .. Len(p) : make_name83[p[i]] \in Name
  BY <1>1, NamesAssumption
<1>3. NamesOf(p) \in Seq(Name) /\ Len(NamesOf(p)) = Len(p)
  BY <1>1, <1>2 DEF NamesOf
<1>4. Len(p) >= 1
  BY <1>1, EmptySeq
<1> QED
  BY <1>3, <1>4 DEF NamePaths

LEMMA BeginStep ==
  ASSUME IInv, NEW c \in Calls, NEW p \in Paths, NEW d \in Contents, Begin(c, p, d)
  PROVE  IInv'
<1> USE NamesOfType DEF Begin
<1>1. /\ fat' = fat /\ sect' = sect /\ dirs' = dirs
      /\ rfaults' = rfaults /\ wfaults' = wfaults /\ losses' = losses
      /\ at' = at /\ target_cl' = target_cl /\ s' = s
      /\ RootClus \in dirs /\ RootClus \in Cluster
  BY Geometry DEF disk, fault, IInv, Sound, DirsSeparate
<1>2. c \in AllCalls /\ data' \in Seq(Chunk)
  BY InputsAssumption, EmptySeq
<1>3. acked' \in [NamePaths -> Seq(Chunk) \cup {NoAck}]
  BY DEF IInv, TypeOK
<1>b. found' \in BOOLEAN
  OBVIOUS
<1>c. comp' \in 1 .. Len(path') + 1
  BY LenProperties
<1>4. TypeOK'
  BY <1>1, <1>2, <1>3, <1>b, <1>c DEF IInv, TypeOK, Labels
<1>5. CallOK'
  BY <1>1 DEF IInv, CallOK, NamesNoDir
<1>6. FoundOK' /\ TargetOK'
  BY <1>1 DEF FoundOK, TargetOK
<1> QED
  BY <1>1, <1>4, <1>5, <1>6 DEF IInv

\* The component that is looked for is a name.
LEMMA WantedName ==
  ASSUME IInv, pc # "idle"
  PROVE  Wanted \in Name /\ Wanted \notin {END, DEL, DOT, DOTDOT} /\ Wanted \in CellName
BY NamesAssumption DEF IInv, TypeOK, CallOK, Wanted, CellName

\* A cell of a directory that is neither free nor a long name's is live.
LEMMA StopLive ==
  ASSUME IInv, NEW c \in dirs, NEW p \in Pos, pc # "idle",
         p \in Stops(c, Wanted), At(sect, c, p).name = Wanted
  PROVE  LiveCell(At(sect, c, p))
<1>1. At(sect, c, p).attr # "lfn"
  BY WantedName DEF Stops
<1>2. At(sect, c, p).attr # "raw"
  BY DEF IInv, Sound, DirsSeparate
<1>3. At(sect, c, p) \in Cell
  BY AtType DEF IInv, TypeOK, Area
<1> QED
  BY <1>1, <1>2, <1>3, WantedName DEF LiveCell, Cell

LEMMA FindStopStep ==
  ASSUME IInv, NEW l \in {"find", "efind"}, FindStop(l)
  PROVE  IInv'
<1> DEFINE p == First(Stops(cl, Wanted))
<1>1. p \in Stops(cl, Wanted) /\ p \in Pos
  BY FirstIn DEF FindStop, Stops
<1>2. /\ fat' = fat /\ sect' = sect /\ dirs' = dirs /\ acked' = acked
      /\ rfaults' = rfaults /\ wfaults' = wfaults /\ losses' = losses
      /\ call' = call /\ path' = path /\ comp' = comp /\ data' = data
      /\ dir_cl' = dir_cl /\ cl' = cl /\ target_cl' = target_cl /\ s' = s
      /\ pc = l /\ pc' = IF l = "find" THEN "decide" ELSE "edecide"
  BY DEF FindStop, Goto, NoFault, fault, disk, AfterFind
<1>3. found' = (At(sect, cl, p).name = Wanted)
      /\ at' = IF At(sect, cl, p).name = Wanted THEN <<cl, p>> ELSE at
  BY DEF FindStop
<1> HIDE DEF p
<1>4. found' => At(sect, cl, p).name = Wanted /\ at'[1] = cl /\ at'[2] = p
  BY <1>3
<1>5. at' \in Cluster \X Pos /\ at'[1] \in dirs
  BY <1>1, <1>3 DEF IInv, TypeOK, CallOK
<1>6. found' \in BOOLEAN
  BY <1>3
<1>7. TypeOK'
  BY <1>2, <1>5, <1>6 DEF IInv, TypeOK, Labels
<1>8. CallOK'
  BY <1>2, <1>5 DEF IInv, CallOK, NamesNoDir
<1>9. FoundOK'
  <2>1. found' => LiveCell(At(sect, cl, p)) /\ FoundCell' = At(sect, cl, p)
    BY <1>1, <1>2, <1>4, StopLive DEF IInv, CallOK, FoundCell
  <2>2. ASSUME At(sect, cl, p).name = Wanted, pc = "find", call = "write_root"
        PROVE  At(sect, cl, p).attr = "file"
    <3>a. comp \in 1 .. Len(path) /\ Len(path) = 1
      BY <2>2 DEF IInv, CallOK
    <3>1. comp = 1
      BY <3>a
    <3>2. NamesNoDir(path[1]) /\ Wanted = path[1] /\ cl \in dirs
      BY <2>2, <3>1 DEF IInv, CallOK, Wanted
    <3>3. LiveCell(At(sect, cl, p))
      BY <1>1, <2>2, <3>2, StopLive
    <3> QED
      BY <1>1, <2>2, <3>2, <3>3 DEF NamesNoDir
  <2>3. found' /\ pc' = "decide" /\ call = "write_root" => At(sect, cl, p).attr = "file"
    BY <1>2, <1>3, <2>2
  <2> QED
    BY <1>2, <2>1, <2>3 DEF FoundOK
<1>10. TargetOK'
  BY <1>2 DEF TargetOK
<1> QED
  BY <1>2, <1>7, <1>8, <1>9, <1>10 DEF IInv

\* The steps of a call that change neither the volume nor what was found.
LEMMA WalkStep ==
  ASSUME IInv, pc # "idle", NEW l \in {"find", "efind", "decide", "edecide", "ealloc"},
         pc' = l, UNCHANGED <<fat, sect, dirs, acked, call, path, data, at, target_cl, s>>,
         found' = found \/ found' = FALSE,
         comp' \in 1 .. Len(path), dir_cl' \in dirs, cl' \in dirs,
         rfaults' \in Nat, wfaults' \in Nat, losses' \in Nat,
         l \in {"decide", "edecide"} => found' = FALSE,
         call = "mkdir" => l \notin {"find", "decide"},
         call = "write_root" => l \in {"find", "decide"} /\ pc \in {"find", "decide"}
  PROVE  IInv'
<1>1. found' \in BOOLEAN
  BY DEF IInv, TypeOK
<1>2. comp' \in 1 .. Len(path) + 1 /\ dir_cl' \in Cluster /\ cl' \in Cluster
  BY LenProperties DEF IInv, TypeOK
<1>3. TypeOK'
  BY <1>1, <1>2 DEF IInv, TypeOK, Labels
<1>4. CallOK'
  BY DEF IInv, CallOK, NamesNoDir
<1>5. FoundOK' /\ TargetOK'
  BY DEF FoundOK, TargetOK
<1> QED
  BY <1>3, <1>4, <1>5 DEF IInv

LEMMA FindNextStep ==
  ASSUME IInv, NEW l \in {"find", "efind"}, FindNext(l)
  PROVE  IInv'
<1>1. /\ UNCHANGED <<fat, sect, dirs, acked, call, path, comp, data, dir_cl, at, target_cl, s>>
      /\ rfaults' \in Nat /\ wfaults' \in Nat /\ losses' \in Nat /\ pc = l
      /\ pc' \in {"find", "efind", "decide", "edecide"}
      /\ l = "find" => pc' \in {"find", "decide"}
      /\ l = "efind" => pc' \in {"efind", "edecide"}
  BY DEF FindNext, Goto, NoFault, fault, disk, AfterFind, IInv, TypeOK
<1>2. comp \in 1 .. Len(path) /\ dir_cl \in dirs /\ cl \in dirs 
        /\ (call = "write_root" => l = "find") /\ (call = "mkdir" => l = "efind")
  BY <1>1 DEF IInv, CallOK
<1>3. CASE /\ fat[cl] \in Cluster /\ cl' = fat[cl] /\ Goto(l)
           /\ UNCHANGED <<disk, call, path, comp, data, dir_cl, found, at, target_cl, s>>
  <2>1. cl' \in dirs
    BY <1>2, <1>3 DEF IInv, TypeOK, Sound, DirsSeparate
  <2>2. found' = found /\ pc' = l
    BY <1>3 DEF Goto
  <2> QED
    BY <1>1, <1>2, <2>1, <2>2, WalkStep
<1>4. CASE /\ fat[cl] = EOC /\ found' = FALSE /\ Goto(AfterFind[l])
           /\ UNCHANGED <<disk, call, path, comp, data, dir_cl, cl, at, target_cl, s>>
  <2>1. cl' = cl /\ found' = FALSE /\ pc' \in {"decide", "edecide"} /\ pc' = (IF l = "find" THEN "decide" ELSE "edecide")
    BY <1>4 DEF Goto, AfterFind
  <2> QED
    BY <1>1, <1>2, <2>1, WalkStep
<1> QED
  BY <1>3, <1>4 DEF FindNext

LEMMA FindReadFaultStep ==
  ASSUME IInv, NEW l \in {"find", "efind"}, FindReadFault(l)
  PROVE  IInv'
<1>1. rfaults' \in Nat /\ wfaults' \in Nat /\ losses' \in Nat /\ pc = l
  BY FaultTypes DEF IInv, FindReadFault
<1>2. CASE Fail
  BY <1>1, <1>2, FailStep
<1>3. CASE /\ found' = FALSE /\ Goto(AfterFind[l])
           /\ UNCHANGED <<disk, call, path, comp, data, dir_cl, cl, at, target_cl, s>>
  <2>1. /\ UNCHANGED <<fat, sect, dirs, acked, call, path, comp, data, dir_cl, cl, at, target_cl, s>>
        /\ pc' \in {"decide", "edecide"} /\ pc' = (IF l = "find" THEN "decide" ELSE "edecide") /\ found' = FALSE
    BY <1>3 DEF Goto, AfterFind, disk
  <2>2. comp \in 1 .. Len(path) /\ dir_cl \in dirs /\ cl \in dirs 
        /\ (call = "write_root" => l = "find") /\ (call = "mkdir" => l = "efind")
    BY <1>1 DEF IInv, CallOK
  <2> QED
    BY <1>1, <2>1, <2>2, WalkStep
<1> QED
  BY <1>2, <1>3 DEF FindReadFault

LEMMA NoFaultTypes ==
  ASSUME IInv, NoFault
  PROVE  rfaults' \in Nat /\ wfaults' \in Nat /\ losses' \in Nat
BY FaultTypes DEF IInv

\* fat32_write_file_root has a path of one component.
LEMMA MoreFacts ==
  ASSUME IInv, pc # "idle", More
  PROVE  comp + 1 \in 1 .. Len(path) /\ call # "write_root"
<1>1. comp \in 1 .. Len(path) /\ comp < Len(path) /\ Len(path) \in Nat
  BY LenProperties DEF IInv, CallOK, TypeOK, More
<1>2. call = "write_root" => Len(path) = 1
  BY DEF IInv, CallOK
<1> QED
  BY <1>1, <1>2

LEMMA DescendStep ==
  ASSUME IInv, pc \in {"decide", "edecide"}, More, NoFault, NEW c \in dirs, Descend(c)
  PROVE  IInv'
<1>1. /\ UNCHANGED <<fat, sect, dirs, acked, call, path, data, found, at, target_cl, s>>
      /\ comp' = comp + 1 /\ dir_cl' = c /\ cl' = c
      /\ pc' = IF call = "mkdir" THEN "efind" ELSE "find"
  BY DEF Descend, disk, Goto
<1>2. comp' \in 1 .. Len(path) /\ call # "write_root"
  BY <1>1, MoreFacts
<1> QED
  BY <1>1, <1>2, NoFaultTypes, WalkStep

\* The directory a live entry names is a directory.
LEMMA FoundDir ==
  ASSUME IInv, pc \in {"decide", "edecide"}, found, FoundCell.attr = "dir"
  PROVE  FoundCell.clus \in dirs /\ FoundCell.clus # 0
<1>1. LiveCell(FoundCell)
  BY DEF IInv, FoundOK
<1>2. at[1] \in dirs /\ at[2] \in Pos /\ dirs \subseteq Cluster
  BY DEF IInv, CallOK, TypeOK
<1>3. \A c \in dirs : \A p \in Pos : LiveCell(At(sect, c, p)) /\ At(sect, c, p).attr = "dir" =>
        At(sect, c, p).clus \in dirs
  BY DEF IInv, Sound, DirsSeparate
<1>4. FoundCell.clus \in dirs
  BY <1>1, <1>2, <1>3 DEF FoundCell
<1>5. 0 \notin Cluster
  BY Geometry DEF Cluster
<1> QED
  BY <1>2, <1>4, <1>5

LEMMA DecideInnerStep ==
  ASSUME IInv, DecideInner
  PROVE  IInv'
<1>1. pc = "decide" /\ More /\ NoFault
  BY DEF DecideInner
<1>2. CASE found /\ FoundCell.attr = "dir" /\ Descend(DirOf(FoundCell.clus))
  <2>1. DirOf(FoundCell.clus) \in dirs
    BY <1>1, <1>2, FoundDir DEF DirOf
  <2> QED
    BY <1>1, <1>2, <2>1, DescendStep
<1>3. CASE Fail
  BY <1>1, <1>3, NoFaultTypes, FailStep
<1>4. CASE /\ ~found /\ cl' = dir_cl /\ Goto("efind")
           /\ UNCHANGED <<disk, call, path, comp, data, dir_cl, found, at, target_cl, s>>
  <2>1. /\ UNCHANGED <<fat, sect, dirs, acked, call, path, comp, data, dir_cl, found, at, target_cl, s>>
        /\ cl' = dir_cl /\ pc' = "efind"
    BY <1>4 DEF disk, Goto
  <2>2. comp \in 1 .. Len(path) /\ dir_cl \in dirs /\ call # "write_root"
    BY <1>1, MoreFacts DEF IInv, CallOK
  <2> QED
    BY <1>1, <2>1, <2>2, NoFaultTypes, WalkStep
<1> QED
  BY <1>2, <1>3, <1>4 DEF DecideInner, FoundCell

LEMMA DecideEnsureStep ==
  ASSUME IInv, DecideEnsure
  PROVE  IInv'
<1>1. pc = "edecide" /\ NoFault
  BY DEF DecideEnsure
<1>2. CASE found /\ FoundCell.attr = "dir" /\ HaveDir(FoundCell.clus)
  <2>1. FoundCell.clus \in dirs /\ DirOf(FoundCell.clus) \in dirs
    BY <1>1, <1>2, FoundDir DEF DirOf
  <2>2. CASE More
    <3>1. PICK c \in dirs : Descend(c)
      BY <1>2, <2>1, <2>2 DEF HaveDir
    <3> QED
      BY <1>1, <2>2, <3>1, DescendStep
  <2>3. CASE ~More
    <3>1. Return(TRUE) /\ fat' = fat /\ sect' = sect /\ dirs' = dirs
      BY <1>2, <2>3 DEF HaveDir, disk
    <3>2. fat \in Table /\ sect \in Area /\ dirs \in SUBSET Cluster /\ Sound(fat, sect, dirs)
      BY DEF IInv, TypeOK, Table, Area
    <3> QED
      BY <1>1, <3>1, <3>2, NoFaultTypes, ReturnStep
  <2> QED
    BY <2>2, <2>3
<1>3. CASE Fail
  BY <1>1, <1>3, NoFaultTypes, FailStep
<1>4. CASE ~found /\ Goto("ealloc") /\ UNCHANGED <<disk, frame>>
  <2>1. /\ UNCHANGED <<fat, sect, dirs, acked, call, path, comp, data, dir_cl, cl, found, at, target_cl, s>>
        /\ pc' = "ealloc"
    BY <1>4 DEF disk, frame, Goto
  <2>2. comp \in 1 .. Len(path) /\ dir_cl \in dirs /\ cl \in dirs /\ call # "write_root"
    BY <1>1 DEF IInv, CallOK
  <2> QED
    BY <1>1, <2>1, <2>2, NoFaultTypes, WalkStep
<1> QED
  BY <1>2, <1>3, <1>4 DEF DecideEnsure, FoundCell

\* The last component: the entry that was found is a file's.
LEMMA DecideLastStep ==
  ASSUME IInv, DecideLast
  PROVE  IInv'
<1>1. pc = "decide" /\ NoFault /\ call \in AllCalls
  BY DEF DecideLast, IInv, TypeOK
<1>2. CASE Fail
  BY <1>1, <1>2, NoFaultTypes, FailStep
<1>3. CASE \/ /\ found /\ (call = "write" => FoundCell.attr # "dir") /\ FoundCell.clus # 0
              /\ target_cl' = FoundCell.clus /\ s' = 0 /\ Goto("data")
              /\ UNCHANGED <<disk, call, path, comp, data, dir_cl, cl, found, at>>
           \/ /\ found => (call = "write" => FoundCell.attr # "dir") /\ FoundCell.clus = 0
              /\ Goto("alloc") /\ UNCHANGED <<disk, frame>>
  <2>1. /\ UNCHANGED <<fat, sect, dirs, acked, call, path, comp, data, dir_cl, cl, found, at>>
        /\ rfaults' \in Nat /\ wfaults' \in Nat /\ losses' \in Nat
        /\ FoundCell' = FoundCell
    BY <1>1, <1>3, NoFaultTypes DEF disk, frame, Goto, FoundCell
  <2>2. \/ pc' = "data" /\ s' = 0 /\ found /\ target_cl' = FoundCell.clus /\ FoundCell.clus # 0
        \/ pc' = "alloc" /\ s' = s /\ target_cl' = target_cl /\ (found => FoundCell.clus = 0)
    BY <1>3 DEF Goto, frame
  <2>3. FoundCell \in Cell
    BY AtType DEF FoundCell, IInv, TypeOK, Area
  <2>4. target_cl' \in Cluster /\ s' \in 0 .. Spc /\ (pc' = "data" => s' < Spc)
    BY <2>2, <2>3, GeometryAssumption DEF IInv, TypeOK, Cell
  <2>5. TypeOK'
    BY <2>1, <2>2, <2>4 DEF IInv, TypeOK, Labels
  <2>6. CallOK'
    BY <2>1, <2>2, <2>4, <1>1 DEF IInv, CallOK
  <2>7. found => LiveCell(FoundCell) /\ FoundCell.attr = "file"
    <3>1. found => LiveCell(FoundCell) /\ (call = "write_root" => FoundCell.attr = "file")
      BY <1>1 DEF IInv, FoundOK
    <3>2. call # "mkdir"
      BY <1>1 DEF IInv, CallOK
    <3> QED
      BY <1>1, <1>3, <3>1, <3>2 DEF AllCalls, LiveCell
  <2>8. FoundOK'
    BY <2>1, <2>2, <2>7 DEF FoundOK
  <2>9. TargetOK'
    BY <2>1, <2>2 DEF TargetOK
  <2> QED
    BY <2>1, <2>5, <2>6, <2>8, <2>9 DEF IInv
<1> QED
  BY <1>2, <1>3 DEF DecideLast, FoundCell

\* The volume's variables, by their types.
LEMMA DiskTypes ==
  ASSUME IInv
  PROVE  /\ fat \in Table /\ sect \in Area /\ dirs \in SUBSET Cluster
         /\ Sound(fat, sect, dirs) /\ target_cl \in Cluster
         /\ dir_cl \in dirs /\ cl \in dirs /\ at[1] \in dirs /\ at[2] \in Pos
         /\ FoundCell \in Cell
<1>1. /\ fat \in Table /\ sect \in Area /\ dirs \in SUBSET Cluster
      /\ Sound(fat, sect, dirs) /\ target_cl \in Cluster
      /\ dir_cl \in dirs /\ cl \in dirs /\ at[1] \in dirs /\ at[2] \in Pos
  BY DEF IInv, TypeOK, CallOK, Table, Area
<1> QED
  BY <1>1, AtType DEF FoundCell

LEMMA AllocStep ==
  ASSUME IInv, NEW l \in {"alloc", "ealloc"}, Alloc(l)
  PROVE  IInv'
<1>1. PICK c \in FreeClusters : fat' = [fat EXCEPT ![c] = EOC] /\ target_cl' = c
  BY DEF Alloc
<1>2. c \in Cluster /\ fat[c] = 0
  BY GeometryAssumption DEF FreeClusters, Cluster
<1>3. /\ UNCHANGED <<sect, dirs, acked, call, path, comp, data, dir_cl, cl, found, at>>
      /\ s' = 0 /\ pc = l /\ pc' = IF l = "alloc" THEN "data" ELSE "dot"
      /\ rfaults' \in Nat /\ wfaults' \in Nat /\ losses' \in Nat
      /\ FoundCell' = FoundCell
  BY NoFaultTypes DEF Alloc, Goto, AfterAlloc, FoundCell
<1>4. fat' \in Table /\ Sound(fat', sect, dirs) /\ Fresh(fat', sect, dirs, c)
  BY <1>1, <1>2, DiskTypes, EocSound, AllocFresh
<1>5. s' \in 0 .. Spc /\ s' < Spc
  BY <1>3, GeometryAssumption
<1>6. TypeOK'
  BY <1>1, <1>2, <1>3, <1>4, <1>5 DEF IInv, TypeOK, Labels, Table
<1>7. CallOK'
  BY <1>3, <1>5 DEF IInv, CallOK
<1>8. FoundOK'
  BY <1>3 DEF IInv, FoundOK
<1>9. TargetOK'
  <2>1. pc = "alloc" => (found => FoundCell.clus = 0)
    BY DEF IInv, FoundOK
  <2>2. pc' = "dot" => \A i \in 0 .. Spc - 1 : ~(i < s')
    BY <1>3
  <2> QED
    BY <1>1, <1>3, <1>4, <2>1, <2>2 DEF TargetOK
<1> QED
  BY <1>3, <1>4, <1>6, <1>7, <1>8, <1>9 DEF IInv

\* The cluster a call fills is not part of a directory.
LEMMA TargetOutside ==
  ASSUME IInv, pc \in {"data", "eoc", "entry", "dot", "eeoc", "eslot", "slot"}
  PROVE  target_cl \notin dirs
<1>1. CASE Fresh(fat, sect, dirs, target_cl)
  BY <1>1 DEF Fresh
<1>2. CASE ~Fresh(fat, sect, dirs, target_cl)
  <2>1. pc \in {"data", "eoc", "entry"} /\ found /\ FoundCell.clus = target_cl
    BY <1>2 DEF IInv, TargetOK
  <2>2. LiveCell(FoundCell) /\ FoundCell.attr = "file"
    BY <2>1 DEF IInv, FoundOK
  <2> QED
    BY <2>1, <2>2, DiskTypes DEF Sound, DirsSeparate, FoundCell
<1> QED
  BY <1>1, <1>2

\* Filling the target's sectors leaves the directories alone.
LEMMA FillFacts ==
  ASSUME IInv, pc \in {"data", "dot"}, NEW row \in Sector,
         sect' = Fill(sect, target_cl, s, row), UNCHANGED <<fat, dirs, at>>
  PROVE  /\ sect' \in Area /\ Sound(fat, sect', dirs) /\ FoundCell' = FoundCell
         /\ Fresh(fat, sect, dirs, target_cl) => Fresh(fat, sect', dirs, target_cl)
         /\ \A j \in 0 .. Spc - 1 : sect'[target_cl][j] = IF j = s THEN row ELSE sect[target_cl][j]
         /\ s \in 0 .. Spc - 1 /\ s + 1 \in 0 .. Spc
<1>1. s \in 0 .. Spc /\ s < Spc
  BY DEF IInv, TypeOK, CallOK
<1>2. s \in 0 .. Spc - 1 /\ s + 1 \in 0 .. Spc
  BY <1>1, GeometryAssumption
<1>3. /\ sect' \in Area
      /\ \A d \in Cluster : \A q \in Pos : d # target_cl => At(sect', d, q) = At(sect, d, q)
      /\ \A j \in 0 .. Spc - 1 : sect'[target_cl][j] = IF j = s THEN row ELSE sect[target_cl][j]
  <2>1. sect \in Area /\ target_cl \in Cluster
    BY DiskTypes
  <2> QED
    BY <1>2, <2>1, FillAt
<1>4. \A d \in dirs : \A q \in Pos : At(sect', d, q) = At(sect, d, q)
  BY <1>3, DiskTypes, TargetOutside
<1>5. Sound(fat, sect', dirs) /\ (Fresh(fat, sect, dirs, target_cl) => Fresh(fat, sect', dirs, target_cl))
  BY <1>3, <1>4, DiskTypes, OutsideSound
<1>6. FoundCell' = At(sect', at[1], at[2])
  BY DEF FoundCell, At
<1>7. FoundCell' = FoundCell
  BY <1>4, <1>6, DiskTypes DEF FoundCell
<1> QED
  BY <1>2, <1>3, <1>5, <1>7

LEMMA WriteDataStep ==
  ASSUME IInv, WriteData
  PROVE  IInv'
<1>1. /\ pc = "data" /\ UNCHANGED <<fat, dirs, acked, call, path, comp, data, dir_cl, found, at, target_cl>>
      /\ sect' = Fill(sect, target_cl, s, ChunkSector(s)) /\ s' = s + 1
      /\ rfaults' \in Nat /\ wfaults' \in Nat /\ losses' \in Nat
      /\ pc' = IF s + 1 < Spc THEN "data" ELSE IF call = "write" THEN "eoc"
               ELSE IF found THEN "entry" ELSE "slot"
      /\ cl' \in {cl, dir_cl}
  <2>1. NoFault /\ rfaults' \in Nat /\ wfaults' \in Nat /\ losses' \in Nat
    BY NoFaultTypes DEF WriteData
  <2>2. cl' \in {cl, dir_cl}
    BY DEF WriteData
  <2> QED
    BY <2>1, <2>2 DEF WriteData, Goto
<1>2. s \in 0 .. Spc - 1
  BY <1>1, GeometryAssumption DEF IInv, TypeOK, CallOK
<1>3. ChunkSector(s) \in Sector
  BY <1>2, DataFacts DEF IInv
<1>4. /\ sect' \in Area /\ Sound(fat, sect', dirs) /\ FoundCell' = FoundCell
      /\ Fresh(fat, sect, dirs, target_cl) => Fresh(fat, sect', dirs, target_cl)
      /\ s' \in 0 .. Spc
  BY <1>1, <1>3, FillFacts
<1>5. /\ pc' \in {"data", "eoc", "entry", "slot"} /\ (pc' = "data" => s' < Spc)
      /\ pc' = "entry" => found
      /\ pc' = "slot" => ~found
  <2>1. CASE s + 1 < Spc
    BY <1>1, <2>1
  <2>2. CASE ~(s + 1 < Spc) /\ call = "write"
    BY <1>1, <2>2
  <2>3. CASE ~(s + 1 < Spc) /\ call # "write"
    BY <1>1, <2>3
  <2> QED
    BY <2>1, <2>2, <2>3
<1>6. TypeOK'
  BY <1>1, <1>4, <1>5, DiskTypes DEF IInv, TypeOK, Labels, Area
<1>7. CallOK'
  BY <1>1, <1>5, DiskTypes DEF IInv, CallOK
<1>8. FoundOK'
  BY <1>1, <1>4, <1>5 DEF IInv, FoundOK
<1>9. TargetOK'
  BY <1>1, <1>4, <1>5 DEF IInv, TargetOK
<1> QED
  BY <1>1, <1>4, <1>6, <1>7, <1>8, <1>9 DEF IInv

LEMMA WriteDirSectorStep ==
  ASSUME IInv, WriteDirSector
  PROVE  IInv'
<1>1. /\ pc = "dot" /\ UNCHANGED <<fat, dirs, acked, call, path, comp, data, dir_cl, cl, found, at, target_cl>>
      /\ sect' = Fill(sect, target_cl, s, DirSector(s)) /\ s' = s + 1
      /\ rfaults' \in Nat /\ wfaults' \in Nat /\ losses' \in Nat
      /\ pc' = IF s + 1 < Spc THEN "dot" ELSE "eeoc"
  BY NoFaultTypes DEF WriteDirSector, Goto
<1>2. s \in 0 .. Spc - 1
  BY <1>1, GeometryAssumption DEF IInv, TypeOK, CallOK
<1>3. DirSector(s) \in Sector
  BY <1>2, DataFacts DEF IInv
<1>4. /\ sect' \in Area /\ Sound(fat, sect', dirs) /\ FoundCell' = FoundCell
      /\ Fresh(fat, sect, dirs, target_cl) => Fresh(fat, sect', dirs, target_cl)
      /\ \A j \in 0 .. Spc - 1 : sect'[target_cl][j] = IF j = s THEN DirSector(s) ELSE sect[target_cl][j]
      /\ s' \in 0 .. Spc
  BY <1>1, <1>3, FillFacts
<1>5. \A i : DirSector(i)' = DirSector(i)
  BY <1>1 DEF DirSector, DotSector
<1>6. TypeOK'
  BY <1>1, <1>4, DiskTypes DEF IInv, TypeOK, Labels, Area
<1>7. CallOK'
  BY <1>1, DiskTypes DEF IInv, CallOK
<1>8. FoundOK'
  BY <1>1 DEF FoundOK
<1>9. TargetOK'
  <2>1. Fresh(fat', sect', dirs', target_cl')
    BY <1>1, <1>4 DEF IInv, TargetOK
  <2>2. \A i \in 0 .. Spc - 1 : i < s' => sect'[target_cl'][i] = DirSector(i)'
    BY <1>1, <1>2, <1>4, <1>5, GeometryAssumption DEF IInv, TargetOK
  <2>3. pc' = "eeoc" => \A i \in 0 .. Spc - 1 : i < s'
    BY <1>1, <1>2, GeometryAssumption
  <2> QED
    BY <1>1, <2>1, <2>2, <2>3 DEF TargetOK
<1> QED
  BY <1>1, <1>4, <1>6, <1>7, <1>8, <1>9 DEF IInv

\* The trailing write of the FAT entry, done or failed.
LEMMA EocFacts ==
  ASSUME IInv, pc \in {"eoc", "eeoc"}, UNCHANGED <<sect, dirs, at>>,
         \/ NoFault /\ fat' = [fat EXCEPT ![target_cl] = EOC]
         \/ (ReadFault \/ WriteFault) /\ UNCHANGED fat
  PROVE  /\ fat' \in Table /\ Sound(fat', sect, dirs)
         /\ Fresh(fat, sect, dirs, target_cl) => Fresh(fat', sect, dirs, target_cl)
         /\ rfaults' \in Nat /\ wfaults' \in Nat /\ losses' \in Nat
         /\ FoundCell' = FoundCell
<1>1. rfaults' \in Nat /\ wfaults' \in Nat /\ losses' \in Nat
  BY FaultTypes DEF IInv
<1>2. FoundCell' = FoundCell
  BY DEF FoundCell
<1>3. CASE fat' = [fat EXCEPT ![target_cl] = EOC]
  BY <1>1, <1>2, <1>3, DiskTypes, EocSound
<1>4. CASE fat' = fat
  BY <1>1, <1>2, <1>4, DiskTypes
<1> QED
  BY <1>3, <1>4

LEMMA MarkEocStep ==
  ASSUME IInv, MarkEoc
  PROVE  IInv'
<1>1. /\ pc = "eoc" /\ UNCHANGED <<sect, dirs, acked, call, path, comp, data, dir_cl, cl, found, at, target_cl, s>>
      /\ pc' = IF found THEN "entry" ELSE "slot"
  BY DEF MarkEoc, Goto, frame
<1>2. /\ fat' \in Table /\ Sound(fat', sect, dirs)
      /\ Fresh(fat, sect, dirs, target_cl) => Fresh(fat', sect, dirs, target_cl)
      /\ rfaults' \in Nat /\ wfaults' \in Nat /\ losses' \in Nat
      /\ FoundCell' = FoundCell
  BY <1>1, EocFacts DEF MarkEoc
<1>3. pc' \in {"entry", "slot"} /\ (pc' = "entry" <=> found)
  BY <1>1
<1>4. TypeOK'
  BY <1>1, <1>2, <1>3 DEF IInv, TypeOK, Labels, Table
<1>5. CallOK'
  BY <1>1, <1>3 DEF IInv, CallOK
<1>6. FoundOK'
  BY <1>1, <1>2, <1>3 DEF IInv, FoundOK
<1>7. TargetOK'
  BY <1>1, <1>2, <1>3 DEF IInv, TargetOK
<1> QED
  BY <1>1, <1>2, <1>4, <1>5, <1>6, <1>7 DEF IInv

LEMMA MarkDirEocStep ==
  ASSUME IInv, MarkDirEoc
  PROVE  IInv'
<1>1. /\ pc = "eeoc" /\ UNCHANGED <<sect, dirs, acked, call, path, comp, data, dir_cl, found, at, target_cl, s>>
      /\ pc' = "eslot" /\ cl' = dir_cl
  BY DEF MarkDirEoc, Goto
<1>2. /\ fat' \in Table /\ Sound(fat', sect, dirs)
      /\ Fresh(fat, sect, dirs, target_cl) => Fresh(fat', sect, dirs, target_cl)
      /\ rfaults' \in Nat /\ wfaults' \in Nat /\ losses' \in Nat
  BY <1>1, EocFacts DEF MarkDirEoc
<1>3. \A i : DirSector(i)' = DirSector(i)
  BY <1>1 DEF DirSector, DotSector
<1>4. TypeOK'
  BY <1>1, <1>2 DEF IInv, TypeOK, Labels, Table
<1>5. CallOK'
  BY <1>1 DEF IInv, CallOK
<1>6. FoundOK'
  BY <1>1 DEF FoundOK
<1>7. TargetOK'
  BY <1>1, <1>2, <1>3 DEF IInv, TargetOK
<1> QED
  BY <1>1, <1>2, <1>4, <1>5, <1>6, <1>7 DEF IInv

\* The entry that was found gets the cluster it had, or a fresh one.
LEMMA UpdateEntryStep ==
  ASSUME IInv, UpdateEntry
  PROVE  IInv'
<1> DEFINE e == [FoundCell EXCEPT !.clus = target_cl, !.size = NewSize]
<1>1. /\ pc = "entry" /\ fat' = fat /\ dirs' = dirs /\ Return(TRUE)
      /\ sect' = Put(sect, at[1], at[2], e)
      /\ rfaults' \in Nat /\ wfaults' \in Nat /\ losses' \in Nat
  BY NoFaultTypes DEF UpdateEntry, FoundCell
<1>2. found /\ LiveCell(FoundCell) /\ FoundCell.attr = "file"
  BY <1>1 DEF IInv, FoundOK
<1>3. e \in Cell /\ LiveCell(e) /\ e.attr = "file" /\ e.clus = target_cl /\ target_cl \in Cluster
  BY <1>2, DiskTypes, DataFacts DEF IInv, Cell, LiveCell
<1>4. \/ Fresh(fat, sect, dirs, target_cl)
      \/ FoundCell.clus = target_cl
  BY <1>1 DEF IInv, TargetOK
<1>5. FoundCell.name # DOT
  BY <1>2, NamesAssumption DEF LiveCell
<1> HIDE DEF e
<1>6. /\ sect' \in Area
      /\ \A d \in Cluster : \A q \in Pos :
           At(sect', d, q) = IF d = at[1] /\ q = at[2] THEN e ELSE At(sect, d, q)
  BY <1>1, <1>3, DiskTypes, PutAt
<1>7. Sound(fat, sect', dirs)
  BY <1>2, <1>3, <1>4, <1>5, <1>6, DiskTypes, FileEntrySound DEF FoundCell
<1> QED
  BY <1>1, <1>6, <1>7, DiskTypes, ReturnStep

\* A new entry in a free slot.
LEMMA SlotFacts ==
  ASSUME IInv, NEW l \in {"slot", "eslot"}, WriteSlot(l)
  PROVE  LET p == First(FreeSlots(cl))
             e == IF l = "eslot" THEN Entry(Wanted, "dir", target_cl, 0)
                                 ELSE Entry(Wanted, "file", target_cl, NewSize)
         IN  /\ p \in Pos /\ e \in Cell /\ LiveCell(e) /\ e.clus = target_cl
             /\ e.attr = IF l = "eslot" THEN "dir" ELSE "file"
             /\ At(sect, cl, p).name # DOT /\ ~LiveCell(At(sect, cl, p))
             /\ sect' \in Area
             /\ \A d \in Cluster : \A q \in Pos :
                  At(sect', d, q) = IF d = cl /\ q = p THEN e ELSE At(sect, d, q)
<1> DEFINE p == First(FreeSlots(cl))
           e == IF l = "eslot" THEN Entry(Wanted, "dir", target_cl, 0)
                               ELSE Entry(Wanted, "file", target_cl, NewSize)
<1>1. pc = l /\ sect' = Put(sect, cl, p, e)
  BY DEF WriteSlot
<1>2. p \in FreeSlots(cl) /\ p \in Pos
  BY FirstIn DEF WriteSlot, FreeSlots
<1>3. e \in Cell
  BY <1>1, WantedName, DataFacts, DiskTypes, EntryType DEF IInv
<1>4. LiveCell(e) /\ e.clus = target_cl /\ e.attr = IF l = "eslot" THEN "dir" ELSE "file"
  BY <1>1, WantedName DEF LiveCell, Entry
<1> HIDE DEF p, e
<1>5. At(sect, cl, p).name \in {END, DEL}
  BY <1>2 DEF FreeSlots
<1>6. At(sect, cl, p).name # DOT /\ ~LiveCell(At(sect, cl, p))
  BY <1>5, NamesAssumption DEF LiveCell
<1>7. /\ sect' \in Area
      /\ \A d \in Cluster : \A q \in Pos :
           At(sect', d, q) = IF d = cl /\ q = p THEN e ELSE At(sect, d, q)
  BY <1>1, <1>2, <1>3, DiskTypes, PutAt
<1>8. /\ p \in Pos /\ e \in Cell /\ LiveCell(e) /\ e.clus = target_cl
      /\ e.attr = IF l = "eslot" THEN "dir" ELSE "file"
      /\ At(sect, cl, p).name # DOT /\ ~LiveCell(At(sect, cl, p))
  BY <1>2, <1>3, <1>4, <1>6
<1> QED
  BY <1>7, <1>8, Zenon DEF p, e

LEMMA WriteFileSlotStep ==
  ASSUME IInv, WriteSlot("slot")
  PROVE  IInv'
<1>1. /\ pc = "slot" /\ fat' = fat /\ dirs' = dirs /\ Return(TRUE)
      /\ rfaults' \in Nat /\ wfaults' \in Nat /\ losses' \in Nat
  BY NoFaultTypes DEF WriteSlot
<1>2. Fresh(fat, sect, dirs, target_cl)
  BY <1>1 DEF IInv, TargetOK
<1>3. PICK p \in Pos, e \in Cell :
             /\ LiveCell(e) /\ e.clus = target_cl /\ e.attr = "file"
             /\ At(sect, cl, p).name # DOT
             /\ sect' \in Area
             /\ \A d \in Cluster : \A q \in Pos :
                  At(sect', d, q) = IF d = cl /\ q = p THEN e ELSE At(sect, d, q)
  BY SlotFacts
<1>4. Sound(fat, sect', dirs)
  BY <1>2, <1>3, DiskTypes, FileEntrySound
<1> QED
  BY <1>1, <1>3, <1>4, DiskTypes, ReturnStep

\* A cluster filled by ensure_directory holds its dots and nothing else.
LEMMA NewDirCells ==
  ASSUME IInv, pc = "eslot"
  PROVE  /\ \A q \in Pos : /\ ~LiveCell(At(sect, target_cl, q))
                           /\ At(sect, target_cl, q).attr # "raw"
         /\ At(sect, target_cl, <<0, 0>>).name = DOT
         /\ At(sect, target_cl, <<0, 0>>).clus = target_cl
<1>1. \A i \in 0 .. Spc - 1 : sect[target_cl][i] = DirSector(i)
  BY DEF IInv, TargetOK
<1>2. ASSUME NEW q \in Pos
      PROVE  At(sect, target_cl, q) \in {Entry(DOT, "dir", target_cl, 0), Entry(DOTDOT, "dir", dir_cl, 0), Free(END)}
  <2>1. q[1] \in 0 .. Spc - 1 /\ q[2] \in 0 .. Slots - 1
    BY DEF Pos
  <2>2. At(sect, target_cl, q) = DirSector(q[1])[q[2]]
    BY <1>1, <2>1 DEF At
  <2>3. CASE q[1] = 0
    BY <2>1, <2>2, <2>3 DEF DirSector, DotSector
  <2>4. CASE q[1] # 0
    BY <2>1, <2>2, <2>4 DEF DirSector, Zeroes
  <2> QED
    BY <2>3, <2>4
<1>3. \A q \in Pos : ~LiveCell(At(sect, target_cl, q)) /\ At(sect, target_cl, q).attr # "raw"
  BY <1>2, NamesAssumption DEF LiveCell, Entry, Free
<1>4. At(sect, target_cl, <<0, 0>>) = Entry(DOT, "dir", target_cl, 0)
  <2>1. 0 \in 0 .. Spc - 1 /\ 0 \in 0 .. Slots - 1
    BY GeometryAssumption
  <2>2. DotSector[0] = Entry(DOT, "dir", target_cl, 0)
    BY <2>1 DEF DotSector
  <2>3. sect[target_cl][0] = DotSector
    BY <1>1, <2>1 DEF DirSector
  <2> QED
    BY <2>2, <2>3 DEF At
<1> QED
  BY <1>3, <1>4 DEF Entry

LEMMA WriteDirSlotStep ==
  ASSUME IInv, WriteSlot("eslot")
  PROVE  IInv'
<1>1. /\ pc = "eslot" /\ fat' = fat /\ dirs' = dirs \cup {target_cl}
      /\ rfaults' \in Nat /\ wfaults' \in Nat /\ losses' \in Nat
  BY NoFaultTypes DEF WriteSlot
<1>2. Fresh(fat, sect, dirs, target_cl)
  BY <1>1 DEF IInv, TargetOK
<1>3. PICK p \in Pos, e \in Cell :
             /\ LiveCell(e) /\ e.clus = target_cl /\ e.attr = "dir"
             /\ At(sect, cl, p).name # DOT /\ ~LiveCell(At(sect, cl, p))
             /\ sect' \in Area
             /\ \A d \in Cluster : \A q \in Pos :
                  At(sect', d, q) = IF d = cl /\ q = p THEN e ELSE At(sect, d, q)
  BY SlotFacts
<1>a. /\ \A q \in Pos : ~LiveCell(At(sect, target_cl, q)) /\ At(sect, target_cl, q).attr # "raw"
      /\ At(sect, target_cl, <<0, 0>>).name = DOT
      /\ At(sect, target_cl, <<0, 0>>).clus = target_cl
  BY <1>1, NewDirCells
<1>b. Sound(fat, sect', dirs \cup {target_cl})
  BY <1>2, <1>3, <1>a, DiskTypes, DirEntrySound
<1>4. Sound(fat', sect', dirs') /\ dirs' \in SUBSET Cluster
  BY <1>1, <1>b, DiskTypes
<1>5. CASE ~More
  <2>1. Return(TRUE)
    BY <1>5 DEF WriteSlot
  <2> QED
    BY <1>1, <1>3, <1>4, <2>1, DiskTypes, ReturnStep
<1>6. CASE More
  <2>1. /\ comp' = comp + 1 /\ dir_cl' = target_cl /\ cl' = target_cl
        /\ UNCHANGED <<acked, call, path, data, found, at, target_cl, s>>
        /\ pc' = IF call = "mkdir" THEN "efind" ELSE "find"
    BY <1>6 DEF WriteSlot, Goto
  <2>2. comp' \in 1 .. Len(path) /\ comp' \in 1 .. Len(path) + 1 /\ call # "write_root"
    BY <1>1, <1>6, <2>1, MoreFacts, LenProperties DEF IInv, TypeOK
  <2>3. TypeOK'
    BY <1>1, <1>3, <1>4, <2>1, <2>2, DiskTypes DEF IInv, TypeOK, Labels, Area
  <2>4. CallOK'
    BY <1>1, <2>1, <2>2, DiskTypes DEF IInv, CallOK
  <2>5. FoundOK' /\ TargetOK'
    BY <2>1 DEF FoundOK, TargetOK
  <2> QED
    BY <1>4, <2>3, <2>4, <2>5 DEF IInv
<1> QED
  BY <1>5, <1>6

LEMMA FailingSteps ==
  ASSUME IInv,
         \/ \E l \in {"alloc", "ealloc"} : AllocFail(l)
         \/ WriteDataFail \/ UpdateEntryFail \/ WriteDirSectorFail \/ PowerLoss
         \/ \E l \in {"slot", "eslot"} : SlotFail(l)
  PROVE  IInv'
<1>1. Fail
  BY DEF AllocFail, WriteDataFail, UpdateEntryFail, WriteDirSectorFail, PowerLoss, SlotFail
<1>2. rfaults' \in Nat /\ wfaults' \in Nat /\ losses' \in Nat
  <2>1. CASE PowerLoss
    BY <2>1 DEF PowerLoss, IInv, TypeOK
  <2>2. CASE ~PowerLoss
    BY <2>2, FaultTypes DEF IInv, AllocFail, WriteDataFail, UpdateEntryFail, WriteDirSectorFail, SlotFail
  <2> QED
    BY <2>1, <2>2
<1> QED
  BY <1>1, <1>2, FailStep

LEMMA NextSlotStep ==
  ASSUME IInv, NEW l \in {"slot", "eslot"}, NextSlot(l)
  PROVE  IInv'
<1>1. pc = l /\ rfaults' \in Nat /\ wfaults' \in Nat /\ losses' \in Nat
  BY NoFaultTypes DEF NextSlot
<1>2. CASE Fail
  BY <1>1, <1>2, FailStep
<1>3. CASE /\ fat[cl] \in Cluster /\ cl' = fat[cl] /\ Goto(l)
           /\ UNCHANGED <<disk, call, path, comp, data, dir_cl, found, at, target_cl, s>>
  <2>1. /\ UNCHANGED <<pc, fat, sect, dirs, acked, call, path, comp, data, dir_cl, found, at, target_cl, s>>
        /\ cl' = fat[cl]
    BY <1>1, <1>3 DEF Goto, disk
  <2>2. cl' \in dirs
    BY <1>3, <2>1, DiskTypes DEF Sound, DirsSeparate
  <2>3. TypeOK'
    BY <1>1, <1>3, <2>1 DEF IInv, TypeOK
  <2>4. CallOK'
    BY <1>1, <2>1, <2>2 DEF IInv, CallOK
  <2>5. FoundOK'
    BY <1>1, <2>1 DEF IInv, FoundOK
  <2>6. TargetOK'
    <3>1. \A i : DirSector(i)' = DirSector(i)
      BY <2>1 DEF DirSector, DotSector
    <3> QED
      BY <1>1, <2>1, <3>1 DEF IInv, TargetOK
  <2> QED
    BY <2>1, <2>3, <2>4, <2>5, <2>6 DEF IInv
<1> QED
  BY <1>2, <1>3 DEF NextSlot

LEMMA StutterStep ==
  ASSUME IInv, UNCHANGED vars
  PROVE  IInv'
<1>1. UNCHANGED <<fat, sect, dirs, pc, call, path, comp, data, dir_cl, cl, found, at,
                  target_cl, s, rfaults, wfaults, losses, acked>>
  BY DEF vars, disk, frame, fault
<1>2. TypeOK' /\ CallOK'
  BY <1>1 DEF IInv, TypeOK, CallOK, NamesNoDir
<1>3. FoundOK' /\ TargetOK'
  <2>1. FoundCell' = FoundCell /\ \A i : DirSector(i)' = DirSector(i)
    BY <1>1 DEF FoundCell, DirSector, DotSector
  <2> QED
    BY <1>1, <2>1 DEF IInv, FoundOK, TargetOK
<1> QED
  BY <1>1, <1>2, <1>3 DEF IInv

---------------------------------------------------------------------------
(* The theorems.                                                           *)

LEMMA InitIInv == Init => IInv
<1> SUFFICES ASSUME Init PROVE IInv
  OBVIOUS
<1>1. PICK im \in Images : fat = im.fat /\ sect = im.sect /\ dirs = im.dirs /\ acked = im.files
  BY DEF Init
<1>2. im \in Image /\ Sound(im.fat, im.sect, im.dirs)
  BY ImagesAssumption
<1>3. /\ fat \in Table /\ sect \in Area /\ dirs \in SUBSET Cluster
      /\ acked \in [NamePaths -> Seq(Chunk) \cup {NoAck}] /\ Sound(fat, sect, dirs)
  BY <1>1, <1>2 DEF Image, Table, Area
<1>4. RootClus \in dirs /\ RootClus \in Cluster
  BY <1>3, Geometry DEF Sound, DirsSeparate
<1>5. /\ at \in Cluster \X Pos /\ at[1] \in dirs
      /\ comp \in 1 .. Len(path) + 1 /\ s \in 0 .. Spc /\ path \in Seq(Name) /\ data \in Seq(Chunk)
      /\ rfaults \in Nat /\ wfaults \in Nat /\ losses \in Nat
  BY <1>4, Origin, GeometryAssumption DEF Init
<1>6. found \in BOOLEAN
  BY DEF Init
<1>7. TypeOK
  BY <1>3, <1>4, <1>5, <1>6 DEF Init, TypeOK, Labels, AllCalls, Table, Area
<1>8. CallOK /\ FoundOK /\ TargetOK
  BY <1>4, <1>5 DEF Init, CallOK, FoundOK, TargetOK
<1> QED
  BY <1>3, <1>7, <1>8 DEF IInv

LEMMA NextIInv == IInv /\ [Next]_vars => IInv'
<1> SUFFICES ASSUME IInv, [Next]_vars PROVE IInv'
  OBVIOUS
<1>1. ASSUME NEW c \in Calls, NEW p \in Paths, NEW d \in Contents, Begin(c, p, d) PROVE IInv'
  BY <1>1, BeginStep
<1>2. ASSUME NEW l \in {"find", "efind"}, FindStop(l) \/ FindNext(l) \/ FindReadFault(l) PROVE IInv'
  BY <1>2, FindStopStep, FindNextStep, FindReadFaultStep
<1>3. CASE DecideInner \/ DecideLast \/ DecideEnsure
  BY <1>3, DecideInnerStep, DecideLastStep, DecideEnsureStep
<1>4. ASSUME NEW l \in {"alloc", "ealloc"}, Alloc(l) \/ AllocFail(l) PROVE IInv'
  BY <1>4, AllocStep, FailingSteps
<1>5. CASE WriteData \/ WriteDataFail \/ MarkEoc \/ UpdateEntry \/ UpdateEntryFail
  BY <1>5, WriteDataStep, MarkEocStep, UpdateEntryStep, FailingSteps
<1>6. CASE WriteDirSector \/ WriteDirSectorFail \/ MarkDirEoc
  BY <1>6, WriteDirSectorStep, MarkDirEocStep, FailingSteps
<1>7. ASSUME NEW l \in {"slot", "eslot"}, WriteSlot(l) \/ NextSlot(l) \/ SlotFail(l) PROVE IInv'
  BY <1>7, WriteFileSlotStep, WriteDirSlotStep, NextSlotStep, FailingSteps
<1>8. CASE PowerLoss
  BY <1>8, FailingSteps
<1>9. CASE UNCHANGED vars
  BY <1>9, StutterStep
<1> QED
  BY <1>1, <1>2, <1>3, <1>4, <1>5, <1>6, <1>7, <1>8, <1>9 DEF Next, CallStep

\* IInv is an invariant of the driver for every volume and every fault.
THEOREM Fat32Invariant == Spec => []IInv
BY InitIInv, NextIInv, PTL DEF Spec

\* fs_fat32.c never gives a cluster two owners: whatever sound volume it is
\* given, whatever reads and writes fail and wherever power is lost.
THEOREM Fat32NoCrossLink == Spec => []NoCrossLink
<1>1. IInv => NoCrossLink
  BY DEF IInv, Sound, NoCrossLink
<1> QED
  BY <1>1, Fat32Invariant, PTL

\* Nothing the volume refers to is ever free, so fat_alloc_free_cluster can
\* never hand out a cluster that is in use.
THEOREM Fat32NoDangling == Spec => []NoDangling
<1>1. IInv => NoDangling
  BY DEF IInv, Sound, NoDangling
<1> QED
  BY <1>1, Fat32Invariant, PTL

\* Directories keep their dot entries and never hold file data.
THEOREM Fat32DirectoriesIntact == Spec => []DirectoriesIntact
<1>1. IInv => DirectoriesIntact
  BY DEF IInv, Sound, DirectoriesIntact
<1> QED
  BY <1>1, Fat32Invariant, PTL

\* The variables of the driver keep their types.
THEOREM Fat32Types == Spec => []TypeOK
<1>1. IInv => TypeOK
  BY DEF IInv
<1> QED
  BY <1>1, Fat32Invariant, PTL

\* The four together: no fault and no loss of power makes fs_fat32.c damage a
\* sound volume.
THEOREM Fat32VolumeSafe == Spec => []VolumeSafe
<1>1. IInv => VolumeSafe
  BY DEF IInv, Sound, VolumeSafe, NoCrossLink, NoDangling, DirectoriesIntact
<1> QED
  BY <1>1, Fat32Invariant, PTL

---------------------------------------------------------------------------
(* Files: the tree of names.                                               *)

\* The first cluster of a directory.
LEMMA ChainFacts ==
  ASSUME NEW f, NEW ds \in SUBSET Cluster, NEW h \in [Cluster -> Places],
         Chained(f, ds, h), NEW c \in ds
  PROVE  /\ h[c].top \in ds /\ h[c].nr \in Nat /\ h[c].path \in Seq(Name)
         /\ h[h[c].top].top = h[c].top /\ h[h[c].top].nr = 0 /\ h[h[c].top].path = h[c].path
<1>1. h[c] \in Places
  OBVIOUS
<1>2. h[c].top \in ds /\ h[h[c].top] = Place(h[c].top, 0, h[c].path)
  BY DEF Chained
<1> QED
  BY <1>1, <1>2 DEF Places, Place

\* The tree does not depend on what is outside the directories.
LEMMA TreeOutside ==
  ASSUME NEW f, NEW f2, NEW se, NEW se2, NEW ds, NEW h, Tree(f, se, ds, h),
         \A d \in ds : f2[d] = f[d],
         \A d \in ds : \A p \in Pos : At(se2, d, p) = At(se, d, p)
  PROVE  Tree(f2, se2, ds, h)
<1>1. Chained(f2, ds, h)
  BY DEF Tree, Chained
<1>2. TreeWhole(se2, ds, h)
  BY DEF Tree, TreeWhole
<1>3. NamesOnce(se2, ds, h)
  BY DEF Tree, NamesOnce
<1>4. EndsLast(se2, ds, h)
  BY DEF Tree, EndsLast
<1> QED
  BY <1>1, <1>2, <1>3, <1>4 DEF Tree

\* A file stays what it is when another file's cluster is written.
LEMMA StoredOutside ==
  ASSUME NEW se, NEW se2, NEW ds, NEW h, NEW p, NEW x, Stored(se, ds, h, p, x),
         \A d \in ds : \A k \in Pos : At(se2, d, k) = At(se, d, k),
         \A d \in ds : \A k \in Pos : LiveCell(At(se, d, k)) /\ At(se, d, k).attr = "file" /\ At(se, d, k).clus # 0
           /\ Append(h[d].path, At(se, d, k).name) = p => se2[At(se, d, k).clus] = se[At(se, d, k).clus]
  PROVE  Stored(se2, ds, h, p, x)
BY DEF Stored

\* No cell is before itself or before one that it follows.
LEMMA BeforeStrict ==
  ASSUME NEW p \in Pos, NEW q \in Pos, Before(p, q)
  PROVE  p # q /\ ~Before(q, p)
BY GeometryAssumption DEF Before, Pos

\* A file's entry keeps the tree: it takes the place of one of the same name,
\* or the first free slot of a directory that does not have the name.
LEMMA FileEntryTree ==
  ASSUME NEW f, NEW se, NEW se2, NEW ds, NEW h, Tree(f, se, ds, h),
         NEW c \in ds, NEW p \in Pos, NEW e, LiveCell(e), e.attr = "file", e.name # END,
         \/ /\ LiveCell(At(se, c, p)) /\ At(se, c, p).attr = "file" /\ At(se, c, p).name = e.name
         \/ /\ ~LiveCell(At(se, c, p))
            /\ \A d \in ds : \A q \in Pos : h[d].top = h[c].top =>
                 ~(LiveCell(At(se, d, q)) /\ At(se, d, q).name = e.name)
            /\ \A d \in ds : \A q \in Pos : h[d].top = h[c].top /\ (h[d].nr < h[c].nr \/ (d = c /\ Before(q, p))) =>
                 At(se, d, q).name # END,
         \A d \in ds : \A q \in Pos : At(se2, d, q) = IF d = c /\ q = p THEN e ELSE At(se, d, q)
  PROVE  Tree(f, se2, ds, h)
<1>1. Chained(f, ds, h)
  BY DEF Tree
<1>2. TreeWhole(se2, ds, h)
  <2>1. ASSUME NEW d \in ds, NEW q \in Pos, LiveCell(At(se2, d, q)), At(se2, d, q).attr = "dir"
        PROVE  At(se2, d, q) = At(se, d, q)
    BY <2>1
  <2>2. ASSUME NEW d \in ds, NEW q \in Pos, LiveCell(At(se, d, q)), At(se, d, q).attr = "dir"
        PROVE  At(se2, d, q) = At(se, d, q)
    BY <2>2
  <2> QED
    BY <2>1, <2>2 DEF Tree, TreeWhole
<1>3. NamesOnce(se2, ds, h)
  <2> SUFFICES ASSUME NEW d \in ds, NEW g \in ds, NEW q \in Pos, NEW r \in Pos,
                      LiveCell(At(se2, d, q)), LiveCell(At(se2, g, r)),
                      At(se2, d, q).name = At(se2, g, r).name, h[d].top = h[g].top
               PROVE  d = g /\ q = r
    BY DEF NamesOnce
  <2>1. \A d1, d2 \in ds : \A q1, q2 \in Pos :
          LiveCell(At(se, d1, q1)) /\ LiveCell(At(se, d2, q2)) /\ At(se, d1, q1).name = At(se, d2, q2).name
          /\ h[d1].top = h[d2].top => d1 = d2 /\ q1 = q2
    BY DEF Tree, NamesOnce
  <2>2. CASE d = c /\ q = p
    BY <2>1, <2>2
  <2>3. CASE g = c /\ r = p
    BY <2>1, <2>3
  <2>4. CASE ~(d = c /\ q = p) /\ ~(g = c /\ r = p)
    BY <2>1, <2>4
  <2> QED
    BY <2>2, <2>3, <2>4
<1>4. EndsLast(se2, ds, h)
  BY DEF Tree, EndsLast
<1> QED
  BY <1>1, <1>2, <1>3, <1>4 DEF Tree

\* The path up to a component.
LEMMA PathUpTo ==
  ASSUME NEW p \in Seq(Name), NEW i \in 1 .. Len(p)
  PROVE  Append(SubSeq(p, 1, i - 1), p[i]) = SubSeq(p, 1, i)
<1>1. SubSeq(p, 1, i) = SubSeq(p, 1, i - 1) \o <<p[i]>>
  BY SubSeqRecursiveSecond
<1>2. p[i] \in Name /\ SubSeq(p, 1, i - 1) \in Seq(Name)
  <2>1. \A j \in 1 .. i - 1 : p[j] \in Name
    BY LenProperties
  <2> QED
    BY <2>1, SubSeqProperties
<1> QED
  BY <1>1, <1>2, AppendIsConcat

\* Cell p of cluster c becomes e.
Written(se, se2, c, p, e) ==
  \A d \in Cluster : \A q \in Pos : At(se2, d, q) = IF d = c /\ q = p THEN e ELSE At(se, d, q)
\* The directory of cluster c has no entry e.name, and no END before cell p.
RoomFor(se, ds, h, c, p, e) ==
  /\ ~LiveCell(At(se, c, p))
  /\ \A d \in ds : \A q \in Pos : h[d].top = h[c].top =>
       ~(LiveCell(At(se, d, q)) /\ At(se, d, q).name = e.name)
  /\ \A d \in ds : \A q \in Pos : h[d].top = h[c].top /\ (h[d].nr < h[c].nr \/ (d = c /\ Before(q, p))) =>
       At(se, d, q).name # END
\* Cluster t holds no entry, and behind an END only END cells.
EmptyDir(se, t) ==
  /\ \A q \in Pos : ~LiveCell(At(se, t, q))
  /\ \A q, r \in Pos : At(se, t, q).name = END /\ Before(q, r) => At(se, t, r).name = END
DirCell(e, t) == LiveCell(e) /\ e.attr = "dir" /\ e.clus = t /\ e.name # END

\* The entry of a new directory keeps the tree: nothing else has its path.
LEMMA DirEntryTree ==
  ASSUME NEW f \in Table, NEW se \in Area, NEW se2, NEW ds \in SUBSET Cluster, NEW h \in [Cluster -> Places],
         NEW h2, Tree(f, se, ds, h), Sound(f, se, ds),
         NEW c \in ds, NEW p \in Pos, NEW e, NEW t \in Cluster, Fresh(f, se, ds, t),
         DirCell(e, t), RoomFor(se, ds, h, c, p, e), EmptyDir(se, t), Written(se, se2, c, p, e),
         h2 = [h EXCEPT ![t] = Place(t, 0, Append(h[c].path, e.name))]
  PROVE  Tree(f, se2, ds \cup {t}, h2)
<1> USE DEF DirCell, RoomFor, EmptyDir, Written
<1> DEFINE d2 == ds \cup {t}
<1>1. /\ t \notin ds /\ f[t] = EOC /\ t # c /\ t # RootClus
      /\ \A d \in Cluster : f[d] # t
      /\ \A d \in ds : \A q \in Pos : LiveCell(At(se, d, q)) => At(se, d, q).clus # t
  BY DEF Fresh, Sound, DirsSeparate
<1>2. /\ h2[t] = Place(t, 0, Append(h[c].path, e.name))
      /\ \A d \in Cluster : d # t => h2[d] = h[d]
  OBVIOUS
<1>3. h2[t].top = t /\ h2[t].nr = 0 /\ h2[t].path = Append(h[c].path, e.name)
  BY <1>2 DEF Place
<1>4. \A d \in ds : /\ h2[d] = h[d] /\ h[d].top \in ds /\ h[d].top # t /\ h[d].top \in Cluster
                    /\ h[d].path \in Seq(Name) /\ h[h[d].top].path = h[d].path
  <2> TAKE d \in ds
  <2>1. Chained(f, ds, h)
    BY DEF Tree
  <2>2. h[d].top \in ds /\ h[d].path \in Seq(Name) /\ h[h[d].top].path = h[d].path
    BY <2>1, ChainFacts
  <2> QED
    BY <1>1, <1>2, <2>2
<1>5. Chained(f, d2, h2)
  <2>1. h2[RootClus] = Place(RootClus, 0, <<>>)
    BY <1>1, <1>2, Geometry DEF Tree, Chained
  <2>2. ASSUME NEW d \in d2
        PROVE  /\ h2[d].top \in d2 /\ h2[h2[d].top] = Place(h2[d].top, 0, h2[d].path)
               /\ f[d] \in Cluster => h2[f[d]] = Place(h2[d].top, h2[d].nr + 1, h2[d].path)
    <3>1. CASE d = t
      BY <1>1, <1>2, <1>3, <3>1, Geometry
    <3>2. CASE d \in ds
      BY <1>1, <1>2, <1>4, <3>2 DEF Tree, Chained
    <3> QED
      BY <3>1, <3>2
  <2>3. ASSUME NEW d \in d2, NEW g \in d2, h2[d].top = h2[g].top
        PROVE  (h2[d].nr = h2[g].nr => d = g) /\ (h2[d].nr < h2[g].nr => f[d] \in Cluster)
    <3>1. CASE d \in ds /\ g \in ds
      BY <1>4, <2>3, <3>1 DEF Tree, Chained
    <3>2. CASE d = t \/ g = t
      <4>1. d = t /\ g = t
        BY <1>3, <1>4, <2>3, <3>2
      <4> QED
        BY <1>3, <4>1
    <3> QED
      BY <3>1, <3>2
  <2> QED
    BY <2>1, <2>2, <2>3 DEF Chained
<1>6. \A q \in Pos : At(se2, t, q) = At(se, t, q)
  BY <1>1
<1>7. ASSUME NEW d \in ds, h[d].path = Append(h[c].path, e.name)
      PROVE  FALSE
  <2>1. e.name \in Name /\ h[c].path \in Seq(Name) /\ h[d].path # <<>>
    BY <1>4, <1>7, AppendProperties DEF LiveCell
  <2>2. PICK g \in ds, q \in Pos : LiveCell(At(se, g, q)) /\ At(se, g, q).attr = "dir" /\ At(se, g, q).clus = h[d].top
    BY <2>1 DEF Tree, TreeWhole
  <2>3. h[h[d].top] = Place(h[d].top, 0, Append(h[g].path, At(se, g, q).name))
    BY <2>2 DEF Tree, TreeWhole
  <2>4. h[d].path = Append(h[g].path, At(se, g, q).name)
    BY <1>4, <2>3 DEF Place
  <2>5. At(se, g, q).name \in Name /\ h[g].path \in Seq(Name)
    BY <1>4, <2>2 DEF LiveCell
  <2>6. h[g].path = h[c].path /\ At(se, g, q).name = e.name
    <3> DEFINE x == At(se, g, q).name
               y == e.name
               u == h[g].path
               v == h[c].path
    <3>1. Append(u, x) = Append(v, y)
      BY <1>7, <2>4
    <3>2. x \in Name /\ y \in Name /\ u \in Seq(Name) /\ v \in Seq(Name)
      BY <2>1, <2>5
    <3> HIDE DEF x, y, u, v
    <3>3. u = v /\ x = y
      BY <3>1, <3>2, AppendInjective
    <3> QED
      BY <3>3 DEF x, y, u, v
  <2>7. h[g].top = h[c].top
    BY <2>6 DEF Tree, TreeWhole
  <2> QED
    BY <2>2, <2>6, <2>7
<1>8. TreeWhole(se2, d2, h2)
  <2>1. ASSUME NEW d \in d2, NEW q \in Pos, LiveCell(At(se2, d, q)), At(se2, d, q).attr = "dir"
        PROVE  h2[At(se2, d, q).clus] = Place(At(se2, d, q).clus, 0, Append(h2[d].path, At(se2, d, q).name))
    <3>1. d \in ds
      BY <1>6, <2>1
    <3>2. CASE d = c /\ q = p
      BY <1>2, <1>4, <3>1, <3>2
    <3>3. CASE ~(d = c /\ q = p)
      <4>1. At(se2, d, q) = At(se, d, q) /\ At(se, d, q).clus \in ds
        BY <2>1, <3>1, <3>3 DEF Sound, DirsSeparate
      <4>2. h[At(se, d, q).clus] = Place(At(se, d, q).clus, 0, Append(h[d].path, At(se, d, q).name))
        BY <2>1, <3>1, <4>1 DEF Tree, TreeWhole
      <4> QED
        BY <1>4, <3>1, <4>1, <4>2
    <3> QED
      BY <3>2, <3>3
  <2>2. ASSUME NEW d \in d2, h2[d].path # <<>>
        PROVE  \E g \in d2 : \E q \in Pos :
                 LiveCell(At(se2, g, q)) /\ At(se2, g, q).attr = "dir" /\ At(se2, g, q).clus = h2[d].top
    <3>1. CASE d = t
      BY <1>3, <3>1
    <3>2. CASE d \in ds
      <4>1. PICK g \in ds, q \in Pos : LiveCell(At(se, g, q)) /\ At(se, g, q).attr = "dir" /\ At(se, g, q).clus = h[d].top
        BY <1>4, <2>2, <3>2 DEF Tree, TreeWhole
      <4>2. At(se2, g, q) = At(se, g, q)
        BY <4>1
      <4> QED
        BY <1>4, <3>2, <4>1, <4>2
    <3> QED
      BY <3>1, <3>2
  <2>3. ASSUME NEW d \in d2, NEW g \in d2, h2[d].path = h2[g].path
        PROVE  h2[d].top = h2[g].top
    <3>1. CASE d \in ds /\ g \in ds
      BY <1>4, <2>3, <3>1 DEF Tree, TreeWhole
    <3>2. CASE d = t \/ g = t
      BY <1>3, <1>4, <1>7, <2>3, <3>2
    <3> QED
      BY <3>1, <3>2
  <2> QED
    BY <2>1, <2>2, <2>3 DEF TreeWhole
<1>9. NamesOnce(se2, d2, h2)
  <2> SUFFICES ASSUME NEW d \in d2, NEW g \in d2, NEW q \in Pos, NEW r \in Pos,
                      LiveCell(At(se2, d, q)), LiveCell(At(se2, g, r)),
                      At(se2, d, q).name = At(se2, g, r).name, h2[d].top = h2[g].top
               PROVE  d = g /\ q = r
    BY DEF NamesOnce
  <2>a. d \in ds /\ g \in ds
    BY <1>6
  <2>b. h[d].top = h[g].top
    BY <1>4, <2>a
  <2>1. \A g1, g2 \in ds : \A q1, q2 \in Pos :
          LiveCell(At(se, g1, q1)) /\ LiveCell(At(se, g2, q2)) /\ At(se, g1, q1).name = At(se, g2, q2).name
          /\ h[g1].top = h[g2].top => g1 = g2 /\ q1 = q2
    BY DEF Tree, NamesOnce
  <2>2. CASE d = c /\ q = p
    BY <2>1, <2>2, <2>a, <2>b
  <2>3. CASE g = c /\ r = p
    BY <2>1, <2>3, <2>a, <2>b
  <2>4. CASE ~(d = c /\ q = p) /\ ~(g = c /\ r = p)
    BY <2>1, <2>4, <2>a, <2>b
  <2> QED
    BY <2>2, <2>3, <2>4
<1>10. EndsLast(se2, d2, h2)
  <2> SUFFICES ASSUME NEW d \in d2, NEW g \in d2, NEW q \in Pos, NEW r \in Pos,
                      At(se2, d, q).name = END, h2[d].top = h2[g].top,
                      h2[d].nr < h2[g].nr \/ (d = g /\ Before(q, r))
               PROVE  At(se2, g, r).name = END
    BY DEF EndsLast
  <2>1. CASE d = t \/ g = t
    <3>1. d = t /\ g = t
      BY <1>3, <1>4, <2>1
    <3> QED
      BY <1>3, <1>6, <3>1
  <2>2. CASE d \in ds /\ g \in ds
    <3>1. h[d].top = h[g].top /\ (h[d].nr < h[g].nr \/ (d = g /\ Before(q, r)))
      BY <1>4, <2>2
    <3>2. At(se, d, q).name = END
      BY <2>2
    <3>3. At(se, g, r).name = END
      BY <2>2, <3>1, <3>2 DEF Tree, EndsLast
    <3>4. ~(g = c /\ r = p)
      BY <2>2, <3>1, <3>2
    <3> QED
      BY <2>2, <3>3, <3>4
  <2> QED
    BY <2>1, <2>2
<1> QED
  BY <1>5, <1>8, <1>9, <1>10 DEF Tree

---------------------------------------------------------------------------
(* Files: the actions.                                                     *)

\* What the tree says of a cluster of a directory.
LEMMA HomeFacts ==
  ASSUME IInv, TreeOK, NEW c \in dirs
  PROVE  /\ home[c].top \in dirs /\ home[c].nr \in Nat /\ home[c].path \in Seq(Name)
         /\ home[home[c].top].top = home[c].top /\ home[home[c].top].nr = 0
         /\ home[home[c].top].path = home[c].path
<1>1. home \in [Cluster -> Places] /\ Chained(fat, dirs, home) /\ dirs \in SUBSET Cluster
  BY DEF TreeOK, Kept, Tree, IInv, TypeOK
<1> QED
  BY <1>1, ChainFacts

\* The directory that is searched: its first cluster is number 0.
LEMMA DirFacts ==
  ASSUME IInv, TreeOK, pc # "idle"
  PROVE  /\ home[dir_cl].top = dir_cl /\ home[dir_cl].nr = 0
         /\ \A c \in dirs : home[c].top = dir_cl => home[c].path = SubSeq(path, 1, comp - 1)
         /\ comp \in 1 .. Len(path) /\ path \in Seq(Name)
<1>1. home[dir_cl].top = dir_cl /\ home[dir_cl].path = SubSeq(path, 1, comp - 1)
  BY DEF TreeOK, WalkOK
<1>2. dir_cl \in dirs
  BY DiskTypes
<1>3. home[dir_cl].nr = 0
  BY <1>1, <1>2, HomeFacts
<1>4. \A c \in dirs : home[c].top = dir_cl => home[c].path = SubSeq(path, 1, comp - 1)
  BY <1>1, HomeFacts
<1> QED
  BY <1>1, <1>3, <1>4 DEF IInv, CallOK, TypeOK

LEMMA KeptSame ==
  ASSUME Kept, UNCHANGED <<fat, sect, dirs, home, acked>>
  PROVE  Kept'
BY DEF Kept

\* A call that fails leaves the volume as it is.
LEMMA FailTree ==
  ASSUME TreeOK, Fail
  PROVE  TreeOK'
<1>1. UNCHANGED <<fat, sect, dirs, home, acked>> /\ pc' = "idle"
  BY DEF Fail, Return, disk
<1> QED
  BY <1>1, KeptSame DEF TreeOK

\* Nothing has been looked at when a search begins.
LEMMA SearchBegins ==
  ASSUME IInv, TreeOK, UNCHANGED <<fat, sect, dirs, home>>, Kept',
         NEW c \in dirs, dir_cl' = c, cl' = c, home[c].top = c,
         home[c].path = SubSeq(path', 1, comp' - 1),
         call' # "mkdir" => acked'[path'] = NoAck,
         pc' \in {"find", "efind"},
         pc' = "efind" /\ call' # "mkdir" => More'
  PROVE  TreeOK'
<1>1. home[c].nr = 0 /\ \A d \in dirs : home[d].nr \in Nat
  BY HomeFacts
<1>2. WalkOK'
  BY DEF WalkOK
<1>3. AbsentBefore(home[cl].nr)'
  BY <1>1 DEF AbsentBefore
<1>4. SearchOK' /\ DataOK'
  BY <1>3 DEF SearchOK, DataOK
<1> QED
  BY <1>2, <1>4 DEF TreeOK

LEMMA BeginTree ==
  ASSUME IInv, TreeOK, NEW c \in Calls, NEW p \in Paths, NEW d \in Contents, Begin(c, p, d)
  PROVE  TreeOK'
<1>1. /\ UNCHANGED <<fat, sect, dirs, home>> /\ path' = NamesOf(p) /\ comp' = 1 /\ call' = c
      /\ dir_cl' = RootClus /\ cl' = RootClus
      /\ pc' = IF c = "mkdir" THEN "efind" ELSE "find"
      /\ acked' = IF c = "mkdir" THEN acked ELSE [acked EXCEPT ![NamesOf(p)] = NoAck]
  BY DEF Begin, disk
<1>2. NamesOf(p) \in NamePaths /\ NamesOf(p) \in Seq(Name) /\ acked \in [NamePaths -> Seq(Chunk) \cup {NoAck}]
  BY NamesOfType DEF IInv, TypeOK
<1>3. /\ DOMAIN acked' = DOMAIN acked
      /\ c # "mkdir" => acked'[path'] = NoAck
      /\ \A q \in DOMAIN acked : acked'[q] # NoAck => acked'[q] = acked[q]
  BY <1>1, <1>2
<1>4. Kept'
  BY <1>1, <1>3 DEF TreeOK, Kept
<1>5. home[RootClus] = Place(RootClus, 0, <<>>) /\ RootClus \in dirs
  BY DEF TreeOK, Kept, Tree, Chained, IInv, Sound, DirsSeparate
<1>6. home[RootClus].top = RootClus /\ home[RootClus].path = <<>>
  BY <1>5 DEF Place
<1>7. SubSeq(path', 1, comp' - 1) = <<>>
  BY <1>1, <1>2, SubSeqEmpty
<1> QED
  BY <1>1, <1>3, <1>4, <1>5, <1>6, <1>7, SearchBegins

\* A live cell of the wanted name is one the search stops at.
LEMMA LiveStops ==
  ASSUME NEW c \in dirs, NEW p \in Pos, LiveCell(At(sect, c, p)), At(sect, c, p).name = Wanted
  PROVE  p \in Stops(c, Wanted)
BY DEF Stops, LiveCell

\* The search stops at the entry, or where the directory ends.
LEMMA FindStopTree ==
  ASSUME IInv, TreeOK, NEW l \in {"find", "efind"}, FindStop(l)
  PROVE  TreeOK'
<1> DEFINE p == First(Stops(cl, Wanted))
<1>1. p \in Stops(cl, Wanted) /\ p \in Pos /\ \A q \in Stops(cl, Wanted) : p = q \/ Before(p, q)
  BY FirstLeast DEF FindStop, Stops
<1>2. /\ UNCHANGED <<fat, sect, dirs, home, acked, call, path, comp, data, dir_cl, cl, target_cl, s>>
      /\ pc = l /\ pc' = IF l = "find" THEN "decide" ELSE "edecide"
  BY DEF FindStop, Goto, disk, AfterFind
<1>3. found' = (At(sect, cl, p).name = Wanted)
      /\ at' = IF At(sect, cl, p).name = Wanted THEN <<cl, p>> ELSE at
  BY DEF FindStop
<1> HIDE DEF p
<1>4. WalkOK /\ SearchOK /\ Kept /\ home \in [Cluster -> Places] /\ cl \in dirs
  BY <1>2, DiskTypes DEF TreeOK
<1>5. WalkOK'
  BY <1>2, <1>4 DEF WalkOK, More
<1>6. ASSUME ~found' PROVE Absent'
  <2>1. At(sect, cl, p).name = END
    BY <1>1, <1>3, <1>6 DEF Stops
  <2>2. END \notin Name
    BY NamesAssumption
  <2> SUFFICES ASSUME NEW c \in dirs, NEW q \in Pos, home[c].top = dir_cl,
                      LiveCell(At(sect, c, q)), At(sect, c, q).name = Wanted
               PROVE  FALSE
    BY <1>2 DEF Absent, Wanted
  <2>3. home[c].nr \in Nat /\ home[cl].nr \in Nat /\ home[cl].top = dir_cl
    BY <1>2, <1>4, HomeFacts DEF WalkOK
  <2>4. CASE home[c].nr < home[cl].nr
    BY <1>2, <1>4, <2>4 DEF SearchOK, AbsentBefore
  <2>5. CASE home[c].nr > home[cl].nr
    <3>1. At(sect, c, q).name = END
      BY <1>1, <1>4, <2>1, <2>3, <2>5 DEF Kept, Tree, EndsLast
    <3> QED
      BY <2>2, <3>1 DEF LiveCell
  <2>6. CASE home[c].nr = home[cl].nr
    <3>1. c = cl
      BY <1>4, <2>3, <2>6 DEF Kept, Tree, Chained
    <3>2. q \in Stops(cl, Wanted) /\ q # p
      BY <2>1, <2>2, <3>1, LiveStops DEF LiveCell
    <3>3. Before(p, q)
      BY <1>1, <3>2
    <3>4. At(sect, c, q).name = END
      BY <1>1, <1>4, <2>1, <3>1, <3>3 DEF Kept, Tree, EndsLast
    <3> QED
      BY <2>2, <3>4 DEF LiveCell
  <2> QED
    BY <2>3, <2>4, <2>5, <2>6
<1>7. ASSUME found' PROVE home'[at'[1]].top = dir_cl' /\ FoundCell'.name = Wanted'
  <2>1. At(sect, cl, p).name = Wanted /\ at' = <<cl, p>>
    BY <1>3, <1>7
  <2>2. FoundCell' = At(sect, cl, p)
    BY <1>2, <2>1 DEF FoundCell
  <2> QED
    BY <1>2, <1>4, <2>1, <2>2 DEF WalkOK, Wanted
<1>8. SearchOK' /\ DataOK'
  BY <1>2, <1>6, <1>7 DEF SearchOK, DataOK
<1> QED
  BY <1>2, <1>4, <1>5, <1>8, KeptSame DEF TreeOK

\* On to the next cluster of the directory, or there is none.
LEMMA FindNextTree ==
  ASSUME IInv, TreeOK, NEW l \in {"find", "efind"}, FindNext(l)
  PROVE  TreeOK'
<1>1. /\ UNCHANGED <<fat, sect, dirs, home, acked, call, path, comp, data, dir_cl, at, target_cl, s>>
      /\ pc = l /\ Stops(cl, Wanted) = {}
  BY DEF FindNext, Goto, disk
<1>2. WalkOK /\ SearchOK /\ Kept /\ home \in [Cluster -> Places] /\ cl \in dirs
  BY <1>1, DiskTypes DEF TreeOK
<1>3. home[cl].top = dir_cl /\ home[cl].nr \in Nat
  BY <1>1, <1>2, HomeFacts DEF WalkOK
<1>4. ASSUME NEW c \in dirs, NEW q \in Pos, home[c].top = dir_cl, home[c].nr <= home[cl].nr,
             LiveCell(At(sect, c, q)), At(sect, c, q).name = Wanted
      PROVE  FALSE
  <2>1. home[c].nr \in Nat
    BY HomeFacts
  <2>2. CASE home[c].nr < home[cl].nr
    BY <1>1, <1>2, <1>4, <2>2 DEF SearchOK, AbsentBefore
  <2>3. CASE home[c].nr = home[cl].nr
    <3>1. c = cl
      BY <1>2, <1>3, <1>4, <2>3 DEF Kept, Tree, Chained
    <3> QED
      BY <1>1, <1>4, <3>1, LiveStops
  <2> QED
    BY <1>3, <1>4, <2>1, <2>2, <2>3
<1>5. CASE /\ fat[cl] \in Cluster /\ cl' = fat[cl] /\ Goto(l)
           /\ UNCHANGED <<disk, call, path, comp, data, dir_cl, found, at, target_cl, s>>
  <2>1. cl' = fat[cl] /\ pc' = pc /\ found' = found
    BY <1>1, <1>5 DEF Goto
  <2>2. home[fat[cl]] = Place(home[cl].top, home[cl].nr + 1, home[cl].path)
    BY <1>2, <1>5 DEF Kept, Tree, Chained
  <2>3. home[fat[cl]].top = dir_cl /\ home[fat[cl]].nr = home[cl].nr + 1
    BY <1>3, <2>2 DEF Place
  <2>4. \A c \in dirs : home[c].nr < home[cl].nr + 1 => home[c].nr <= home[cl].nr
    BY <1>3, HomeFacts
  <2>5. AbsentBefore(home[cl].nr)'
    BY <1>1, <1>4, <2>1, <2>3, <2>4 DEF AbsentBefore, Wanted
  <2>6. WalkOK'
    BY <1>1, <1>2, <2>1, <2>3 DEF WalkOK, More
  <2>7. SearchOK' /\ DataOK'
    BY <1>1, <2>1, <2>5 DEF SearchOK, DataOK
  <2> QED
    BY <1>1, <1>2, <2>6, <2>7, KeptSame DEF TreeOK
<1>6. CASE /\ fat[cl] = EOC /\ found' = FALSE /\ Goto(AfterFind[l])
           /\ UNCHANGED <<disk, call, path, comp, data, dir_cl, cl, at, target_cl, s>>
  <2>1. cl' = cl /\ found' = FALSE /\ pc' = IF l = "find" THEN "decide" ELSE "edecide"
    BY <1>6 DEF Goto, AfterFind
  <2>2. \A c \in dirs : home[c].top = dir_cl => home[c].nr <= home[cl].nr
    <3>1. \A c \in dirs : home[c].top = dir_cl => ~(home[cl].nr < home[c].nr)
      BY <1>2, <1>3, <1>6, Geometry DEF Kept, Tree, Chained
    <3> QED
      BY <1>3, <3>1, HomeFacts
  <2>3. Absent'
    BY <1>1, <1>4, <2>2 DEF Absent, Wanted
  <2>4. WalkOK'
    BY <1>1, <1>2, <2>1 DEF WalkOK, More
  <2>5. SearchOK' /\ DataOK'
    BY <2>1, <2>3 DEF SearchOK, DataOK
  <2> QED
    BY <1>1, <1>2, <2>4, <2>5, KeptSame DEF TreeOK
<1> QED
  BY <1>5, <1>6 DEF FindNext

\* The directory an entry names is the one the path leads to.
LEMMA FoundDirTree ==
  ASSUME IInv, TreeOK, pc \in {"decide", "edecide"}, found, FoundCell.attr = "dir"
  PROVE  /\ home[FoundCell.clus].top = FoundCell.clus
         /\ home[FoundCell.clus].path = SubSeq(path, 1, comp)
<1>1. LiveCell(FoundCell) /\ at[1] \in dirs /\ at[2] \in Pos
  BY DiskTypes DEF IInv, FoundOK
<1>2. home[FoundCell.clus] = Place(FoundCell.clus, 0, Append(home[at[1]].path, FoundCell.name))
  BY <1>1 DEF TreeOK, Kept, Tree, TreeWhole, FoundCell
<1>3. home[at[1]].top = dir_cl /\ FoundCell.name = path[comp]
  BY DEF TreeOK, SearchOK, Wanted
<1>4. home[at[1]].path = SubSeq(path, 1, comp - 1) /\ comp \in 1 .. Len(path) /\ path \in Seq(Name)
  BY <1>1, <1>3, DirFacts
<1> QED
  BY <1>2, <1>3, <1>4, PathUpTo DEF Place

LEMMA DescendTree ==
  ASSUME IInv, TreeOK, pc \in {"decide", "edecide"}, found, FoundCell.attr = "dir", Descend(FoundCell.clus)
  PROVE  TreeOK'
<1>1. /\ UNCHANGED <<fat, sect, dirs, home, acked, call, path>> /\ comp' = comp + 1
      /\ dir_cl' = FoundCell.clus /\ cl' = FoundCell.clus
      /\ pc' = IF call = "mkdir" THEN "efind" ELSE "find"
  BY DEF Descend, disk, Goto
<1>2. FoundCell.clus \in dirs /\ comp \in Nat /\ comp' - 1 = comp
  BY <1>1, FoundDir, DirFacts
<1>3. /\ home[FoundCell.clus].top = FoundCell.clus
      /\ home[FoundCell.clus].path = SubSeq(path', 1, comp' - 1)
  BY <1>1, <1>2, FoundDirTree
<1>4. Kept' /\ (call' # "mkdir" => acked'[path'] = NoAck)
  BY <1>1, KeptSame DEF TreeOK, WalkOK
<1> QED
  BY <1>1, <1>2, <1>3, <1>4, SearchBegins

LEMMA DecideInnerTree ==
  ASSUME IInv, TreeOK, DecideInner
  PROVE  TreeOK'
<1>1. pc = "decide" /\ More
  BY DEF DecideInner
<1>2. CASE found /\ FoundCell.attr = "dir" /\ Descend(DirOf(FoundCell.clus))
  <2>1. DirOf(FoundCell.clus) = FoundCell.clus
    BY <1>1, <1>2, FoundDir DEF DirOf
  <2> QED
    BY <1>1, <1>2, <2>1, DescendTree
<1>3. CASE Fail
  BY <1>3, FailTree
<1>4. CASE /\ ~found /\ cl' = dir_cl /\ Goto("efind")
           /\ UNCHANGED <<disk, call, path, comp, data, dir_cl, found, at, target_cl, s>>
  <2>1. /\ UNCHANGED <<fat, sect, dirs, home, acked, call, path, comp, dir_cl>>
        /\ cl' = dir_cl /\ pc' = "efind"
    BY <1>4 DEF disk, Goto
  <2>2. WalkOK /\ Kept /\ dir_cl \in dirs
    BY <1>1, DiskTypes DEF TreeOK
  <2>3. Kept' /\ More'
    BY <1>1, <2>1, <2>2, KeptSame DEF More
  <2> QED
    BY <2>1, <2>2, <2>3, SearchBegins DEF WalkOK
<1> QED
  BY <1>2, <1>3, <1>4 DEF DecideInner, FoundCell

LEMMA DecideEnsureTree ==
  ASSUME IInv, TreeOK, DecideEnsure
  PROVE  TreeOK'
<1>1. pc = "edecide" /\ Kept /\ WalkOK /\ SearchOK /\ home \in [Cluster -> Places]
  BY DEF DecideEnsure, TreeOK
<1>2. CASE found /\ FoundCell.attr = "dir" /\ HaveDir(FoundCell.clus)
  <2>1. DirOf(FoundCell.clus) = FoundCell.clus
    BY <1>1, <1>2, FoundDir DEF DirOf
  <2>2. CASE More
    <3>1. Descend(FoundCell.clus)
      BY <1>2, <2>1, <2>2 DEF HaveDir
    <3> QED
      BY <1>1, <1>2, <3>1, DescendTree
  <2>3. CASE ~More
    <3>1. call = "mkdir"
      BY <1>1, <2>3 DEF WalkOK
    <3>2. UNCHANGED <<fat, sect, dirs, home, acked>> /\ pc' = "idle"
      BY <1>2, <2>3, <3>1 DEF HaveDir, Return, disk
    <3> QED
      BY <1>1, <3>2, KeptSame DEF TreeOK
  <2> QED
    BY <2>2, <2>3
<1>3. CASE Fail
  BY <1>3, FailTree
<1>4. CASE ~found /\ Goto("ealloc") /\ UNCHANGED <<disk, frame>>
  <2>1. /\ UNCHANGED <<fat, sect, dirs, home, acked, call, path, comp, data, dir_cl, cl, found, at, target_cl, s>>
        /\ pc' = "ealloc"
    BY <1>4 DEF disk, frame, Goto
  <2>2. WalkOK'
    BY <1>1, <2>1 DEF WalkOK, More
  <2>3. Absent'
    BY <1>1, <1>4, <2>1 DEF SearchOK, Absent, Wanted
  <2>4. SearchOK' /\ DataOK'
    BY <1>4, <2>1, <2>3 DEF SearchOK, DataOK
  <2> QED
    BY <1>1, <2>1, <2>2, <2>4, KeptSame DEF TreeOK
<1> QED
  BY <1>2, <1>3, <1>4 DEF DecideEnsure, FoundCell

\* What the search told stays true while the directories are left alone.
LEMMA SearchSame ==
  ASSUME SearchOK, pc \notin {"idle", "find", "efind"}, pc' \notin {"idle", "find", "efind", "slot", "eslot"},
         UNCHANGED <<dirs, home, path, comp, dir_cl, found, at>>, FoundCell' = FoundCell,
         \A d \in dirs : \A q \in Pos : At(sect', d, q) = At(sect, d, q),
         pc' \in {"ealloc", "dot", "eeoc"} => ~found
  PROVE  SearchOK'
<1>1. Wanted' = Wanted
  BY DEF Wanted
<1>2. ~found => Absent'
  BY <1>1 DEF SearchOK, Absent
<1>3. found => home'[at'[1]].top = dir_cl' /\ FoundCell'.name = Wanted'
  BY <1>1 DEF SearchOK
<1> QED
  BY <1>2, <1>3 DEF SearchOK

LEMMA DecideLastTree ==
  ASSUME IInv, TreeOK, DecideLast
  PROVE  TreeOK'
<1>1. pc = "decide" /\ ~More /\ Kept /\ WalkOK /\ SearchOK /\ home \in [Cluster -> Places] /\ call # "mkdir"
  BY DEF DecideLast, TreeOK, IInv, CallOK
<1>2. CASE Fail
  BY <1>2, FailTree
<1>3. CASE ~Fail
  <2>1. /\ UNCHANGED <<fat, sect, dirs, home, acked, call, path, comp, data, dir_cl, cl, found, at>>
        /\ pc' \in {"data", "alloc"} /\ (pc' = "data" => s' = 0)
        /\ FoundCell' = FoundCell
    BY <1>3 DEF DecideLast, disk, frame, Goto, FoundCell
  <2>2. comp = Len(path)
    BY <1>1, DirFacts, LenProperties DEF More
  <2>3. WalkOK'
    BY <1>1, <2>1, <2>2 DEF WalkOK
  <2>4. \A d \in dirs : \A q \in Pos : At(sect', d, q) = At(sect, d, q)
    BY <2>1
  <2>5. SearchOK'
    BY <1>1, <2>1, <2>4, SearchSame
  <2>6. DataOK'
    BY <2>1 DEF DataOK
  <2> QED
    BY <1>1, <2>1, <2>3, <2>5, <2>6, KeptSame DEF TreeOK
<1> QED
  BY <1>2, <1>3

\* The only entry that may name the cluster being filled is the one found.
LEMMA TargetOthers ==
  ASSUME IInv, TreeOK, pc \in {"data", "dot", "eoc", "entry", "slot", "eeoc", "eslot"}, NEW c \in dirs, NEW k \in Pos,
         LiveCell(At(sect, c, k)), At(sect, c, k).clus = target_cl
  PROVE  /\ Append(home[c].path, At(sect, c, k).name) = path
         /\ call # "mkdir" /\ acked[path] = NoAck /\ found /\ at = <<c, k>>
<1>1. ~Fresh(fat, sect, dirs, target_cl)
  BY DEF Fresh
<1>2. pc \in {"data", "eoc", "entry"} /\ found /\ FoundCell.clus = target_cl
  BY <1>1 DEF IInv, TargetOK
<1>3. LiveCell(FoundCell) /\ target_cl # 0
  BY <1>2, DiskTypes, Geometry DEF IInv, FoundOK
<1>4. c = at[1] /\ k = at[2]
  BY <1>2, <1>3, DiskTypes DEF Sound, OneOwner, FoundCell
<1>5. home[c].top = dir_cl /\ At(sect, c, k).name = path[comp]
  BY <1>2, <1>4 DEF TreeOK, SearchOK, FoundCell, Wanted
<1>6. comp = Len(path) /\ call # "mkdir" /\ acked[path] = NoAck
  BY <1>2 DEF TreeOK, WalkOK
<1>7. home[c].path = SubSeq(path, 1, comp - 1) /\ comp \in 1 .. Len(path) /\ path \in Seq(Name)
  BY <1>5, <1>2, DirFacts
<1>8. Append(home[c].path, At(sect, c, k).name) = SubSeq(path, 1, Len(path))
  BY <1>5, <1>6, <1>7, PathUpTo
<1>9. Append(home[c].path, At(sect, c, k).name) = path
  BY <1>7, <1>8, SubSeqFull
<1>10. at = <<c, k>>
  BY <1>4 DEF IInv, TypeOK
<1> QED
  BY <1>2, <1>6, <1>9, <1>10

\* Filling the target harms no file that a path is reported to hold.
LEMMA FillTree ==
  ASSUME IInv, TreeOK, pc \in {"data", "dot"}, NEW row \in Sector,
         sect' = Fill(sect, target_cl, s, row), UNCHANGED <<fat, dirs, home, acked, at>>
  PROVE  Kept' /\ \A d \in dirs : \A q \in Pos : At(sect', d, q) = At(sect, d, q)
<1>1. s \in 0 .. Spc - 1 /\ sect \in Area /\ target_cl \in Cluster /\ target_cl \notin dirs /\ dirs \in SUBSET Cluster
  BY FillFacts, DiskTypes, TargetOutside
<1>2. \A d \in dirs : \A q \in Pos : At(sect', d, q) = At(sect, d, q)
  <2>1. \A d \in Cluster : \A q \in Pos : d # target_cl => At(Fill(sect, target_cl, s, row), d, q) = At(sect, d, q)
    BY <1>1, FillAt
  <2>2. \A d \in dirs : d \in Cluster /\ d # target_cl
    BY <1>1
  <2> QED
    BY <2>1, <2>2
<1>3. \A d \in Cluster : d # target_cl => sect'[d] = sect[d]
  BY <1>1 DEF Fill, Area
<1>4. Tree(fat, sect', dirs, home)
  BY <1>2, TreeOutside DEF TreeOK, Kept
<1>5. ASSUME NEW p \in DOMAIN acked, acked[p] # NoAck
      PROVE  Stored(sect', dirs, home, p, acked[p])
  <2>1. Stored(sect, dirs, home, p, acked[p])
    BY <1>5 DEF TreeOK, Kept
  <2>2. ASSUME NEW d \in dirs, NEW k \in Pos, LiveCell(At(sect, d, k)), At(sect, d, k).clus # 0,
               Append(home[d].path, At(sect, d, k).name) = p
        PROVE  sect'[At(sect, d, k).clus] = sect[At(sect, d, k).clus]
    <3>1. At(sect, d, k).clus \in Cluster
      BY <1>1, <2>2, AtType DEF Cell
    <3>2. At(sect, d, k).clus # target_cl
      BY <1>5, <2>2, TargetOthers
    <3> QED
      BY <1>3, <3>1, <3>2
  <2> QED
    BY <1>2, <2>1, <2>2, StoredOutside
<1>6. Kept'
  BY <1>4, <1>5 DEF Kept
<1> QED
  BY <1>2, <1>6

LEMMA WriteDataTree ==
  ASSUME IInv, TreeOK, WriteData
  PROVE  TreeOK'
<1>1. /\ pc = "data" /\ UNCHANGED <<fat, dirs, home, acked, call, path, comp, data, dir_cl, found, at, target_cl>>
      /\ sect' = Fill(sect, target_cl, s, ChunkSector(s)) /\ s' = s + 1
      /\ pc' = IF s + 1 < Spc THEN "data" ELSE IF call = "write" THEN "eoc"
               ELSE IF found THEN "entry" ELSE "slot"
      /\ cl' = IF s + 1 = Spc THEN dir_cl ELSE cl
  BY DEF WriteData, Goto
<1>2. s \in 0 .. Spc - 1
  BY <1>1, GeometryAssumption DEF IInv, TypeOK, CallOK
<1>3. ChunkSector(s) \in Sector
  BY <1>2, DataFacts DEF IInv
<1>4. /\ Kept' /\ FoundCell' = FoundCell
      /\ \A d \in dirs : \A q \in Pos : At(sect', d, q) = At(sect, d, q)
      /\ \A j \in 0 .. Spc - 1 : sect'[target_cl][j] = IF j = s THEN ChunkSector(s) ELSE sect[target_cl][j]
  BY <1>1, <1>3, FillFacts, FillTree
<1>5. /\ pc' \in {"data", "eoc", "entry", "slot"} /\ (pc' # "data" => s + 1 = Spc)
      /\ pc' = "slot" => ~found
  <2>1. CASE s + 1 < Spc
    BY <1>1, <2>1
  <2>2. CASE ~(s + 1 < Spc) /\ call = "write"
    <3>1. s + 1 = Spc
      BY <1>2, <2>2, GeometryAssumption
    <3>2. pc' = "eoc"
      BY <1>1, <2>2
    <3> QED
      BY <3>1, <3>2
  <2>3. CASE ~(s + 1 < Spc) /\ call # "write"
    <3>1. s + 1 = Spc
      BY <1>2, <2>3, GeometryAssumption
    <3>2. pc' = IF found THEN "entry" ELSE "slot"
      BY <1>1, <2>3
    <3> QED
      BY <3>1, <3>2
  <2> QED
    BY <2>1, <2>2, <2>3
<1>6. WalkOK /\ SearchOK /\ DataOK /\ home \in [Cluster -> Places]
  BY <1>1 DEF TreeOK
<1>7. WalkOK'
  BY <1>1, <1>5, <1>6 DEF WalkOK
<1>8. SearchOK'
  <2>1. CASE pc' # "slot"
    BY <1>1, <1>4, <1>5, <1>6, <2>1, SearchSame
  <2>2. CASE pc' = "slot"
    <3>1. cl' = dir_cl /\ ~found
      BY <1>1, <1>5, <2>2
    <3>2. home[dir_cl].nr = 0 /\ \A c \in dirs : home[c].nr \in Nat
      BY <1>1, DirFacts, HomeFacts
    <3>3. Absent'
      BY <1>1, <1>4, <1>6, <3>1 DEF SearchOK, Absent, Wanted
    <3> QED
      BY <1>1, <2>2, <3>1, <3>2, <3>3 DEF SearchOK
  <2> QED
    BY <2>1, <2>2
<1>9. DataOK'
  <2>1. \A i : ChunkSector(i)' = ChunkSector(i)
    BY <1>1 DEF ChunkSector, NewSize
  <2>2. \A i \in 0 .. Spc - 1 : i < s + 1 => sect'[target_cl][i] = ChunkSector(i)
    BY <1>1, <1>2, <1>4, <1>6, GeometryAssumption DEF DataOK
  <2>3. pc' # "data" => \A i \in 0 .. Spc - 1 : i < s + 1
    BY <1>5, GeometryAssumption
  <2> QED
    BY <1>1, <2>1, <2>2, <2>3 DEF DataOK
<1> QED
  BY <1>1, <1>4, <1>6, <1>7, <1>8, <1>9 DEF TreeOK

LEMMA WriteDirSectorTree ==
  ASSUME IInv, TreeOK, WriteDirSector
  PROVE  TreeOK'
<1>1. /\ pc = "dot" /\ UNCHANGED <<fat, dirs, home, acked, call, path, comp, data, dir_cl, cl, found, at, target_cl>>
      /\ sect' = Fill(sect, target_cl, s, DirSector(s)) /\ s' = s + 1
      /\ pc' \in {"dot", "eeoc"}
  BY DEF WriteDirSector, Goto
<1>2. s \in 0 .. Spc - 1
  BY <1>1, GeometryAssumption DEF IInv, TypeOK, CallOK
<1>3. DirSector(s) \in Sector
  BY <1>2, DataFacts DEF IInv
<1>4. /\ Kept' /\ FoundCell' = FoundCell
      /\ \A d \in dirs : \A q \in Pos : At(sect', d, q) = At(sect, d, q)
  BY <1>1, <1>3, FillFacts, FillTree
<1>5. WalkOK /\ SearchOK /\ home \in [Cluster -> Places] /\ ~found
  BY <1>1 DEF TreeOK, SearchOK
<1>6. WalkOK'
  BY <1>1, <1>5 DEF WalkOK, More
<1>7. SearchOK'
  BY <1>1, <1>4, <1>5, SearchSame
<1>8. DataOK'
  BY <1>1 DEF DataOK
<1> QED
  BY <1>1, <1>4, <1>5, <1>6, <1>7, <1>8 DEF TreeOK

\* The FAT entry of a cluster outside the directories does not matter.
LEMMA FatTree ==
  ASSUME IInv, TreeOK, UNCHANGED <<sect, dirs, home, acked>>, \A d \in dirs : fat'[d] = fat[d]
  PROVE  Kept'
<1>1. \A d \in dirs : \A p \in Pos : At(sect, d, p) = At(sect, d, p)
  OBVIOUS
<1>2. Tree(fat', sect, dirs, home)
  BY <1>1, TreeOutside DEF TreeOK, Kept
<1> QED
  BY <1>2 DEF TreeOK, Kept

LEMMA AllocTree ==
  ASSUME IInv, TreeOK, NEW l \in {"alloc", "ealloc"}, Alloc(l)
  PROVE  TreeOK'
<1>1. PICK c \in FreeClusters : fat' = [fat EXCEPT ![c] = EOC] /\ target_cl' = c
  BY DEF Alloc
<1>2. c \notin dirs
  BY DiskTypes DEF FreeClusters, Sound, ReferencedAllocated
<1>3. \A d \in dirs : fat'[d] = fat[d]
  BY <1>1, <1>2, DiskTypes DEF Table
<1>4. /\ UNCHANGED <<sect, dirs, home, acked, call, path, comp, data, dir_cl, cl, found, at>>
      /\ s' = 0 /\ pc = l /\ pc' = IF l = "alloc" THEN "data" ELSE "dot"
      /\ FoundCell' = FoundCell
      /\ \A d \in dirs : \A q \in Pos : At(sect', d, q) = At(sect, d, q)
  BY DEF Alloc, Goto, AfterAlloc, FoundCell
<1>5. Kept'
  BY <1>3, <1>4, FatTree
<1>6. WalkOK /\ SearchOK /\ home \in [Cluster -> Places] /\ (l = "ealloc" => ~found)
  BY <1>4 DEF TreeOK, SearchOK
<1>7. WalkOK'
  BY <1>4, <1>6 DEF WalkOK, More
<1>8. SearchOK'
  BY <1>4, <1>6, SearchSame
<1>9. DataOK'
  BY <1>4 DEF DataOK
<1> QED
  BY <1>4, <1>5, <1>6, <1>7, <1>8, <1>9 DEF TreeOK

\* The trailing write of the FAT entry; the walk for a free slot begins.
LEMMA MarkTree ==
  ASSUME IInv, TreeOK, MarkEoc \/ MarkDirEoc
  PROVE  TreeOK'
<1>1. /\ UNCHANGED <<sect, dirs, home, acked, call, path, comp, data, dir_cl, found, at, target_cl, s>>
      /\ \/ fat' = [fat EXCEPT ![target_cl] = EOC]
         \/ fat' = fat
  BY DEF MarkEoc, MarkDirEoc, Goto, frame
<1>2. \/ pc = "eoc" /\ cl' = cl /\ pc' = IF found THEN "entry" ELSE "slot"
      \/ pc = "eeoc" /\ cl' = dir_cl /\ pc' = "eslot"
  BY DEF MarkEoc, MarkDirEoc, Goto, frame
<1>3. target_cl \notin dirs /\ pc # "idle"
  BY <1>2, TargetOutside
<1>4. \A d \in dirs : fat'[d] = fat[d]
  BY <1>1, <1>3, DiskTypes DEF Table
<1>5. Kept'
  BY <1>1, <1>4, FatTree
<1>6. WalkOK /\ SearchOK /\ DataOK /\ home \in [Cluster -> Places] /\ (pc = "eeoc" => ~found)
  BY <1>3 DEF TreeOK, SearchOK
<1>7. cl' = dir_cl /\ (pc' = "slot" => ~found)
  BY <1>2, <1>6 DEF WalkOK
<1>8. home[dir_cl].nr = 0 /\ home[dir_cl].top = dir_cl /\ \A c \in dirs : home[c].nr \in Nat
  BY <1>3, DirFacts, HomeFacts
<1>9. WalkOK'
  BY <1>1, <1>2, <1>6, <1>7, <1>8 DEF WalkOK, More
<1>10. SearchOK'
  <2>1. FoundCell' = FoundCell /\ Wanted' = Wanted
    BY <1>1 DEF FoundCell, Wanted
  <2>2. ~found => Absent'
    BY <1>1, <1>2, <1>6, <2>1 DEF SearchOK, Absent
  <2>3. found => home'[at'[1]].top = dir_cl' /\ FoundCell'.name = Wanted'
    BY <1>1, <1>2, <1>6, <2>1 DEF SearchOK
  <2> QED
    BY <1>1, <1>2, <1>6, <1>7, <1>8, <2>2, <2>3 DEF SearchOK
<1>11. DataOK'
  <2>1. \A i : ChunkSector(i)' = ChunkSector(i)
    BY <1>1 DEF ChunkSector, NewSize
  <2> QED
    BY <1>1, <1>2, <1>6, <2>1 DEF DataOK
<1> QED
  BY <1>1, <1>5, <1>6, <1>9, <1>10, <1>11 DEF TreeOK

\* What was written of the data is what the call will have promised.
LEMMA DataStored ==
  ASSUME IInv, TreeOK, pc \in {"entry", "slot"}
  PROVE  /\ Len(SubSeq(data, 1, NewSize)) = NewSize
         /\ \A i \in 0 .. Spc - 1 : i < NewSize => sect[target_cl][i] = Raw(SubSeq(data, 1, NewSize)[i + 1])
<1>1. NewSize \in Nat /\ NewSize <= Len(data) /\ data \in Seq(Chunk) /\ Len(data) \in Nat
  BY DataFacts DEF IInv, TypeOK
<1>2. /\ Len(SubSeq(data, 1, NewSize)) = NewSize
      /\ \A i \in 1 .. NewSize : SubSeq(data, 1, NewSize)[i] = data[i]
  <2>1. \A i \in 1 .. NewSize : data[i] \in Chunk
    BY <1>1
  <2> QED
    BY <1>1, <2>1, SubSeqProperties
<1>3. ASSUME NEW i \in 0 .. Spc - 1, i < NewSize
      PROVE  sect[target_cl][i] = Raw(SubSeq(data, 1, NewSize)[i + 1])
  <2>1. sect[target_cl][i] = ChunkSector(i)
    BY DEF TreeOK, DataOK
  <2>2. i + 1 \in 1 .. NewSize
    BY <1>1, <1>3, GeometryAssumption
  <2> QED
    BY <1>2, <1>3, <2>1, <2>2 DEF ChunkSector
<1> QED
  BY <1>2, <1>3

\* The entry of a written file: its path holds the data, the others what
\* they held.
LEMMA FileEntryKept ==
  ASSUME IInv, TreeOK, pc \in {"entry", "slot"}, Return(TRUE), UNCHANGED <<fat, dirs, home>>,
         NEW c \in dirs, NEW p \in Pos, NEW e \in Cell,
         LiveCell(e), e.attr = "file", e.clus = target_cl, e.size = NewSize, e.name = Wanted,
         home[c].top = dir_cl, sect' = Put(sect, c, p, e),
         \/ /\ LiveCell(At(sect, c, p)) /\ At(sect, c, p).attr = "file" /\ At(sect, c, p).name = Wanted
         \/ /\ ~LiveCell(At(sect, c, p)) /\ Absent
            /\ \A d \in dirs : \A q \in Pos : home[d].top = dir_cl /\ (home[d].nr < home[c].nr \/ (d = c /\ Before(q, p))) =>
                 At(sect, d, q).name # END
  PROVE  TreeOK'
<1>1. /\ fat \in Table /\ sect \in Area /\ dirs \in SUBSET Cluster /\ Sound(fat, sect, dirs)
      /\ target_cl \in Cluster /\ target_cl \notin dirs /\ target_cl # 0
  BY DiskTypes, TargetOutside, Geometry
<1>2. /\ \A d \in dirs : \A q \in Pos : At(sect', d, q) = IF d = c /\ q = p THEN e ELSE At(sect, d, q)
      /\ \A d \in Cluster : d # c => sect'[d] = sect[d]
  <2>1. \A d \in Cluster : \A q \in Pos :
           At(Put(sect, c, p, e), d, q) = IF d = c /\ q = p THEN e ELSE At(sect, d, q)
    BY <1>1, PutAt
  <2>2. \A d \in Cluster : d # c => sect'[d] = sect[d]
    BY <1>1 DEF Put, Area
  <2> QED
    BY <1>1, <2>1, <2>2
<1>3. Tree(fat, sect', dirs, home)
  <2>1. Tree(fat, sect, dirs, home) /\ e.name # END
    BY WantedName DEF TreeOK, Kept
  <2>2. \/ LiveCell(At(sect, c, p)) /\ At(sect, c, p).attr = "file" /\ At(sect, c, p).name = e.name
        \/ /\ ~LiveCell(At(sect, c, p))
           /\ \A d \in dirs : \A q \in Pos : home[d].top = home[c].top =>
                ~(LiveCell(At(sect, d, q)) /\ At(sect, d, q).name = e.name)
           /\ \A d \in dirs : \A q \in Pos : home[d].top = home[c].top /\ (home[d].nr < home[c].nr \/ (d = c /\ Before(q, p))) =>
                At(sect, d, q).name # END
    BY DEF Absent
  <2> QED
    BY <1>2, <2>1, <2>2, FileEntryTree
<1>4. Append(home[c].path, Wanted) = path /\ call # "mkdir"
  <2>1. comp = Len(path) /\ call # "mkdir"
    BY DEF TreeOK, WalkOK
  <2>2. home[c].path = SubSeq(path, 1, comp - 1) /\ comp \in 1 .. Len(path) /\ path \in Seq(Name)
    BY DirFacts
  <2>3. Append(home[c].path, Wanted) = SubSeq(path, 1, Len(path))
    BY <2>1, <2>2, PathUpTo DEF Wanted
  <2> QED
    BY <2>1, <2>2, <2>3, SubSeqFull
<1>5. acked' = [acked EXCEPT ![path] = SubSeq(data, 1, NewSize)] /\ pc' = "idle"
  BY <1>4 DEF Return
<1>6. ASSUME NEW q \in DOMAIN acked', acked'[q] # NoAck
      PROVE  Stored(sect', dirs, home, q, acked'[q])
  <2>1. CASE q = path
    <3> DEFINE x == SubSeq(data, 1, NewSize)
    <3>1. acked'[q] = x
      BY <1>5, <1>6, <2>1
    <3>2. At(sect', c, p) = e
      BY <1>2
    <3>3. Len(x) = NewSize /\ \A i \in 0 .. Spc - 1 : i < NewSize => sect[target_cl][i] = Raw(x[i + 1])
      BY DataStored
    <3> HIDE DEF x
    <3>4. sect'[target_cl] = sect[target_cl]
      BY <1>1, <1>2
    <3>5. \A i \in 0 .. Spc - 1 : i < Len(x) => sect'[At(sect', c, p).clus][i] = Raw(x[i + 1])
      BY <3>2, <3>3, <3>4
    <3>6. /\ LiveCell(At(sect', c, p)) /\ At(sect', c, p).attr = "file"
          /\ Append(home[c].path, At(sect', c, p).name) = q
          /\ At(sect', c, p).clus # 0 /\ At(sect', c, p).size = Len(x)
      BY <1>1, <1>4, <2>1, <3>2, <3>3
    <3>7. Stored(sect', dirs, home, q, x)
      BY <3>5, <3>6, Zenon DEF Stored
    <3> QED
      BY <3>1, <3>7
  <2>2. CASE q # path
    <3>1. q \in DOMAIN acked /\ acked'[q] = acked[q]
      BY <1>5, <1>6, <2>2
    <3>2. Stored(sect, dirs, home, q, acked[q])
      BY <1>6, <3>1 DEF TreeOK, Kept
    <3>3. PICK d \in dirs, k \in Pos :
            /\ LiveCell(At(sect, d, k)) /\ At(sect, d, k).attr = "file" /\ Append(home[d].path, At(sect, d, k).name) = q
            /\ At(sect, d, k).clus # 0 /\ At(sect, d, k).size = Len(acked[q])
            /\ \A i \in 0 .. Spc - 1 : i < Len(acked[q]) => sect[At(sect, d, k).clus][i] = Raw(acked[q][i + 1])
      BY <3>2 DEF Stored
    <3>4. ~(d = c /\ k = p)
      BY <1>4, <2>2, <3>3
    <3>5. At(sect', d, k) = At(sect, d, k)
      BY <1>2, <3>4
    <3>6. At(sect, d, k).clus \in Cluster /\ At(sect, d, k).clus \notin dirs
      <4>1. At(sect, d, k) \in Cell
        BY <1>1, AtType
      <4> QED
        BY <1>1, <3>3, <4>1 DEF Cell, Sound, DirsSeparate
    <3>7. sect'[At(sect, d, k).clus] = sect[At(sect, d, k).clus]
      BY <1>2, <3>6
    <3> QED
      BY <3>1, <3>3, <3>5, <3>7 DEF Stored
  <2> QED
    BY <2>1, <2>2
<1>7. Kept'
  BY <1>3, <1>6 DEF Kept
<1> QED
  BY <1>5, <1>7 DEF TreeOK

LEMMA UpdateEntryTree ==
  ASSUME IInv, TreeOK, UpdateEntry
  PROVE  TreeOK'
<1> DEFINE e == [FoundCell EXCEPT !.clus = target_cl, !.size = NewSize]
<1>1. /\ pc = "entry" /\ UNCHANGED <<fat, dirs, home>> /\ Return(TRUE)
      /\ sect' = Put(sect, at[1], at[2], e)
  BY DEF UpdateEntry, FoundCell
<1>2. found /\ LiveCell(FoundCell) /\ FoundCell.attr = "file"
  BY <1>1 DEF IInv, FoundOK
<1>3. FoundCell.name = Wanted /\ home[at[1]].top = dir_cl
  BY <1>1, <1>2 DEF TreeOK, SearchOK
<1>4. /\ e \in Cell /\ LiveCell(e) /\ e.attr = "file" /\ e.clus = target_cl
      /\ e.size = NewSize /\ e.name = Wanted
  BY <1>2, <1>3, DiskTypes, DataFacts DEF IInv, Cell, LiveCell
<1> HIDE DEF e
<1>5. at[1] \in dirs /\ at[2] \in Pos
  BY DiskTypes
<1>6. LiveCell(At(sect, at[1], at[2])) /\ At(sect, at[1], at[2]).attr = "file" /\ At(sect, at[1], at[2]).name = Wanted
  BY <1>2, <1>3 DEF FoundCell
<1> QED
  BY <1>1, <1>3, <1>4, <1>5, <1>6, FileEntryKept

\* The first free slot of a directory: nothing before it is free.
LEMMA SlotTree ==
  ASSUME IInv, TreeOK, NEW l \in {"slot", "eslot"}, pc = l, FreeSlots(cl) # {}
  PROVE  LET p == First(FreeSlots(cl))
         IN  /\ p \in Pos /\ At(sect, cl, p).name \in {END, DEL} /\ ~LiveCell(At(sect, cl, p))
             /\ home[cl].top = dir_cl /\ ~found /\ Absent
             /\ \A d \in dirs : \A q \in Pos :
                  home[d].top = dir_cl /\ (home[d].nr < home[cl].nr \/ (d = cl /\ Before(q, p))) =>
                    At(sect, d, q).name # END
<1> DEFINE p == First(FreeSlots(cl))
<1>1. p \in FreeSlots(cl) /\ p \in Pos /\ \A q \in FreeSlots(cl) : p = q \/ Before(p, q)
  BY FirstLeast DEF FreeSlots
<1> HIDE DEF p
<1>2. At(sect, cl, p).name \in {END, DEL} /\ ~LiveCell(At(sect, cl, p))
  BY <1>1, NamesAssumption DEF FreeSlots, LiveCell
<1>3. /\ home[cl].top = dir_cl /\ ~found /\ Absent
      /\ \A d \in dirs : \A q \in Pos :
           home[d].top = dir_cl /\ home[d].nr < home[cl].nr => At(sect, d, q).name \notin {END, DEL}
  BY DEF TreeOK, WalkOK, SearchOK
<1>4. ASSUME NEW q \in Pos, Before(q, p), At(sect, cl, q).name = END PROVE FALSE
  <2>1. q \in FreeSlots(cl)
    BY <1>4 DEF FreeSlots
  <2> QED
    BY <1>1, <1>4, <2>1, BeforeStrict
<1>5. \A d \in dirs : \A q \in Pos :
        home[d].top = dir_cl /\ (home[d].nr < home[cl].nr \/ (d = cl /\ Before(q, p))) => At(sect, d, q).name # END
  BY <1>3, <1>4
<1> QED
  BY <1>1, <1>2, <1>3, <1>5 DEF p

LEMMA WriteFileSlotTree ==
  ASSUME IInv, TreeOK, WriteSlot("slot")
  PROVE  TreeOK'
<1> DEFINE p == First(FreeSlots(cl))
           e == Entry(Wanted, "file", target_cl, NewSize)
<1>1. /\ pc = "slot" /\ UNCHANGED <<fat, dirs, home>> /\ Return(TRUE) /\ FreeSlots(cl) # {}
      /\ sect' = Put(sect, cl, p, e)
  BY DEF WriteSlot
<1>2. /\ p \in Pos /\ ~LiveCell(At(sect, cl, p)) /\ home[cl].top = dir_cl /\ Absent
      /\ \A d \in dirs : \A q \in Pos :
           home[d].top = dir_cl /\ (home[d].nr < home[cl].nr \/ (d = cl /\ Before(q, p))) => At(sect, d, q).name # END
  BY <1>1, SlotTree
<1>3. e \in Cell /\ LiveCell(e) /\ e.attr = "file" /\ e.clus = target_cl /\ e.size = NewSize /\ e.name = Wanted
  <2>1. Wanted \in Name /\ Wanted \in CellName /\ NewSize \in Nat /\ target_cl \in Cluster
    BY <1>1, WantedName, DataFacts, DiskTypes DEF IInv
  <2> QED
    BY <2>1, EntryType DEF Entry, LiveCell
<1> HIDE DEF p, e
<1>4. cl \in dirs
  BY DiskTypes
<1> QED
  BY <1>1, <1>2, <1>3, <1>4, FileEntryKept

\* A cluster filled by ensure_directory: the dots, then nothing but END.
LEMMA NewDirEnds ==
  ASSUME IInv, pc = "eslot"
  PROVE  \A q, r \in Pos : At(sect, target_cl, q).name = END /\ Before(q, r) => At(sect, target_cl, r).name = END
<1>1. \A i \in 0 .. Spc - 1 : sect[target_cl][i] = DirSector(i)
  BY DEF IInv, TargetOK
<1>2. ASSUME NEW q \in Pos
      PROVE  At(sect, target_cl, q).name = END <=> ~(q[1] = 0 /\ q[2] < 2)
  <2>1. q[1] \in 0 .. Spc - 1 /\ q[2] \in 0 .. Slots - 1
    BY DEF Pos
  <2>2. At(sect, target_cl, q) = DirSector(q[1])[q[2]]
    BY <1>1, <2>1 DEF At
  <2>3. CASE q[1] = 0 /\ q[2] = 0
    BY <2>1, <2>2, <2>3, NamesAssumption DEF DirSector, DotSector, Entry
  <2>4. CASE q[1] = 0 /\ q[2] = 1
    BY <2>1, <2>2, <2>4, NamesAssumption DEF DirSector, DotSector, Entry
  <2>5. CASE q[1] = 0 /\ q[2] \notin {0, 1}
    <3>1. DotSector[q[2]] = Free(END)
      BY <2>1, <2>5 DEF DotSector
    <3> QED
      BY <2>1, <2>2, <2>5, <3>1, GeometryAssumption DEF DirSector, Free
  <2>6. CASE q[1] # 0
    BY <2>1, <2>2, <2>6 DEF DirSector, Zeroes, Free
  <2> QED
    BY <2>3, <2>4, <2>5, <2>6
<1>3. \A q, r \in Pos : Before(q, r) /\ r[1] = 0 /\ r[2] < 2 => q[1] = 0 /\ q[2] < 2
  BY GeometryAssumption DEF Before, Pos
<1> QED
  BY <1>2, <1>3

\* The entry of a new directory: no file is touched.
LEMMA DirEntryKept ==
  ASSUME IInv, TreeOK, WriteSlot("eslot"), acked' = acked
  PROVE  home' \in [Cluster -> Places] /\ Kept'
<1> DEFINE p == First(FreeSlots(cl))
           e == Entry(Wanted, "dir", target_cl, 0)
<1>1. /\ pc = "eslot" /\ fat' = fat /\ dirs' = dirs \cup {target_cl} /\ FreeSlots(cl) # {}
      /\ home' = [home EXCEPT ![target_cl] = Place(target_cl, 0, Append(home[dir_cl].path, Wanted))]
      /\ sect' = Put(sect, cl, p, e)
  BY DEF WriteSlot
<1>2. /\ p \in Pos /\ ~LiveCell(At(sect, cl, p)) /\ home[cl].top = dir_cl /\ Absent
      /\ \A d \in dirs : \A q \in Pos :
           home[d].top = dir_cl /\ (home[d].nr < home[cl].nr \/ (d = cl /\ Before(q, p))) => At(sect, d, q).name # END
  BY <1>1, SlotTree
<1>3. Wanted \in Name /\ Wanted \in CellName /\ Wanted # END
  BY <1>1, WantedName
<1>4. /\ fat \in Table /\ sect \in Area /\ dirs \in SUBSET Cluster /\ Sound(fat, sect, dirs)
      /\ target_cl \in Cluster /\ target_cl \notin dirs /\ cl \in dirs /\ dir_cl \in dirs
      /\ home \in [Cluster -> Places] /\ Kept
  BY <1>1, DiskTypes, TargetOutside DEF TreeOK
<1>5. e \in Cell /\ LiveCell(e) /\ e.attr = "dir" /\ e.clus = target_cl /\ e.name = Wanted
  BY <1>3, <1>4, EntryType DEF Entry, LiveCell
<1> HIDE DEF p, e
<1>6. home[cl].path = home[dir_cl].path /\ home[cl].path \in Seq(Name)
  BY <1>2, <1>4, HomeFacts
<1>7. home' \in [Cluster -> Places]
  <2>1. Append(home[dir_cl].path, Wanted) \in Seq(Name)
    BY <1>3, <1>6, AppendProperties
  <2>2. Place(target_cl, 0, Append(home[dir_cl].path, Wanted)) \in Places
    BY <1>4, <2>1 DEF Place, Places
  <2> QED
    BY <1>1, <1>4, <2>2
<1>8. /\ \A d \in Cluster : \A q \in Pos : At(sect', d, q) = IF d = cl /\ q = p THEN e ELSE At(sect, d, q)
      /\ \A d \in Cluster : d # cl => sect'[d] = sect[d]
  <2>1. \A d \in Cluster : \A q \in Pos :
           At(Put(sect, cl, p, e), d, q) = IF d = cl /\ q = p THEN e ELSE At(sect, d, q)
    BY <1>2, <1>4, <1>5, PutAt
  <2>2. \A d \in Cluster : d # cl => sect'[d] = sect[d]
    BY <1>1, <1>4 DEF Put, Area
  <2> QED
    BY <1>1, <2>1, <2>2
<1>9. Tree(fat, sect', dirs \cup {target_cl}, home')
  <2>1. Fresh(fat, sect, dirs, target_cl) /\ Tree(fat, sect, dirs, home)
    BY <1>1, <1>4 DEF IInv, TargetOK, Kept
  <2>2. \A q \in Pos : ~LiveCell(At(sect, target_cl, q))
    BY <1>1, NewDirCells
  <2>3. \A q, r \in Pos : At(sect, target_cl, q).name = END /\ Before(q, r) => At(sect, target_cl, r).name = END
    BY <1>1, NewDirEnds
  <2>4. /\ \A d \in dirs : \A q \in Pos : home[d].top = home[cl].top =>
             ~(LiveCell(At(sect, d, q)) /\ At(sect, d, q).name = e.name)
        /\ \A d \in dirs : \A q \in Pos : home[d].top = home[cl].top /\ (home[d].nr < home[cl].nr \/ (d = cl /\ Before(q, p))) =>
             At(sect, d, q).name # END
    BY <1>2, <1>5 DEF Absent
  <2>5. home' = [home EXCEPT ![target_cl] = Place(target_cl, 0, Append(home[cl].path, e.name))]
    BY <1>1, <1>5, <1>6
  <2>6. e.name # END
    BY <1>3, <1>5
  <2>7. RoomFor(sect, dirs, home, cl, p, e) /\ EmptyDir(sect, target_cl)
    BY <1>2, <2>2, <2>3, <2>4 DEF RoomFor, EmptyDir
  <2>8. DirCell(e, target_cl) /\ Written(sect, sect', cl, p, e)
    BY <1>5, <1>8, <2>6 DEF DirCell, Written
  <2> QED
    BY <1>2, <1>4, <2>1, <2>5, <2>7, <2>8, DirEntryTree
<1>10. ASSUME NEW q \in DOMAIN acked, acked[q] # NoAck
       PROVE  Stored(sect', dirs \cup {target_cl}, home', q, acked[q])
  <2>1. PICK d \in dirs, k \in Pos :
          /\ LiveCell(At(sect, d, k)) /\ At(sect, d, k).attr = "file" /\ Append(home[d].path, At(sect, d, k).name) = q
          /\ At(sect, d, k).clus # 0 /\ At(sect, d, k).size = Len(acked[q])
          /\ \A i \in 0 .. Spc - 1 : i < Len(acked[q]) => sect[At(sect, d, k).clus][i] = Raw(acked[q][i + 1])
    BY <1>4, <1>10 DEF Kept, Stored
  <2>2. At(sect', d, k) = At(sect, d, k)
    BY <1>2, <1>4, <1>8, <2>1
  <2>3. At(sect, d, k).clus \in Cluster /\ At(sect, d, k).clus \notin dirs
    <3>1. At(sect, d, k) \in Cell
      BY <1>4, AtType
    <3> QED
      BY <1>4, <2>1, <3>1 DEF Cell, Sound, DirsSeparate
  <2>4. sect'[At(sect, d, k).clus] = sect[At(sect, d, k).clus]
    BY <1>4, <1>8, <2>3
  <2>5. home'[d] = home[d] /\ d \in dirs \cup {target_cl}
    BY <1>1, <1>4
  <2> QED
    BY <2>1, <2>2, <2>4, <2>5 DEF Stored
<1>11. Kept'
  BY <1>1, <1>9, <1>10 DEF Kept
<1> QED
  BY <1>7, <1>11

LEMMA WriteDirSlotTree ==
  ASSUME IInv, TreeOK, WriteSlot("eslot")
  PROVE  TreeOK'
<1>1. /\ pc = "eslot" /\ dirs' = dirs \cup {target_cl} /\ WalkOK
      /\ home' = [home EXCEPT ![target_cl] = Place(target_cl, 0, Append(home[dir_cl].path, Wanted))]
  BY DEF WriteSlot, TreeOK
<1>2. CASE ~More
  <2>1. call = "mkdir" /\ Return(TRUE)
    BY <1>1, <1>2 DEF WalkOK, WriteSlot
  <2>2. acked' = acked /\ pc' = "idle"
    BY <2>1 DEF Return
  <2> QED
    BY <2>2, DirEntryKept DEF TreeOK
<1>3. CASE More
  <2>1. /\ comp' = comp + 1 /\ dir_cl' = target_cl /\ cl' = target_cl
        /\ UNCHANGED <<acked, call, path, data, found, at, target_cl, s>>
        /\ pc' = IF call = "mkdir" THEN "efind" ELSE "find"
    BY <1>3 DEF WriteSlot, Goto
  <2>2. home' \in [Cluster -> Places] /\ Kept'
    BY <2>1, DirEntryKept
  <2>3. home[dir_cl].path = SubSeq(path, 1, comp - 1) /\ comp \in 1 .. Len(path) /\ path \in Seq(Name)
    BY <1>1, DiskTypes, DirFacts
  <2>4. home'[target_cl] = Place(target_cl, 0, Append(home[dir_cl].path, Wanted))
    BY <1>1, DiskTypes DEF TreeOK
  <2>5. /\ home'[target_cl].top = target_cl /\ home'[target_cl].nr = 0
        /\ home'[target_cl].path = SubSeq(path, 1, comp)
    BY <2>3, <2>4, PathUpTo DEF Place, Wanted
  <2>6. comp' - 1 = comp
    BY <2>1, <2>3
  <2>7. WalkOK'
    BY <1>1, <2>1, <2>5, <2>6 DEF WalkOK
  <2>8. \A c \in dirs' : home'[c].nr \in Nat
    BY <1>1, <2>2, DiskTypes DEF Places
  <2>9. AbsentBefore(home[cl].nr)'
    BY <2>1, <2>5, <2>8 DEF AbsentBefore
  <2>10. SearchOK' /\ DataOK'
    BY <2>1, <2>9 DEF SearchOK, DataOK
  <2> QED
    BY <2>2, <2>7, <2>10 DEF TreeOK
<1> QED
  BY <1>2, <1>3

LEMMA NextSlotTree ==
  ASSUME IInv, TreeOK, NEW l \in {"slot", "eslot"}, NextSlot(l)
  PROVE  TreeOK'
<1>1. CASE Fail
  BY <1>1, FailTree
<1>2. CASE /\ fat[cl] \in Cluster /\ cl' = fat[cl] /\ Goto(l)
           /\ UNCHANGED <<disk, call, path, comp, data, dir_cl, found, at, target_cl, s>>
  <2>1. /\ UNCHANGED <<pc, fat, sect, dirs, home, acked, call, path, comp, data, dir_cl, found, at, target_cl, s>>
        /\ cl' = fat[cl] /\ pc = l /\ FreeSlots(cl) = {}
    BY <1>2 DEF NextSlot, Goto, disk
  <2>2. WalkOK /\ SearchOK /\ DataOK /\ Kept /\ home \in [Cluster -> Places] /\ cl \in dirs
    BY <2>1, DiskTypes DEF TreeOK
  <2>3. home[cl].top = dir_cl /\ home[cl].nr \in Nat
    BY <2>1, <2>2, HomeFacts DEF WalkOK
  <2>4. home[fat[cl]] = Place(home[cl].top, home[cl].nr + 1, home[cl].path)
    BY <1>2, <2>2 DEF Kept, Tree, Chained
  <2>5. home[fat[cl]].top = dir_cl /\ home[fat[cl]].nr = home[cl].nr + 1
    BY <2>3, <2>4 DEF Place
  <2>6. ASSUME NEW c \in dirs, NEW p \in Pos, home[c].top = dir_cl, home[c].nr < home[cl].nr + 1
        PROVE  At(sect, c, p).name \notin {END, DEL}
    <3>1. home[c].nr \in Nat
      BY HomeFacts
    <3>2. CASE home[c].nr < home[cl].nr
      BY <2>1, <2>2, <2>6, <3>2 DEF SearchOK
    <3>3. CASE home[c].nr = home[cl].nr
      <4>1. c = cl
        BY <2>2, <2>3, <2>6, <3>3 DEF Kept, Tree, Chained
      <4> QED
        BY <2>1, <4>1 DEF FreeSlots
    <3> QED
      BY <2>3, <2>6, <3>1, <3>2, <3>3
  <2>7. WalkOK'
    BY <2>1, <2>2, <2>5 DEF WalkOK, More
  <2>8. Absent' /\ ~found'
    BY <2>1, <2>2 DEF SearchOK, Absent, Wanted
  <2>9. SearchOK'
    BY <2>1, <2>5, <2>6, <2>8 DEF SearchOK
  <2>10. DataOK'
    <3>1. \A i : ChunkSector(i)' = ChunkSector(i)
      BY <2>1 DEF ChunkSector, NewSize
    <3> QED
      BY <2>1, <2>2, <3>1 DEF DataOK
  <2> QED
    BY <2>1, <2>2, <2>7, <2>9, <2>10, KeptSame DEF TreeOK
<1> QED
  BY <1>1, <1>2 DEF NextSlot

LEMMA StutterTree ==
  ASSUME TreeOK, UNCHANGED vars
  PROVE  TreeOK'
<1>1. UNCHANGED <<fat, sect, dirs, home, pc, call, path, comp, data, dir_cl, cl, found, at, target_cl, s, acked>>
  BY DEF vars, disk, frame
<1>2. FoundCell' = FoundCell /\ Wanted' = Wanted /\ \A i : ChunkSector(i)' = ChunkSector(i)
  BY <1>1 DEF FoundCell, Wanted, ChunkSector, NewSize
<1>3. WalkOK => WalkOK'
  BY <1>1 DEF WalkOK, More
<1>4. AbsentBefore(home[cl].nr) => AbsentBefore(home[cl].nr)'
  BY <1>1, <1>2 DEF AbsentBefore
<1>5. Absent => Absent'
  BY <1>1, <1>2 DEF Absent
<1>6. SearchOK => SearchOK'
  BY <1>1, <1>2, <1>4, <1>5 DEF SearchOK
<1>7. DataOK => DataOK'
  BY <1>1, <1>2 DEF DataOK
<1> QED
  BY <1>1, <1>3, <1>6, <1>7, KeptSame DEF TreeOK

LEMMA InitTree == Init => TreeInv
<1> SUFFICES ASSUME Init PROVE TreeInv
  OBVIOUS
<1>1. PICK im \in Images : fat = im.fat /\ sect = im.sect /\ dirs = im.dirs /\ home = im.home /\ acked = im.files
  BY DEF Init
<1>2. /\ Tree(im.fat, im.sect, im.dirs, im.home)
      /\ \A p \in NamePaths : im.files[p] # NoAck => Stored(im.sect, im.dirs, im.home, p, im.files[p])
      /\ im \in Image
  BY HostAssumption, ImagesAssumption
<1>3. DOMAIN acked = NamePaths /\ home \in [Cluster -> Places]
  BY <1>1, <1>2 DEF Image
<1>4. Kept
  BY <1>1, <1>2, <1>3 DEF Kept
<1>5. pc = "idle" /\ rfaults = MaxReadFaults /\ MaxReadFaults \in Nat
  BY GeometryAssumption DEF Init
<1> QED
  BY <1>3, <1>4, <1>5 DEF TreeInv, TreeOK

\* A step is a failed read, or the number of failed reads stays.
LEMMA ReadFaults ==
  ASSUME TypeOK, [Next]_vars
  PROVE  ReadFault \/ rfaults' = rfaults
BY DEF Next, CallStep, Begin, FindStop, FindNext, FindReadFault, DecideInner, DecideLast, DecideEnsure, Alloc,
       AllocFail, WriteData, WriteDataFail, MarkEoc, UpdateEntry, UpdateEntryFail, WriteDirSector,
       WriteDirSectorFail, MarkDirEoc, WriteSlot, NextSlot, SlotFail, PowerLoss, NoFault, WriteFault, fault, vars

LEMMA NextTree == IInv /\ TreeInv /\ [Next]_vars => TreeInv'
<1> SUFFICES ASSUME IInv, TreeInv, [Next]_vars PROVE TreeInv'
  OBVIOUS
<1>1. /\ rfaults' <= MaxReadFaults
      /\ AllRead' => AllRead /\ ~ReadFault
  <2>1. rfaults \in Nat /\ MaxReadFaults \in Nat /\ rfaults <= MaxReadFaults
    BY GeometryAssumption DEF IInv, TypeOK, TreeInv
  <2>2. rfaults' = rfaults \/ (rfaults' = rfaults - 1 /\ ReadFault)
    BY ReadFaults DEF IInv, ReadFault
  <2>3. ReadFault => rfaults' = rfaults - 1
    BY DEF ReadFault
  <2> QED
    BY <2>1, <2>2, <2>3 DEF AllRead
<1>2. ASSUME TreeOK, ~ReadFault PROVE TreeOK'
  <2>1. ASSUME NEW c \in Calls, NEW p \in Paths, NEW d \in Contents, Begin(c, p, d) PROVE TreeOK'
    BY <1>2, <2>1, BeginTree
  <2>2. ASSUME NEW l \in {"find", "efind"}, FindStop(l) \/ FindNext(l) \/ FindReadFault(l) PROVE TreeOK'
    BY <1>2, <2>2, FindStopTree, FindNextTree DEF FindReadFault
  <2>3. CASE DecideInner \/ DecideLast \/ DecideEnsure
    BY <1>2, <2>3, DecideInnerTree, DecideLastTree, DecideEnsureTree
  <2>4. ASSUME NEW l \in {"alloc", "ealloc"}, Alloc(l) \/ AllocFail(l) PROVE TreeOK'
    BY <1>2, <2>4, AllocTree, FailTree DEF AllocFail
  <2>5. CASE WriteData \/ WriteDataFail \/ MarkEoc \/ UpdateEntry \/ UpdateEntryFail
    BY <1>2, <2>5, WriteDataTree, MarkTree, UpdateEntryTree, FailTree DEF WriteDataFail, UpdateEntryFail
  <2>6. CASE WriteDirSector \/ WriteDirSectorFail \/ MarkDirEoc
    BY <1>2, <2>6, WriteDirSectorTree, MarkTree, FailTree DEF WriteDirSectorFail
  <2>7. ASSUME NEW l \in {"slot", "eslot"}, WriteSlot(l) \/ NextSlot(l) \/ SlotFail(l) PROVE TreeOK'
    BY <1>2, <2>7, WriteFileSlotTree, WriteDirSlotTree, NextSlotTree, FailTree DEF SlotFail
  <2>8. CASE PowerLoss
    BY <1>2, <2>8, FailTree DEF PowerLoss
  <2>9. CASE UNCHANGED vars
    BY <1>2, <2>9, StutterTree
  <2> QED
    BY <2>1, <2>2, <2>3, <2>4, <2>5, <2>6, <2>7, <2>8, <2>9 DEF Next, CallStep
<1> QED
  BY <1>1, <1>2 DEF TreeInv

\* What the search of a directory has told stays true until its result is
\* used, and the names form a tree.
THEOREM Fat32TreeInvariant == Spec => []TreeInv
BY Fat32Invariant, InitTree, NextTree, PTL DEF Spec

\* As long as no read has failed, no name is twice in a directory and every
\* path holds what the last successful write of it was given, whatever writes
\* fail and wherever power is lost.
THEOREM Fat32FilesKept == Spec => []FilesKept
<1>1. TreeInv => FilesKept
  BY DEF TreeInv, TreeOK, FilesKept
<1> QED
  BY <1>1, Fat32TreeInvariant, PTL
===========================================================================
