------------------------------ MODULE BootFile ------------------------------
(***************************************************************************)
(* How the boot loader opens and reads a file: the URI (lib/uri.c), the     *)
(* handle (fs/file.s2.c), FAT and ISO 9660 volumes (fs/fat32.s2.c,          *)
(* fs/iso9660.s2.c) and TFTP (pxe/tftp.s2.c).                               *)
(*                                                                          *)
(* A name is a record of its pieces of 13 characters, the same in upper     *)
(* case, and its 8.3 form ("" when it has none).  A cell is a directory     *)
(* entry, or as much of a file as takes its place.                          *)
(***************************************************************************)
EXTENDS Integers, Sequences, FiniteSets, SequencesExt

CONSTANTS
  Vols,         \* the volumes, with the files each has: [optical, index, part, guid, partguid, fs, tree]
  Server,       \* the files of the TFTP server
  Uris,
  Systems,      \* [boot, uefi, nocase, strict]: the boot volume and the configuration
  EntrySize,    \* bytes of a cell (32)
  LfnEntries,   \* FAT32_LFN_MAX_ENTRIES
  IsoSector,    \* ISO9660_SECTOR_SIZE, in cells
  Mtu,          \* cells in a packet
  MaxCalls

ASSUME BootFileAssumption == {EntrySize, LfnEntries, IsoSector, Mtu, MaxCalls} \subseteq Nat \ {0}

VARIABLES
  sys,
  phase,        \* idle, tftp, hash, ask, open, null, panic, menu, closed, wild
  uri,          \* the one being opened: [res, root, path, hash]
  fd,           \* the handle: [size, memfile, readall, data, src, buf]
  blocks,       \* blocks of memory: what -> [type, high]
  misfreed,     \* a block was freed that was not allocated
  out,          \* the buffer handed out, or NoBuf
  asked,        \* the user was asked about a hash
  want,         \* history: what the first freadall of a caller asked for
  told,         \* cells read last, or <<>>
  calls

bfvars == <<sys, phase, uri, fd, blocks, misfreed, out, asked, want, told, calls>>

NoFile == [found |-> FALSE, size |-> 0, cells |-> <<>>]
NoBuf == "none"
NoWant == [type |-> "none", high |-> FALSE]
NoHash == [k |-> "none", cells |-> <<>>]

----------------------------------------------------------------------------
(* FAT.  A volume is [kind, sig, spc, bps, sects, reserved, fats, spf16,    *)
(* spf32, rootents, rootcl, fat, nibble, sect].                             *)

RootSects(v) == (v.rootents * EntrySize + v.bps - 1) \div v.bps
Spf16or32(v) == IF v.spf16 # 0 THEN v.spf16 ELSE v.spf32
FatType(v) ==
  LET clusters == (v.sects - (v.reserved + v.fats * Spf16or32(v) + RootSects(v))) \div v.spc
  IN  IF clusters < 4085 THEN 12 ELSE IF clusters < 65525 THEN 16 ELSE 32

fat32_init_context(v) ==
  LET type  == FatType(v)
      root  == v.reserved + v.fats * (IF type = 32 THEN v.spf32 ELSE v.spf16)
  IN  [ok |-> v.sig /\ v.spc \in {1, 2, 4, 8, 16, 32, 64, 128} /\ v.bps \in {512, 1024, 2048, 4096},
       type |-> type, root |-> root, start |-> IF type = 32 THEN root ELSE root + RootSects(v)]

\* The table of FAT12 is in groups of four bits, three to an entry.
read_cluster_from_map(v, c) ==
  LET b == 2 * (c + c \div 2)
      w == IF c % 2 = 0 THEN b ELSE b + 1
  IN  IF FatType(v) = 12 THEN v.nibble[w] + 16 * v.nibble[w + 1] + 256 * v.nibble[w + 2]
      ELSE IF FatType(v) = 16 THEN v.fat[c] ELSE v.fat[c] % 268435456

ClusterLimit(v) == CASE FatType(v) = 12 -> 4079 [] FatType(v) = 16 -> 65519 [] OTHER -> 268435439
RECURSIVE cache_cluster_chain(_, _)
cache_cluster_chain(v, c) ==
  IF c < 2 \/ c > ClusterLimit(v) THEN <<>> ELSE <<c>> \o cache_cluster_chain(v, read_cluster_from_map(v, c))

PerSector(v) == v.bps \div EntrySize
NoEntry == [k |-> "end"]
CellAt(v, lba, i) == IF lba \in DOMAIN v.sect /\ i < Len(v.sect[lba]) THEN v.sect[lba][i + 1] ELSE NoEntry

read_cluster_chain(v, chain, loc, count) ==
  LET block == v.spc * PerSector(v)
      cell(p) == LET o == p % block
                 IN  CellAt(v, fat32_init_context(v).start + (chain[p \div block + 1] - 2) * v.spc + o \div PerSector(v), o % PerSector(v))
  IN  [i \in 1 .. count |-> cell(loc + i - 1)]

\* The cells of the root of FAT12 and FAT16, and of any other directory.
FixedRoot(v) == [i \in 1 .. v.rootents |-> CellAt(v, fat32_init_context(v).root + (i - 1) \div PerSector(v), (i - 1) % PerSector(v))]
DirCells(v, first) ==
  LET chain == cache_cluster_chain(v, first)
  IN  read_cluster_chain(v, chain, 0, Len(chain) * v.spc * PerSector(v))

\* A long name ends at the first piece with a terminator, or before the blanks.
Blank13 == [piece |-> " ", up |-> " ", full |-> TRUE]
Assembled(buf) ==
  LET ends == {i \in DOMAIN buf : ~buf[i].full}
      used == {i \in DOMAIN buf : buf[i].piece # " "}
      len  == IF ends # {} THEN CHOOSE i \in ends : \A j \in ends : i <= j
              ELSE CHOOSE i \in used \cup {0} : \A j \in used : j <= i
  IN  SubSeq(buf, 1, len)
SameLong(pieces, name, nocase) ==
  IF nocase THEN [i \in DOMAIN pieces |-> pieces[i].up] = name.up ELSE [i \in DOMAIN pieces |-> pieces[i].piece] = name.long

\* fat32_open_in: the entry after a long name, or the one with the 8.3 name.
RECURSIVE ScanDir(_, _, _, _, _)
ScanDir(cells, i, lfn, name, nocase) ==
  LET c   == cells[i]
      b0  == IF c.last THEN [j \in 1 .. LfnEntries |-> Blank13] ELSE lfn
      b1  == [b0 EXCEPT ![c.seq] = [piece |-> c.piece, up |-> c.up, full |-> c.full]]
      on(b) == ScanDir(cells, i + 1, b, name, nocase)
  IN  IF i > Len(cells) \/ c.k = "end" THEN NoEntry
      ELSE IF c.k = "lfn"
      THEN IF c.seq \notin 1 .. LfnEntries THEN on(b0)
           ELSE IF c.seq = 1 /\ SameLong(Assembled(b1), name, nocase) THEN cells[i + 1] ELSE on(b1)
      ELSE IF c.k = "file" /\ name.short # "" /\ c.name = name.short THEN c ELSE on(lfn)
fat32_open_in(cells, name, nocase) == ScanDir(cells, 1, [j \in 1 .. LfnEntries |-> [Blank13 EXCEPT !.full = FALSE]], name, nocase)

\* The volume's label is its first entry of that kind.
FatRoot(v) == IF fat32_init_context(v).type = 32 THEN DirCells(v, v.rootcl) ELSE FixedRoot(v)
LabelIn(cs) ==
  LET ls == {i \in DOMAIN cs : cs[i].k = "label" /\ \A j \in 1 .. i : cs[j].k # "end"}
  IN  IF ls = {} THEN "" ELSE cs[CHOOSE i \in ls : \A j \in ls : i <= j].name
fat32_get_label(v) == LabelIn(IF v.kind = "fat" /\ fat32_init_context(v).ok THEN FatRoot(v) ELSE <<>>)

RECURSIVE FatWalk(_, _, _, _)
FatWalk(v, cells, path, nocase) ==
  LET e == fat32_open_in(cells, Head(path), nocase)
      chain == cache_cluster_chain(v, e.first)
  IN  IF e = NoEntry THEN NoFile
      ELSE IF Len(path) > 1 THEN (IF chain = <<>> THEN NoFile ELSE FatWalk(v, DirCells(v, e.first), Tail(path), nocase))
      ELSE [found |-> TRUE, size |-> e.size, cells |-> IF chain = <<>> THEN <<>> ELSE read_cluster_chain(v, chain, 0, e.size)]
fat32_open(v, path, nocase) == IF v.kind = "fat" /\ fat32_init_context(v).ok THEN FatWalk(v, FatRoot(v), path, nocase) ELSE NoFile

----------------------------------------------------------------------------
(* ISO 9660.  A volume is [kind, sig, desc, extent]: the descriptors from   *)
(* sector 16 on, and the cells of each extent.  An entry takes len cells; a *)
(* directory's sectors are filled up with pads.                             *)

\* iso9660_find_PVD: the first primary descriptor, before the terminator.
RECURSIVE FindPVD(_, _)
FindPVD(desc, i) == IF desc[i].type = "primary" THEN desc[i] ELSE IF desc[i].type = "terminator" THEN NoEntry ELSE FindPVD(desc, i + 1)

SameIso(e, name, nocase) == IF e.rr /\ ~nocase THEN e.long = name.long ELSE e.up = name.up
RECURSIVE iso9660_find(_, _, _, _)
iso9660_find(cells, size, name, nocase) ==
  LET e == cells[Len(cells) - size + 1]
  IN  IF size = 0 THEN NoEntry
      ELSE IF e.k = "pad" THEN (IF size <= IsoSector THEN NoEntry ELSE iso9660_find(cells, IsoSector * (size \div IsoSector), name, nocase))
      ELSE IF SameIso(e, name, nocase) THEN e ELSE iso9660_find(cells, size - e.len, name, nocase)

IsoCells(v, e) == SubSeq(v.extent[e.first], 1, e.size)
RECURSIVE IsoWalk(_, _, _, _)
IsoWalk(v, cells, path, nocase) ==
  LET e == iso9660_find(cells, Len(cells), Head(path), nocase)
  IN  IF e = NoEntry THEN NoFile
      ELSE IF Len(path) > 1 THEN IsoWalk(v, IsoCells(v, e), Tail(path), nocase)
      ELSE [found |-> TRUE, size |-> e.size, cells |-> IsoCells(v, e)]
iso9660_open(v, path, nocase) == IF v.kind = "iso" /\ v.sig THEN IsoWalk(v, IsoCells(v, FindPVD(v.desc, 1)), path, nocase) ELSE NoFile

----------------------------------------------------------------------------
(* lib/uri.c: which volume, and which file of it.                           *)

\* hash: none, bad (not of 128 characters), or that of some cells.
First(vs) == IF vs = {} THEN 0 ELSE CHOOSE i \in vs : \A j \in vs : i <= j
ByCoord(o, d, p) == First({i \in DOMAIN Vols : Vols[i].optical = o /\ Vols[i].index = d /\ Vols[i].part = p})
ByGuid(g) == First({i \in DOMAIN Vols : g \in {Vols[i].guid, Vols[i].partguid}})
ByLabel(l) == First({i \in DOMAIN Vols : fat32_get_label(Vols[i].fs) = l /\ l # ""})

BootVol == Vols[sys.boot]
uri_volume(u) ==
  CASE u.res = "hdd" -> ByCoord(FALSE, u.root[1], u.root[2])
    [] u.res = "odd" -> ByCoord(TRUE, u.root[1], u.root[2])
    [] u.res = "boot" -> ByCoord(BootVol.optical, BootVol.index, IF u.root = <<>> THEN BootVol.part ELSE u.root[1])
    \* The text of a GUID is read in one byte order and then in the other.
    [] u.res = "guid" -> IF ByGuid(u.root[1]) # 0 THEN ByGuid(u.root[1]) ELSE ByGuid(u.root[2])
    [] u.res = "fslabel" -> ByLabel(u.root[1])
    [] OTHER -> 0

\* What the text of the URI or a number in it cannot be.
Refused(u) ==
  \/ u.hash.k = "bad" \/ u.res \notin {"hdd", "odd", "boot", "guid", "fslabel", "tftp"}
  \/ u.res \in {"hdd", "odd"} /\ u.root[1] = 0
Remote(u) == u.res = "tftp" \/ (u.res = "boot" /\ BootVol.fs.kind = "pxe")

\* fopen: ISO 9660 first, then FAT.
fopen(i, path) ==
  LET v   == Vols[i].fs
      iso == iso9660_open(v, path, sys.nocase)
  IN  IF iso.found THEN iso ELSE fat32_open(v, path, sys.nocase)

----------------------------------------------------------------------------
(* The handle.                                                              *)

LowBlock(type) == [type |-> type, high |-> FALSE]
NoFd == [size |-> 0, memfile |-> FALSE, readall |-> FALSE, data |-> <<>>, src |-> <<>>]

BootFileFrom(systems) ==
  /\ sys \in systems /\ phase = "idle" /\ uri = [res |-> "", root |-> <<>>, path |-> <<>>, hash |-> NoHash] /\ fd = NoFd
  /\ blocks = <<>> /\ misfreed = FALSE /\ out = NoBuf /\ asked = FALSE /\ want = NoWant /\ told = <<>> /\ calls = 0
BootFileInit == BootFileFrom(Systems)

Free(whats) ==
  /\ blocks' = [w \in DOMAIN blocks \ whats |-> blocks[w]]
  /\ misfreed' = (misfreed \/ ~(whats \subseteq DOMAIN blocks))
Stop(p) == phase' = p /\ UNCHANGED <<fd, blocks, misfreed>>
Leave(p, whats) ==
  /\ phase' = p /\ blocks' = [w \in DOMAIN blocks \cup whats |-> IF w \in DOMAIN blocks THEN blocks[w] ELSE LowBlock("loader")]
  /\ UNCHANGED <<fd, misfreed>>

\* What the file systems allocate besides the file, found or not: the root that
\* is kept of an ISO volume and the last directory that was read of it, and the
\* label that every look at a FAT volume makes a copy of.
Besides(v, path) ==
  LET root == IsoCells(v, FindPVD(v.desc, 1))
  IN  IF v.kind = "iso" /\ v.sig
      THEN {"context"} \cup (IF Len(path) > 1 /\ iso9660_find(root, Len(root), Head(path), sys.nocase) # NoEntry THEN {"dir"} ELSE {})
      ELSE IF fat32_get_label(v) # "" THEN {"label"} ELSE {}

\* uri_open up to the volume's answer.  The URI is copied; so is the path, when
\* there is a volume to look at.  A handle of a volume has what the file system
\* keeps of the file.
uri_open(u) ==
  /\ phase = "idle" /\ uri' = u
  /\ \/ Refused(u) /\ Leave("panic", {"uri"})
     \/ ~Refused(u) /\ Remote(u) /\ Leave("tftp", {"uri"})
     \/ /\ ~Refused(u) /\ ~Remote(u)
        /\ \E i \in {uri_volume(u)} : \E f \in {IF i = 0 THEN NoFile ELSE fopen(i, u.path)} :
             \/ i = 0 /\ Leave("null", {"uri"})
             \/ i # 0 /\ ~f.found /\ Leave("null", {"uri", "path"} \cup Besides(Vols[i].fs, u.path))
             \/ /\ f.found
                /\ fd' = [NoFd EXCEPT !.size = f.size, !.src = f.cells]
                /\ blocks' = [w \in {"uri", "path", "handle", "fs"} \cup Besides(Vols[i].fs, u.path) |-> LowBlock("loader")]
                /\ phase' = (IF u.hash = NoHash THEN "open" ELSE "hash") /\ UNCHANGED misfreed
  /\ UNCHANGED <<sys, out, asked, want, told, calls>>

\* tftp_open: the size first, then the file into a buffer of that size, on BIOS
\* through one for packets.  Only UEFI looks whether it was booted over the
\* network; on BIOS the calls then go to an entry point of 0, and fail or do not
\* come back.  The server's answers are external; it sends what it said.
Served(path) == LET fs == {f \in Server : f.path = path} IN IF fs = {} THEN NoFile ELSE CHOOSE f \in fs : TRUE
tftp_open ==
  LET f   == Served(uri.path)
      pxe == BootVol.fs.kind = "pxe"
      new == {"handle", "path", "data"} \cup (IF sys.uefi THEN {} ELSE {"packet"})
  IN  /\ phase = "tftp" /\ ~fd.memfile
      /\ \/ ~(pxe /\ f.found) /\ Stop("null")
         \/ ~pxe /\ ~sys.uefi /\ Stop("wild")
         \* The server does not open it: the handle is freed, the path is not.
         \/ pxe /\ f.found /\ ~sys.uefi /\ Leave("null", {"path"})
         \/ /\ pxe /\ f.found /\ UNCHANGED <<phase, misfreed>>
            /\ fd' = [NoFd EXCEPT !.size = f.size, !.memfile = TRUE]
            /\ blocks' = [w \in DOMAIN blocks \cup new |-> LowBlock("loader")]
      /\ UNCHANGED <<sys, uri, out, asked, want, told, calls>>
\* A packet, of any length up to the one agreed; on UEFI the firmware does it all.
tftp_read(n) ==
  /\ phase = "tftp" /\ fd.memfile /\ Len(fd.data) < fd.size
  /\ n = (IF sys.uefi THEN fd.size ELSE n) /\ Len(fd.data) + n <= fd.size
  /\ fd' = [fd EXCEPT !.data = @ \o SubSeq(Served(uri.path).cells, Len(@) + 1, Len(@) + n)]
  /\ UNCHANGED <<sys, phase, uri, blocks, misfreed, out, asked, want, told, calls>>
\* On BIOS a failed read or close is a panic; on UEFI the file is not there.
tftp_fails ==
  /\ phase = "tftp" /\ fd.memfile
  /\ sys.uefi => Len(fd.data) < fd.size
  /\ phase' = (IF sys.uefi THEN "null" ELSE "panic") /\ UNCHANGED <<sys, uri, fd, blocks, misfreed, out, asked, want, told, calls>>
tftp_close ==
  /\ phase = "tftp" /\ fd.memfile /\ Len(fd.data) = fd.size
  /\ Free(IF sys.uefi THEN {} ELSE {"packet"})
  /\ phase' = (IF uri.hash = NoHash THEN "open" ELSE "hash") /\ UNCHANGED <<sys, uri, fd, out, asked, want, told, calls>>

\* freadall_mode: the first call reads the file into a buffer of that type, or
\* gives the type to the one there is, and lets go of what the file system
\* kept; a later call only returns the buffer.
freadall_mode(type, high) ==
  \/ fd.readall /\ UNCHANGED <<fd, blocks, misfreed>>
  \/ /\ ~fd.readall /\ fd.memfile
     /\ fd' = [fd EXCEPT !.readall = TRUE] /\ blocks' = [blocks EXCEPT !["data"] = [type |-> type, high |-> high /\ @.high]] /\ UNCHANGED misfreed
  \/ /\ ~fd.readall /\ ~fd.memfile
     /\ fd' = [fd EXCEPT !.readall = TRUE, !.memfile = TRUE, !.data = fd.src]
     /\ blocks' = [w \in (DOMAIN blocks \cup {"data"}) \ {"fs"} |-> IF w = "data" THEN [type |-> type, high |-> high] ELSE blocks[w]]
     /\ misfreed' = (misfreed \/ "fs" \notin DOMAIN blocks)

\* uri_open: the hash.
CheckHash ==
  /\ phase = "hash" /\ freadall_mode("loader", sys.uefi)
  /\ phase' = (IF fd'.data = uri.hash.cells THEN "open" ELSE IF sys.strict THEN "panic" ELSE "ask")
  /\ UNCHANGED <<sys, uri, out, asked, want, told, calls>>
Confirm(yes) ==
  /\ phase = "ask" /\ phase' = (IF yes THEN "open" ELSE "menu") /\ asked' = TRUE
  /\ UNCHANGED <<sys, uri, fd, blocks, misfreed, out, want, told, calls>>

\* The callers: fread, freadall and fclose, in any order.
FileCall == phase = "open" /\ calls < MaxCalls /\ calls' = calls + 1
fread(loc, count) ==
  /\ FileCall /\ loc + count <= fd.size
  /\ told' = SubSeq(IF fd.memfile THEN fd.data ELSE fd.src, loc + 1, loc + count)
  /\ UNCHANGED <<sys, phase, uri, fd, blocks, misfreed, out, asked, want>>
freadall(type, high) ==
  /\ FileCall /\ freadall_mode(type, high) /\ out' = "data"
  /\ want' = IF want = NoWant THEN [type |-> type, high |-> high] ELSE want
  /\ UNCHANGED <<sys, phase, uri, asked, told>>

\* Mutant: closing frees the data that was handed out.
CloseFreesAll ==
  /\ FileCall /\ Free({"handle", "path", IF fd.memfile THEN "data" ELSE "fs"}) /\ phase' = "closed"
  /\ UNCHANGED <<sys, uri, fd, out, asked, want, told>>

\* fclose leaves data that was handed out to its owner.
fclose ==
  /\ FileCall /\ Free({"handle", "path"} \cup (IF ~fd.memfile THEN {"fs"} ELSE IF fd.readall THEN {} ELSE {"data"})) /\ phase' = "closed"
  /\ UNCHANGED <<sys, uri, fd, out, asked, want, told>>

BootFileNext ==
  \/ \E u \in Uris : uri_open(u)
  \/ tftp_open \/ (\E n \in 1 .. Mtu : tftp_read(n)) \/ tftp_fails \/ tftp_close \/ CheckHash
  \/ (\E yes \in BOOLEAN : Confirm(yes))
  \/ (\E loc \in 0 .. 2, count \in 1 .. 2 : fread(loc, count))
  \/ (\E type \in {"kernel", "loader"}, high \in BOOLEAN : freadall(type, high /\ sys.uefi))
  \/ fclose
BootFileSpec == BootFileInit /\ [][BootFileNext]_bfvars

----------------------------------------------------------------------------
(* Properties.                                                              *)

\* A file of a volume's tree has the path: each name is the long one (in any
\* case, when case does not matter or the volume has no Rock Ridge names), or
\* the short one in any case.
SameName(t, q) ==
  \/ t.long # <<>> /\ (IF sys.nocase \/ ~t.rr THEN t.up = q.up ELSE t.long = q.long)
  \/ t.short # "" /\ t.short = q.short
SamePath(f, path) == Len(f.path) = Len(path) /\ \A i \in DOMAIN path : SameName(f.path[i], path[i])
TheFiles ==
  IF Remote(uri) THEN {f \in Server : f.path = uri.path}
  ELSE LET i == uri_volume(uri) IN IF i = 0 THEN {} ELSE {f \in Vols[i].tree : SamePath(f, uri.path)}

\* What is never freed: the copy of the URI, the root of an ISO volume (kept for
\* the next file), its last directory, the label of a FAT volume.
Unfreed == {"uri", "context", "dir", "label"}

\* A local URI opens exactly when its volume has the file, on FAT12, FAT16,
\* FAT32 and ISO 9660 alike, and what is read is the file's content; a file
\* with a hash is used only if it matches or the user agreed.  Every block is
\* freed once, nothing that the handle needs or that was handed out is freed,
\* and closing leaves the data that was handed out.  The data has the type the
\* caller asked for, and is above 4 GiB only if the caller allows it.
\* Exceptions: the blocks in Unfreed stay for good, and so does the path when a
\* file is not found; of a file that TFTP does not bring, which the property
\* says nothing of, all blocks stay.  The type and the place are those of the
\* first freadall of a handle, which for a file with a hash is uri_open's own.
FilesSound ==
  /\ \E files \in {IF uri.res = "" THEN {} ELSE TheFiles} :
       /\ phase = "null" /\ ~Remote(uri) => files = {}
       /\ phase \in {"hash", "ask", "open", "closed"} => \E f \in files : f.cells = (IF fd.memfile THEN fd.data ELSE fd.src)
       /\ told # <<>> => \E f \in files : \E i \in 0 .. Len(f.cells) - Len(told) : told = SubSeq(f.cells, i + 1, i + Len(told))
       /\ phase = "open" /\ uri.hash # NoHash => asked \/ \E f \in files : f.cells = uri.hash.cells
  /\ ~misfreed
  /\ out # NoBuf => out \in DOMAIN blocks
  /\ out # NoBuf /\ uri.hash = NoHash => blocks[out].type = want.type /\ (blocks[out].high => want.high)
  /\ phase = "null" /\ ~Remote(uri) => DOMAIN blocks \ Unfreed \subseteq {"path"}
  /\ phase = "open" => DOMAIN blocks \ Unfreed = {"handle", "path", IF fd.memfile THEN "data" ELSE "fs"}
  /\ phase = "closed" => DOMAIN blocks \ Unfreed = IF fd.readall THEN {"data"} ELSE {}
=============================================================================
