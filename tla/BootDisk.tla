------------------------------ MODULE BootDisk ------------------------------
(***************************************************************************)
(* The boot loader's disks: the index of volumes that drivers/disk.s2.c     *)
(* builds, on BIOS and on UEFI, the partitions and the cached reads of      *)
(* lib/part.s2.c.                                                           *)
(*                                                                          *)
(* A disk is a sequence of sectors; a position or length in a table is in   *)
(* units of 512 bytes, ss of which are a sector.  What tells volumes apart  *)
(* is their content: the first Pool sectors, or a mark written to the first *)
(* one and read back.                                                       *)
(***************************************************************************)
EXTENDS Integers, Sequences, FiniteSets, SequencesExt

CONSTANTS
  Firmware,     \* machines: [bda, disks], disks [ss, data, gpt, table, chain, optical, removable, bad]
  Xfer,         \* fastest_xfer_size, in sectors
  Pool,         \* UNIQUE_SECTOR_POOL_SIZE, in units of 512 bytes
  Junk,         \* entries the stack may hold where none was read
  MaxErrors, MaxReads

ASSUME DiskAssumption == {Xfer, Pool} \subseteq Nat \ {0} /\ MaxErrors \in Nat /\ MaxReads \in Nat

VARIABLES
  bda,          \* the number of fixed disks the BIOS counts, or Uefi
  disks,        \* their data changes
  dstage,       \* index, parts, unique, handles, mark .. restore, ready, power
  item,         \* the disk, volume or handle looked at
  vols,         \* volume_index: [disk, first, count, part, index, optical, sum, handle]
  cache,        \* per volume: [ready, block, data]
  hdl, probe,   \* handles of the firmware; the read-back: [i, found, mark]
  errors, reads,
  got           \* the last volume_read: [vol, loc, data]

dvars == <<bda, disks, dstage, item, vols, cache, hdl, probe, errors, reads, got>>

NoVolume == 0
Uefi == -1
Sum0 == <<>>            \* unique_sector_valid is false
Blank == 0
\* The marks of a handle, two numbers that are drawn for it (and are on no disk).
Mark1 == 100 + 2 * item
Mark2 == 101 + 2 * item

----------------------------------------------------------------------------
(* lib/part.s2.c: the partition tables.  An entry is [first, count, type];  *)
(* type 0 is an empty one, 5 an extended partition.                         *)

Vol(d, first, count, part) ==
  [disk |-> d, first |-> first, count |-> count, part |-> part, index |-> 0, optical |-> FALSE, sum |-> Sum0, handle |-> NoVolume]

EndOfTable == Vol(0, 0, 0, -1)
NoPartition == Vol(0, 0, 0, -2)

AsPart(d, at0, e, part) == IF e.type = 0 THEN NoPartition ELSE Vol(d, at0 + e.first, e.count, part)

gpt_get_part(d, p) == IF p >= Len(disks[d].table) THEN EndOfTable ELSE AsPart(d, 0, disks[d].table[p + 1], p + 1)

\* The chain of logical partitions: chain[j] is [next, type, first, count], the
\* position of the next record and the partition, counted from the record.
RECURSIVE Ebr(_, _, _)
Ebr(c, j, at0) == IF j = 0 THEN at0 ELSE IF c = <<>> \/ Head(c).next = 0 THEN -1 ELSE Ebr(Tail(c), j - 1, Head(c).next)

\* Record j of the chain of x, as partition p.
mbr_get_logical_part(d, x, j, p) ==
  LET sector == Ebr(disks[d].chain, j, 0)
  IN  IF sector = -1 THEN EndOfTable ELSE AsPart(d, x.first + sector, disks[d].chain[j + 1], p)

Extended(t) == SelectSeq(t, LAMBDA e : e.type = 5)
mbr_get_part(d, t, p) ==
  IF p <= 3 THEN AsPart(d, 0, t[p + 1], p + 1)
  ELSE IF Extended(t) = <<>> THEN EndOfTable ELSE mbr_get_logical_part(d, Extended(t)[1], p - 4, p + 1)

part_get(d, p) ==
  IF disks[d].gpt THEN gpt_get_part(d, p) ELSE IF disks[d].table = <<>> THEN EndOfTable ELSE mbr_get_part(d, disks[d].table, p)

RECURSIVE Parts(_, _)
Parts(d, p) ==
  LET v == part_get(d, p) IN IF v = EndOfTable THEN <<>> ELSE IF v = NoPartition THEN Parts(d, p + 1) ELSE <<v>> \o Parts(d, p + 1)

\* No call looks at the result of volume_read.  What one of the reads failing
\* makes of part_get: without the header of a GPT the protective MBR counts;
\* an entry of a GPT is empty; one of an MBR is what the stack holds; in a
\* chain it is the link before, followed a second time or taken for the
\* partition; and without the extended partition the table ends.
Protective(d) == <<[first |-> 1, count |-> Len(disks[d].data) * disks[d].ss - 1, type |-> 238]>> \o [i \in 1 .. 3 |-> [first |-> 0, count |-> 0, type |-> 0]]
Unread(d, p) ==
  LET t    == disks[d].table
      c    == disks[d].chain
      j    == p - 4
      x    == Extended(t)[1]
      at0  == Ebr(c, j, 0)
      link == [first |-> at0, count |-> c[j + 1].first + c[j + 1].count, type |-> 5]
      stack(base) == {AsPart(d, base, e, p + 1) : e \in Junk}
  IN  IF disks[d].gpt THEN {mbr_get_part(d, Protective(d), p)} \cup {NoPartition : k \in {p} \cap 0 .. Len(t) - 1}
      ELSE IF p <= 3 THEN stack(0)
      ELSE IF Extended(t) = <<>> THEN {EndOfTable} \cup stack(0)
      ELSE {EndOfTable} \cup stack(x.first)
           \cup (IF j = 0 THEN {} ELSE {mbr_get_logical_part(d, x, j - 1, p + 1)} \cup (IF at0 = -1 THEN {} ELSE {AsPart(d, x.first + at0, link, p + 1)}))

----------------------------------------------------------------------------
(* drivers/disk.s2.c: the index.                                            *)

BootDiskFrom(firmware) ==
  /\ \E f \in firmware : bda = f.bda /\ disks = f.disks
  /\ dstage = "index" /\ item = 1 /\ vols = <<>> /\ cache = <<>> /\ hdl = <<>>
  /\ probe = [i |-> 0, found |-> NoVolume, mark |-> Blank] /\ errors = 0 /\ reads = 0
  /\ got = [vol |-> NoVolume, loc |-> 0, data |-> <<>>]
BootDiskInit == BootDiskFrom(Firmware)

Drives == {k \in DOMAIN vols : vols[k].part = 0}
Fixed(d) == ~disks[d].removable /\ ~disks[d].optical

\* A disk whose first sector cannot be read is passed over, and on BIOS a
\* fixed disk that the BIOS has not counted.  Hard disks and optical ones are
\* numbered apart.
AddDrive ==
  LET d  == disks[item]
      ix == 1 + Cardinality({k \in Drives : vols[k].optical = d.optical})
      v  == Vol(item, 0, Len(d.data), 0)
      uncounted == bda # Uefi /\ Fixed(item) /\ Cardinality({k \in Drives : Fixed(vols[k].disk)}) = bda
  IN  /\ dstage = "index" /\ item <= Len(disks)
      /\ IF 0 \in d.bad \/ uncounted THEN item' = item + 1 /\ UNCHANGED <<vols, dstage, probe>>
         ELSE /\ vols' = Append(vols, [v EXCEPT !.index = ix, !.optical = d.optical])
              /\ dstage' = "parts" /\ probe' = [probe EXCEPT !.i = 0] /\ UNCHANGED item
      /\ UNCHANGED <<bda, disks, cache, hdl, errors, reads, got>>

Ok == UNCHANGED errors
\* The firmware may fail a request.
Error == errors < MaxErrors /\ errors' = errors + 1

\* The next partition of the drive that was added last, until the table ends.
AddPart ==
  LET drive == vols[CHOOSE k \in Drives : vols[k].disk = item]
  IN  /\ dstage = "parts"
      /\ \E v \in {part_get(item, probe.i)} \cup Unread(item, probe.i) :
           /\ (v = part_get(item, probe.i) /\ Ok) \/ (v \in Unread(item, probe.i) /\ Error)
           /\ IF v = EndOfTable THEN dstage' = "index" /\ item' = item + 1 /\ UNCHANGED <<vols, probe>>
              ELSE /\ vols' = IF v = NoPartition THEN vols ELSE Append(vols, [v EXCEPT !.index = drive.index, !.optical = drive.optical])
                   /\ probe' = [probe EXCEPT !.i = @ + 1] /\ UNCHANGED <<dstage, item>>
      /\ UNCHANGED <<bda, disks, cache, hdl, reads, got>>

Indexed ==
  /\ dstage = "index" /\ item > Len(disks) /\ dstage' = (IF bda = Uefi THEN "unique" ELSE "ready") /\ item' = 1
  /\ cache' = [v \in DOMAIN vols |-> [ready |-> FALSE, block |-> 0, data |-> [k \in 0 .. Xfer - 1 |-> Blank]]]
  /\ UNCHANGED <<bda, disks, vols, hdl, probe, errors, reads, got>>

----------------------------------------------------------------------------
(* Which volume is a firmware handle's?                                     *)

Ss(v) == disks[vols[v].disk].ss
Sect(d, s) == disks[d].data[s + 1]
Readable(d, s) == s < Len(disks[d].data) /\ s \notin disks[d].bad
StartOf(v) == vols[v].first \div Ss(v)
Misaligned(v) == vols[v].first % Ss(v) # 0
PoolOf(d, s) ==
  LET len == Pool \div disks[d].ss
  IN  IF \A k \in s .. s + len - 1 : Readable(d, k) THEN [k \in 1 .. len |-> Sect(d, s + k - 1)] ELSE Sum0

volume_by_unique_sector(sum) ==
  LET vs == {v \in DOMAIN vols : vols[v].sum # Sum0 /\ vols[v].sum = sum}
  IN  IF vs = {} THEN NoVolume ELSE CHOOSE v \in vs : \A w \in vs : v <= w

\* Mutant: of two volumes with one content the first stays valid.
FindUniqueKeeps ==
  LET sum == IF Misaligned(item) \/ vols[item].count * Ss(item) < Pool THEN Sum0 ELSE PoolOf(vols[item].disk, StartOf(item))
  IN  /\ dstage = "unique" /\ item <= Len(vols)
      /\ IF sum = Sum0 \/ volume_by_unique_sector(sum) # NoVolume THEN UNCHANGED vols ELSE vols' = [vols EXCEPT ![item].sum = sum]
      /\ item' = item + 1 /\ UNCHANGED <<bda, disks, dstage, cache, hdl, probe, errors, reads, got>>

\* find_unique_sectors: a second volume with the same content takes the
\* validity of the first, and a third one has it again.
FindUnique ==
  LET sum == IF Misaligned(item) \/ vols[item].count * Ss(item) < Pool THEN Sum0 ELSE PoolOf(vols[item].disk, StartOf(item))
      old == volume_by_unique_sector(sum)
  IN  /\ dstage = "unique" /\ item <= Len(vols)
      /\ vols' = IF sum = Sum0 THEN vols ELSE IF old = NoVolume THEN [vols EXCEPT ![item].sum = sum] ELSE [vols EXCEPT ![old].sum = Sum0]
      /\ item' = item + 1 /\ UNCHANGED <<bda, disks, dstage, cache, hdl, probe, errors, reads, got>>

\* The handles: every disk that can be read and every partition (external: the
\* firmware's own reading of the tables).
Handles(d) ==
  IF 0 \in disks[d].bad THEN <<>>
  ELSE LET ss == disks[d].ss
           hs == Parts(d, 0)
       IN  <<[disk |-> d, first |-> 0, count |-> Len(disks[d].data), hdd |-> FALSE]>>
           \o [k \in DOMAIN hs |-> [disk |-> d, first |-> hs[k].first \div ss, count |-> hs[k].count \div ss, hdd |-> TRUE]]
UniqueDone ==
  /\ dstage = "unique" /\ item > Len(vols) /\ dstage' = "handles" /\ item' = 1
  /\ hdl' = FlattenSeq([d \in DOMAIN disks |-> Handles(d)])
  /\ UNCHANGED <<bda, disks, vols, cache, probe, errors, reads, got>>

H0 == hdl[item]
Next1(found) ==
  /\ vols' = IF found = NoVolume THEN vols ELSE [vols EXCEPT ![found].handle = item]
  /\ item' = item + 1 /\ dstage' = "handles"

\* disk_volume_from_efi_handle: by content, where that is unique.
ByContent ==
  LET sum == IF H0.count * disks[H0.disk].ss < Pool THEN Sum0 ELSE PoolOf(H0.disk, H0.first)
      v   == IF sum = Sum0 THEN NoVolume ELSE volume_by_unique_sector(sum)
  IN  /\ dstage = "handles" /\ item <= Len(hdl)
      /\ IF v # NoVolume \/ ~H0.hdd THEN Next1(v) /\ UNCHANGED probe
         ELSE dstage' = "mark" /\ probe' = [i |-> 1, found |-> NoVolume, mark |-> Sect(H0.disk, H0.first)] /\ UNCHANGED <<item, vols>>
      /\ UNCHANGED <<bda, disks, cache, hdl, errors, reads, got>>

\* By a mark: one is written over the handle's first sector, looked for in
\* the volumes, checked with a second one, and the sector is put back.
\* probe.mark keeps what was there.
PutSector(x) == disks' = [disks EXCEPT ![H0.disk].data[H0.first + 1] = x]
Mark ==
  /\ dstage = "mark" /\ Readable(H0.disk, H0.first) /\ Ok
  /\ PutSector(Mark1) /\ dstage' = "look" /\ UNCHANGED <<bda, item, vols, cache, hdl, probe, reads, got>>
\* The first read or the first write fails: the sector is put back.
MarkFails ==
  /\ dstage = "mark" /\ (Error \/ (~Readable(H0.disk, H0.first) /\ Ok))
  /\ Next1(NoVolume) /\ UNCHANGED <<bda, disks, cache, hdl, probe, reads, got>>

\* One volume: its first sector has the mark, or it has not or cannot be read.
Marked(v) == Readable(vols[v].disk, StartOf(v)) /\ Sect(vols[v].disk, StartOf(v)) = Mark1
LookOn ==
  LET v == probe.i
  IN  /\ dstage = "look" /\ v <= Len(vols) /\ (Error \/ (Ok /\ ~Marked(v)))
      /\ probe' = [probe EXCEPT !.i = v + 1] /\ UNCHANGED <<bda, disks, dstage, item, vols, cache, hdl, reads, got>>
LookHit ==
  /\ dstage = "look" /\ probe.i <= Len(vols) /\ Marked(probe.i) /\ Ok
  /\ PutSector(Mark2) /\ dstage' = "check" /\ UNCHANGED <<bda, item, vols, cache, hdl, probe, reads, got>>
\* The second mark cannot be written: the search is over.
LookStops ==
  /\ dstage = "look" /\ probe.i <= Len(vols) /\ Marked(probe.i) /\ Error /\ dstage' = "restore"
  /\ UNCHANGED <<bda, disks, item, vols, cache, hdl, probe, reads, got>>
\* The second mark is there: this is the volume.  A failed read goes on with
\* the second mark in place.
Check ==
  LET v == probe.i
  IN  /\ dstage = "check"
      /\ \/ /\ Error /\ probe' = [probe EXCEPT !.i = v + 1] /\ dstage' = "look"
         \/ /\ Ok /\ Sect(vols[v].disk, StartOf(v)) = Mark2 /\ probe' = [probe EXCEPT !.found = v] /\ dstage' = "restore"
      /\ UNCHANGED <<bda, disks, item, vols, cache, hdl, reads, got>>
LookEnds ==
  /\ dstage = "look" /\ probe.i > Len(vols) /\ dstage' = "restore" /\ UNCHANGED <<bda, disks, item, vols, cache, hdl, probe, errors, reads, got>>

Restore ==
  /\ dstage = "restore" /\ Ok /\ PutSector(probe.mark)
  /\ Next1(probe.found) /\ UNCHANGED <<bda, cache, hdl, probe, reads, got>>
RestoreFails ==
  /\ dstage = "restore" /\ Error /\ Next1(NoVolume) /\ UNCHANGED <<bda, disks, cache, hdl, probe, reads, got>>

Handled ==
  /\ dstage = "handles" /\ item > Len(hdl) /\ dstage' = "ready" /\ UNCHANGED <<bda, disks, item, vols, cache, hdl, probe, errors, reads, got>>

----------------------------------------------------------------------------
(* volume_read.                                                             *)

\* cache_block: as much of the block as can be read; the rest of the buffer
\* is what it was.
Filled(v, c, b) ==
  LET s0 == StartOf(v) + b * Xfer
      ok == {k \in 1 .. Xfer : \A j \in 0 .. k - 1 : Readable(vols[v].disk, s0 + j)}
      m  == IF Misaligned(v) THEN 0 ELSE Cardinality(ok)
  IN  [ready |-> m # 0, block |-> IF m = 0 THEN c.block ELSE b,
       data |-> [k \in 0 .. Xfer - 1 |-> IF k < m THEN Sect(vols[v].disk, s0 + k) ELSE c.data[k]]]
cache_block(v, c, b) == IF c.ready /\ c.block = b THEN c ELSE Filled(v, c, b)

\* count sectors at loc of volume v; <<>> when a block of them fails.
ReadSector(v, r, s) ==
  LET c == cache_block(v, r.c, s \div Xfer)
  IN  IF ~r.ok THEN r ELSE [ok |-> c.ready, c |-> c, data |-> IF c.ready THEN Append(r.data, c.data[s % Xfer]) ELSE <<>>]
volume_read(v, loc, count) ==
  LET r == FoldLeft(LAMBDA x, s : ReadSector(v, x, s), [ok |-> TRUE, c |-> cache[v], data |-> <<>>], [k \in 1 .. count |-> loc + k - 1])
  IN  /\ dstage = "ready" /\ reads < MaxReads /\ reads' = reads + 1
      /\ cache' = [cache EXCEPT ![v] = r.c] /\ got' = [vol |-> v, loc |-> loc, data |-> r.data]
      /\ UNCHANGED <<bda, disks, dstage, item, vols, hdl, probe, errors>>

\* volume_get_by_coord: what a path of the configuration names.
volume_get_by_coord(optical, drive, part) ==
  LET vs == {v \in DOMAIN vols : vols[v].optical = optical /\ vols[v].index = drive /\ vols[v].part = part}
  IN  IF vs = {} THEN NoVolume ELSE CHOOSE v \in vs : \A w \in vs : v <= w

BootDiskNext ==
  \/ AddDrive \/ AddPart \/ Indexed \/ FindUnique \/ UniqueDone \/ ByContent \/ Handled
  \/ Mark \/ MarkFails \/ LookOn \/ LookHit \/ LookStops \/ LookEnds \/ Check \/ Restore \/ RestoreFails
  \/ \E v \in DOMAIN vols : \E loc \in 0 .. 3, count \in 1 .. 2 : volume_read(v, loc, count)
BootDiskSpec == BootDiskInit /\ [][BootDiskNext]_dvars

----------------------------------------------------------------------------
(* Properties.                                                              *)

\* The partitions of a disk, by its tables.
Entries(d) == {[first |-> e.first, count |-> e.count] : e \in {x \in Range(d.table) : x.type # 0}}
Logical(d) ==
  LET xs == {j \in DOMAIN d.table : d.table[j].type = 5}
      x  == d.table[CHOOSE j \in xs : \A k \in xs : j <= k].first
      base(j) == IF j = 1 THEN x ELSE x + d.chain[j - 1].next
  IN  IF d.gpt \/ xs = {} THEN {}
      ELSE {[first |-> base(j) + d.chain[j].first, count |-> d.chain[j].count] : j \in {k \in DOMAIN d.chain : d.chain[k].type # 0}}

\* The disks that can be read, of the fixed ones as many as the BIOS counts.
Present(d) ==
  /\ 0 \notin disks[d].bad
  /\ bda = Uefi \/ ~Fixed(d) \/ Cardinality({k \in 1 .. d - 1 : Fixed(k) /\ 0 \notin disks[k].bad}) < bda

Alike(v) == {w \in DOMAIN vols : PoolOf(vols[w].disk, StartOf(w)) = PoolOf(vols[v].disk, StartOf(v))}

\* As long as no request of the firmware has failed, every partition in the
\* tables of the disks that count is a volume at its place, all disks are in the
\* end what they were, and a handle is given to the volume that starts where it
\* does, unless three volumes have the same content.  Whatever fails, the
\* numbers that a path of the configuration uses name one volume each, and a read
\* that succeeds gives the disk's data, up to the first sector of its block that
\* cannot be read.
\* Exceptions: a failed read of a table loses partitions or makes up others, and
\* a failed request of the search for a handle leaves its mark on the disk.
VolumesSound ==
  /\ dstage \notin {"index", "parts"} /\ errors = 0 => \A d \in DOMAIN disks :
       {[first |-> v.first, count |-> v.count] : v \in {w \in Range(vols) : w.disk = d /\ w.part # 0}}
         = IF Present(d) THEN Entries(disks[d]) \cup Logical(disks[d]) ELSE {}
  /\ \A v \in DOMAIN vols : volume_get_by_coord(vols[v].optical, vols[v].index, vols[v].part) = v
  /\ dstage = "ready" /\ bda = Uefi /\ errors = 0 =>
       /\ \A d \in DOMAIN disks : \A k \in DOMAIN disks[d].data : disks[d].data[k] < 100
       /\ \A v \in DOMAIN vols : vols[v].handle # NoVolume /\ Cardinality(Alike(v)) < 3 =>
            hdl[vols[v].handle].disk = vols[v].disk /\ hdl[vols[v].handle].first = StartOf(v)
  /\ \A k \in DOMAIN got.data :
       LET s0 == StartOf(got.vol) + got.loc + k - 1
           b0 == StartOf(got.vol) + Xfer * ((got.loc + k - 1) \div Xfer)
           d  == vols[got.vol].disk
       IN  (\A j \in b0 .. s0 : Readable(d, j)) => got.data[k] = Sect(d, s0)
=============================================================================
