------------------------------ MODULE BootMem -------------------------------
(***************************************************************************)
(* The boot loader's memory map, mm/pmm.s2.c: it is read from the firmware, *)
(* every allocation is an entry punched into it, it is sanitised after each *)
(* change and handed to the kernel at the end.  BIOS and UEFI builds are    *)
(* both here, chosen with the firmware's map.                               *)
(*                                                                          *)
(* Addresses are scaled: Page is 4096, Meg is 1 MiB, Gig4 is 4 GiB.  An     *)
(* entry is [base, top, type); the code's length is top - base.  A panic is *)
(* the map Panicked.                                                        *)
(***************************************************************************)
EXTENDS Integers, Sequences, FiniteSets, SequencesExt

CONSTANTS
  BiosMaps,          \* E820 maps: sequences of entries
  UefiMaps,          \* UEFI maps: sequences of entries with UEFI types
  Page, Meg, Gig4, EBDA, BssEnd,
  Image,             \* the boot loader's image under UEFI: <<base, top>>
  Spare, SpareSize,  \* 64 blocks of 1 MiB are left to the UEFI firmware
  MaxEntries,        \* memmap_max_entries
  Sizes, Aligns, KernelAt,   \* arguments of the allocations
  MaxOps             \* bound on the number of calls

ASSUME BootMemAssumption ==
  /\ {Page, Meg, Gig4, MaxEntries} \subseteq Nat \ {0} /\ Spare \in Nat /\ MaxOps \in Nat
  /\ \A a \in Aligns : a % Page = 0

VARIABLES
  fw,          \* the firmware's map, as it was at the start
  memmap,      \* the boot loader's map
  untouched,   \* untouched_memmap (UEFI)
  owned,       \* pages AllocatePages has given (UEFI firmware)
  cbase,       \* conv_mem_alloc's static base
  exited,      \* efi_boot_services_exited
  mphase,      \* "init", "run", then allocations are disallowed: "closed",
               \* "handed" (to the kernel), "released" (to UEFI); "panic"
  live,        \* history: blocks handed out and not freed
  mops

memvars == <<fw, memmap, untouched, owned, cbase, exited, mphase, live, mops>>

Entry(b, t, ty) == [base |-> b, top |-> t, type |-> ty]
Panicked == <<Entry(-1, -1, "panic")>>
AlignUp(a, n)   == ((a + n - 1) \div n) * n
AlignDown(a, n) == (a \div n) * n
Over(e, b, t) == e.base < t /\ b < e.top
Bios == fw.kind = "bios"

FirmwareMaps == [kind : {"bios"}, map : BiosMaps, refused : {{}}] \cup
                [kind : {"uefi"}, map : UefiMaps, refused : {{}, {3 * Page, 4 * Page}}]
BootMemFrom(maps) ==
  /\ fw \in maps
  /\ memmap = <<>> /\ untouched = <<>> /\ owned = {} /\ cbase = Page /\ exited = FALSE
  /\ mphase = "init" /\ live = {} /\ mops = 0
BootMemInit == BootMemFrom(FirmwareMaps)

----------------------------------------------------------------------------
(* pmm_sanitise_entries.                                                    *)

\* Mutant: only the bottom of an overlapping entry is looked at.
CutBottom(e, r) ==
  IF r.base >= e.base /\ r.base < e.top /\ r.top >= e.base /\ r.top < e.top THEN Panicked[1]
  ELSE [e EXCEPT !.top = IF r.base >= e.base /\ r.base < @ THEN r.base ELSE @]

\* Entry e without what r covers at one of its ends; r inside e is a panic.
Cut(e, r) ==
  LET low  == r.base >= e.base /\ r.base < e.top
      high == r.top >= e.base /\ r.top < e.top
      top  == IF low THEN r.base ELSE e.top
  IN  IF low /\ high THEN Panicked[1]
      ELSE [e EXCEPT !.top = top, !.base = IF r.top >= e.base /\ r.top < top THEN r.top ELSE @]

Swapped(m, i) == SubSeq([m EXCEPT ![i] = m[Len(m)]], 1, Len(m) - 1)

align_entry(e) == LET b == AlignUp(e.base, Page) IN [e EXCEPT !.base = b, !.top = b + AlignDown(e.top - b, Page)]

\* The first loop: usable entries give way to all others, from entry i on.
RECURSIVE Trim(_, _, _)
Trim(m, i, align) ==
  IF i > Len(m) THEN m
  ELSE IF m[i].type # "usable" THEN Trim(m, i + 1, align)
  ELSE LET e == FoldLeft(Cut, m[i], SubSeq(m, 1, i - 1) \o SubSeq(m, i + 1, Len(m)))
       IN  IF e.type = "panic" THEN Panicked
           ELSE IF e.top = e.base \/ (align /\ e.top - e.base < Page) THEN Trim(Swapped(m, i), i, align)
           ELSE Trim([m EXCEPT ![i] = IF align THEN align_entry(e) ELSE e], i + 1, align)

\* The second loop: empty usable entries go, and with BIOS the first page.
DropEmpty(m, keep) ==
  LET cut == [i \in DOMAIN m |-> IF m[i].type = "usable" /\ ~keep /\ m[i].base < Page
                                 THEN [m[i] EXCEPT !.base = Page] ELSE m[i]]
  IN  SelectSeq(cut, LAMBDA e : e.type # "usable" \/ e.top > e.base)

Merge(acc, e) ==
  IF acc # <<>> /\ Last(acc).type = e.type /\ e.base = Last(acc).top /\ e.type \in {"loader", "acpi", "usable"}
  THEN [acc EXCEPT ![Len(acc)].top = e.top] ELSE Append(acc, e)

Sorted(m) == SortSeq(m, LAMBDA a, b : a.base < b.base)
Joined(m, keep) == IF m = Panicked THEN m ELSE FoldLeft(Merge, <<>>, Sorted(DropEmpty(m, keep)))
pmm_sanitise_entries(m, align, keep) == Joined(IF m = Panicked THEN m ELSE Trim(m, 1, align), keep)

----------------------------------------------------------------------------
(* memmap_alloc_range_in and what it is built from.                         *)

\* Mutant: an entry that contains the new one keeps its upper part only.
SplitHalf(e, b, t) ==
  IF b <= e.base /\ t >= e.top THEN <<>>
  ELSE IF ~Over(e, b, t) THEN <<e>>
  ELSE IF t < e.top THEN <<Entry(t, e.top, e.type)>> ELSE <<Entry(e.base, b, e.type)>>

\* What pmm_new_entry leaves of e: nothing, one part or two.
Split(e, b, t) ==
  IF b <= e.base /\ t >= e.top THEN <<>>
  ELSE IF ~Over(e, b, t) THEN <<e>>
  ELSE (IF e.base < b THEN <<Entry(e.base, b, e.type)>> ELSE <<>>)
         \o (IF t < e.top THEN <<Entry(t, e.top, e.type)>> ELSE <<>>)

pmm_new_entry(m, b, t, type) ==
  LET n == Append(FlattenSeq([i \in DOMAIN m |-> Split(m[i], b, t)]), Entry(b, t, type))
  IN  IF Len(n) > MaxEntries THEN Panicked ELSE n

Holds(m, b, t, over) ==
  \E i \in DOMAIN m : (over = "any" \/ m[i].type = over) /\ b >= m[i].base /\ b < m[i].top /\ t <= m[i].top

\* The map with the range taken; m itself when no entry holds it.
memmap_alloc_range_in(m, b, t, type, over, fresh, keep) ==
  IF t = b \/ ~(fresh \/ Holds(m, b, t, over)) THEN m
  ELSE pmm_sanitise_entries(pmm_new_entry(m, b, t, type), FALSE, keep)

Keep == ~Bios                              \* pmm_sanitiser_keep_first_page
memmap_alloc_range(b, t, type, over, fresh) == memmap_alloc_range_in(memmap, b, t, type, over, fresh, Keep)

\* ext_mem_alloc_type_aligned_mode: the last entry that has room, the top of
\* it; <<>> when none has.
Place(m, n, align, high) ==
  LET top(e) == IF e.top >= Gig4 /\ ~high THEN Gig4 ELSE e.top
      at(e)  == AlignDown(top(e) - AlignUp(n, align), align)
      fits   == {i \in DOMAIN m : m[i].type = "usable" /\ m[i].base < top(m[i]) /\ at(m[i]) >= m[i].base}
      i      == CHOOSE j \in fits : \A k \in fits : k <= j
  IN  IF fits = {} THEN <<>> ELSE <<at(m[i]), top(m[i])>>

ext_alloc(m, n, type, align, high, keep) ==
  LET p == Place(m, n, align, high)
  IN  IF p = <<>> THEN Panicked
      ELSE memmap_alloc_range_in(m, p[1], p[2], type, "usable", FALSE, keep)

----------------------------------------------------------------------------
(* init_memmap.                                                             *)

\* Usable memory between the EBDA and 1 MiB is taken out of an E820 entry.
ClipE820(e) ==
  IF e.type # "usable" THEN <<e>>
  ELSE IF e.base >= EBDA /\ e.base < Meg
       THEN IF e.top <= Meg THEN <<>> ELSE <<[e EXCEPT !.base = Meg]>>
       ELSE IF e.top > EBDA /\ e.top <= Meg THEN <<[e EXCEPT !.top = EBDA]>> ELSE <<e>>

FromEfi(t) ==
  IF t \in {"loader", "boot"} THEN "efi" ELSE IF t = "conventional" THEN "usable"
  ELSE IF t = "acpi" THEN "acpirecl" ELSE "reserved"

\* 64 MiB for the firmware, then every usable page is asked for; the pages
\* that are refused are marked.
LeaveSpare(m, n) == FoldLeft(LAMBDA acc, i : ext_alloc(acc, SpareSize, "efi", Page, FALSE, TRUE), m, [i \in 1 .. n |-> i])
PagesOf(m, types) == {a \in 0 .. 100 : a % Page = 0 /\ \E i \in DOMAIN m : m[i].type \in types /\ a >= m[i].base /\ a < m[i].top}
Owning(m) ==
  IF m = Panicked THEN m ELSE
  FoldLeft(LAMBDA acc, a : memmap_alloc_range_in(acc, a, a + Page, "efi", "usable", FALSE, TRUE),
           m, SetToSeq(PagesOf(m, {"usable"}) \cap fw.refused))

WithBss(m) ==
  IF m = Panicked \/ ~Holds(m, Page, BssEnd, "any") THEN Panicked
  ELSE memmap_alloc_range_in(m, Page, BssEnd, "loader", "any", FALSE, FALSE)
BiosMap ==
  LET clipped == FlattenSeq([i \in DOMAIN fw.map |-> ClipE820(fw.map[i])])
  IN  WithBss(IF Len(clipped) > MaxEntries THEN Panicked ELSE pmm_sanitise_entries(clipped, FALSE, FALSE))

EfiMap ==
  LET read == [i \in DOMAIN fw.map |-> [fw.map[i] EXCEPT !.type = FromEfi(@)]]
  IN  Owning(LeaveSpare(pmm_sanitise_entries(read, FALSE, TRUE), Spare))

\* A block of c bytes for a request of n.
Block(b, c, n, t) == [base |-> b, top |-> b + c, n |-> n, type |-> t]
Install(m) == IF m = Panicked THEN mphase' = "panic" /\ UNCHANGED memmap ELSE mphase' = "run" /\ memmap' = m

init_memmap_bios ==
  /\ mphase = "init" /\ Bios /\ Install(BiosMap)
  /\ live' = {Block(Page, BssEnd - Page, BssEnd - Page, "loader")}
  /\ UNCHANGED <<fw, untouched, owned, cbase, exited, mops>>

\* The image of the loader is taken, then the list that pmm_reclaim_uefi_mem
\* works with, here one page.
WithImage(m) == IF m = Panicked THEN m ELSE memmap_alloc_range_in(m, Image[1], Image[2], "loader", "any", TRUE, TRUE)
WithList(m) == IF m = Panicked THEN m ELSE ext_alloc(m, Page, "loader", Page, FALSE, TRUE)
init_memmap_uefi ==
  /\ mphase = "init" /\ ~Bios
  /\ \E m \in {EfiMap} :
       /\ Install(WithList(WithImage(m)))
       /\ untouched' = m /\ owned' = PagesOf(m, {"usable"})
       /\ LET p == Place(WithImage(m), Page, Page, FALSE)
          IN  live' = {Block(Image[1], Image[2] - Image[1], Image[2] - Image[1], "loader")}
                        \cup (IF p = <<>> THEN {} ELSE {Block(p[1], Page, Page, "loader")})
  /\ UNCHANGED <<fw, cbase, exited, mops>>

----------------------------------------------------------------------------
(* Allocation and release.                                                  *)

Call == mphase = "run" /\ mops < MaxOps /\ mops' = mops + 1 /\ UNCHANGED <<fw, untouched, owned, exited>>

\* Every allocation and release panics once they are disallowed.
Disallowed ==
  /\ mphase \in {"closed", "handed", "released"} /\ mphase' = "panic"
  /\ UNCHANGED <<fw, memmap, untouched, owned, cbase, exited, live, mops>>

ext_mem_alloc(n, type, align, high) ==
  LET p == Place(memmap, n, align, high)
  IN  /\ Call /\ UNCHANGED cbase
      /\ Install(ext_alloc(memmap, n, type, align, high, Keep))
      /\ live' = IF p = <<>> THEN live ELSE live \cup {Block(p[1], AlignUp(n, align), n, type)}

\* The first range of usable memory from cbase on, below 1 MiB.
conv_mem_alloc(n) ==
  LET c == AlignUp(n, Page)
      hits == {b \in cbase .. Meg : b % Page = 0 /\ b + c <= Meg /\ Holds(memmap, b, b + c, "usable")}
      b == CHOOSE x \in hits : \A y \in hits : x <= y
  IN  /\ Call
      /\ IF hits = {} THEN mphase' = "panic" /\ UNCHANGED <<memmap, cbase, live>>
         ELSE /\ Install(memmap_alloc_range(b, b + c, "loader", "usable", FALSE))
              /\ cbase' = b + c /\ live' = live \cup {Block(b, c, n, "loader")}

\* pmm_free of the size that was asked for.
pmm_free(k) ==
  /\ Call /\ k \in live
  /\ Install(memmap_alloc_range(k.base, k.base + AlignUp(k.n, Page), "usable", "any", TRUE))
  /\ live' = live \ {k} /\ UNCHANGED cbase

\* pmm_realloc: a new block, the copy, the old block back.
pmm_realloc(k, n) ==
  /\ Call /\ k \in live
  /\ LET p == Place(memmap, n, Page, FALSE)
         m == ext_alloc(memmap, n, "loader", Page, FALSE, Keep)
         f == memmap_alloc_range_in(m, k.base, k.base + AlignUp(k.n, Page), "usable", "any", TRUE, Keep)
     IN  /\ Install(IF m = Panicked THEN m ELSE f)
         /\ live' = IF p = <<>> THEN live ELSE (live \ {k}) \cup {Block(p[1], AlignUp(n, Page), n, "loader")}
  /\ UNCHANGED cbase

\* A loader that wants its image at an address: taken when it is usable.
AllocAt(b, n) ==
  /\ Call /\ UNCHANGED cbase
  /\ IF Holds(memmap, b, b + n, "usable")
     THEN Install(memmap_alloc_range(b, b + n, "kernel", "usable", FALSE)) /\ live' = live \cup {Block(b, n, n, "kernel")}
     ELSE UNCHANGED <<memmap, mphase, live>>

----------------------------------------------------------------------------
(* The end of the boot loader.                                              *)

\* The type pmm_reclaim_uefi_mem gives a range of the firmware's map.
Reclaimed(t, raw) ==
  IF t \in {"loader", "boot"} THEN (IF raw THEN "usable" ELSE "loader") ELSE FromEfi(t)

\* Holes in every "efi" entry for each range of the firmware's map within it.
pmm_reclaim_uefi_mem(m, raw) ==
  LET recl == SelectSeq(m, LAMBDA e : e.type = "efi")
      low(r, e)  == IF e.base < r.base THEN r.base ELSE e.base
      high(r, e) == IF e.top > r.top THEN r.top ELSE e.top
      hole(acc, r, e) == IF Over(e, r.base, r.top)
                         THEN memmap_alloc_range_in(acc, low(r, e), high(r, e), Reclaimed(e.type, raw), "any", FALSE, TRUE)
                         ELSE acc
  IN  pmm_sanitise_entries(FoldLeft(LAMBDA a, r : FoldLeft(LAMBDA b, e : hole(b, r, e), a, fw.map), m, recl), FALSE, TRUE)

\* The firmware is left; its map then has what the loader owned as it was.  It
\* may also refuse, once too often.
efi_exit_boot_services ==
  /\ mphase = "run" /\ ~Bios /\ ~exited
  /\ (exited' = TRUE /\ UNCHANGED mphase) \/ (mphase' = "panic" /\ UNCHANGED exited)
  /\ UNCHANGED <<fw, memmap, untouched, owned, cbase, live, mops>>

\* The maps may only be asked for when UEFI's boot services are over.
TooEarly == ~Bios /\ ~exited
Started == mphase \in {"run", "closed", "handed"}

\* get_memmap: the map for the kernel, entries aligned.
get_memmap ==
  LET m == IF Bios THEN memmap ELSE pmm_reclaim_uefi_mem(memmap, FALSE)
      k == pmm_sanitise_entries(m, TRUE, Keep)
  IN  /\ Started
      /\ IF TooEarly \/ k = Panicked THEN mphase' = "panic" /\ UNCHANGED memmap ELSE mphase' = "handed" /\ memmap' = k
      /\ UNCHANGED <<fw, untouched, owned, cbase, exited, live, mops>>

\* get_raw_memmap of the UEFI build changes the copy it returns and closes
\* the allocator on the way; that of the BIOS build changes nothing.
get_raw_memmap ==
  /\ Started /\ ~Bios
  /\ IF TooEarly THEN mphase' = "panic" /\ UNCHANGED untouched
     ELSE /\ untouched' = pmm_reclaim_uefi_mem(untouched, TRUE)
          /\ mphase' = IF mphase = "run" THEN "closed" ELSE mphase
  /\ UNCHANGED <<fw, memmap, owned, cbase, exited, live, mops>>

\* FreePages for the usable entries of the copy, while there are services;
\* the firmware refuses pages it has not given.
ReleasedFrom == untouched
pmm_release_uefi_mem ==
  LET give == PagesOf(ReleasedFrom, {"usable", "loader"})
  IN  /\ mphase = "run" /\ ~Bios /\ ~exited
      /\ owned' = owned \ give
      /\ mphase' = IF give \subseteq owned THEN "released" ELSE "panic"
      /\ memmap' = <<>> /\ live' = {} /\ UNCHANGED <<fw, untouched, cbase, exited, mops>>

BootMemNext ==
  \/ init_memmap_bios \/ init_memmap_uefi
  \/ \E n \in Sizes : \E a \in Aligns : \E h \in BOOLEAN : ext_mem_alloc(n, "loader", a, h)
  \/ \E n \in Sizes : conv_mem_alloc(n) \/ \E k \in live : pmm_realloc(k, n)
  \/ \E k \in live : pmm_free(k)
  \/ \E b \in KernelAt, n \in Sizes : AllocAt(b, n)
  \/ Disallowed \/ efi_exit_boot_services \/ get_memmap \/ get_raw_memmap \/ pmm_release_uefi_mem

BootMemSpec == BootMemInit /\ [][BootMemNext]_memvars

----------------------------------------------------------------------------
(* mm/pmm.c.                                                                *)

Ram == {"usable", "loader", "kernel"} \cup (IF Bios THEN {} ELSE {"efi"})

\* What entry e adds to the part of the range that is real memory.
Overlap(e, b, t) ==
  LET low  == e.base >= b /\ e.base < t
      high == e.top > b /\ e.top <= t
  IN  IF low \/ high THEN (IF high THEN e.top ELSE t) - (IF low THEN e.base ELSE b) ELSE 0

check_usable_memory(m, b, t) ==
  LET ram == SelectSeq(m, LAMBDA e : e.type \in Ram)
  IN  \/ \E i \in DOMAIN ram : b >= ram[i].base /\ b < ram[i].top /\ t > ram[i].base /\ t <= ram[i].top
      \/ \E i \in DOMAIN ram : FoldLeft(LAMBDA n, e : n - Overlap(e, b, t), t - b, SubSeq(ram, 1, i)) = 0

----------------------------------------------------------------------------
(* Properties.                                                              *)

Mapped == mphase \in {"run", "closed", "handed"}
TypesAt(m, a) == {m[i].type : i \in {j \in DOMAIN m : a >= m[j].base /\ a < m[j].top}}

\* Blocks that were handed out overlap none of each other and are of their
\* type, and of no other, in the map, until they are freed: also in the map
\* the kernel gets, where the rest of memory is for it to use.
BlocksKept ==
  Mapped =>
    /\ \A k \in live : \A a \in k.base .. k.top - 1 : TypesAt(memmap, a) = {k.type}
    /\ \A j, k \in live : j # k => ~Over(j, k.base, k.top)

\* The firmware's map has usable memory at a inside another entry that begins
\* before it: pmm_sanitise_entries looks where the other entry begins and ends,
\* so that the inner one stays usable.
NestedAt(a) ==
  \E i, j \in DOMAIN fw.map :
    /\ fw.map[i].type \in {"usable", "conventional"} /\ a >= fw.map[i].base /\ a < fw.map[i].top
    /\ fw.map[j].base < fw.map[i].base /\ fw.map[i].top <= fw.map[j].top

\* No address of usable memory has a second entry, but where the firmware's
\* map has it inside another entry.
UsableIsFree ==
  Mapped => \A i \in DOMAIN memmap : memmap[i].type = "usable" =>
              \A a \in memmap[i].base .. memmap[i].top - 1 :
                NestedAt(a) \/ \A j \in DOMAIN memmap \ {i} : ~(a >= memmap[j].base /\ a < memmap[j].top)

\* What the firmware has not given for use is never usable.
Usable(a, types) == \E i \in DOMAIN fw.map : fw.map[i].type \in types /\ a >= fw.map[i].base /\ a < fw.map[i].top
FirmwareKept ==
  Mapped => \A i \in DOMAIN memmap : memmap[i].type = "usable" =>
    \A a \in memmap[i].base .. memmap[i].top - 1 :
      IF Bios THEN Usable(a, {"usable"}) /\ a >= Page ELSE Usable(a, {"conventional", "loader", "boot"})

\* The map for the kernel: sorted, and usable entries are whole pages.
KernelMapOrdered ==
  mphase = "handed" =>
    /\ \A i \in 1 .. Len(memmap) - 1 : memmap[i].base <= memmap[i + 1].base
    /\ \A i \in DOMAIN memmap : memmap[i].type = "usable" =>
         memmap[i].base % Page = 0 /\ memmap[i].top % Page = 0 /\ memmap[i].top > memmap[i].base

\* check_usable_memory says yes exactly when every address of the range is
\* memory, whatever entries the range cuts.
RangeCheckExact ==
  mphase = "handed" =>
    LET ends == {0, 3} \cup {memmap[i].base : i \in DOMAIN memmap} \cup {memmap[i].top - 1 : i \in DOMAIN memmap}
    IN  \A b, t \in ends : b < t =>
          (check_usable_memory(memmap, b, t) <=> \A a \in b .. t - 1 : TypesAt(memmap, a) \cap Ram # {})

\* The map as its users need it: blocks keep their memory, usable memory is
\* nobody's, none of it is the firmware's, and the kernel's copy is in order.
\* Usable memory that the firmware's map has inside another entry is excepted:
\* it stays usable although it has two owners.
MapSound == BlocksKept /\ UsableIsFree /\ FirmwareKept /\ KernelMapOrdered /\ RangeCheckExact

\* No allocation and no release loses memory: an address that has an entry
\* keeps one until the map is handed over.
NothingLost ==
  mphase = "run" /\ mphase' = "run" =>
    \A i \in DOMAIN memmap : \A a \in memmap[i].base .. memmap[i].top - 1 : TypesAt(memmap', a) # {}

\* With UEFI every page that was taken from the firmware is given back, and
\* none that it had refused: FreePages does not fail.
ReleasesWhatItOwns == pmm_release_uefi_mem => mphase' = "released" /\ owned' = {}

\* Between the two nothing of the machine's memory goes missing: not in the
\* map while the loader runs, and not to the firmware when it boots on.
MemoryKept == [][NothingLost /\ ReleasesWhatItOwns]_memvars
=============================================================================
