-------------------------------- MODULE Vmm ---------------------------------
(***************************************************************************)
(* Page tables: mm/vmm.c, the address space the boot loader builds with it  *)
(* (build_pagemap of protos/limine.c) and what the kernel maps afterwards.  *)
(*                                                                          *)
(* A table has two entries instead of 512: entry i of level l covers pages  *)
(* i * 2^(l-1) .. (i + 1) * 2^(l-1) - 1.  Levels 2 and 3 may hold large     *)
(* pages (2 MiB and 1 GiB).  The direct map puts frame p at page Hhdm + p,  *)
(* the kernel image is mapped above it.  A step of the loader is one turn   *)
(* of a loop in map_pages.                                                  *)
(***************************************************************************)
EXTENDS Integers, Sequences, FiniteSets

CONSTANTS
  Frames,          \* number of physical frames
  Low,             \* frames below 4 GiB
  Hhdm,            \* first page of the upper half and of the direct map
  KernelBase,      \* FIXED_HIGHER_HALF_OFFSET_64: the first page of an image
  Top,             \* number of pages
  MemMaps,         \* memory maps: sequences of [base, top, type]
  Kernels,         \* kernel images: [vbase, pbase, ranges]
  Touched,         \* pages the kernel maps and unmaps
  Given,           \* frames it maps
  MaxMaps          \* bound on the number of calls in the kernel

Pages == 0 .. Top - 1
Flags == {"r", "w", "x", "wx", "fb"}     \* what a page may be used for

\* The direct map lies between the upper half's start and the images
\* (limine_load refuses a span over a quarter of the address space).
ASSUME VmmAssumption ==
  /\ Frames \in Nat /\ Low \in Nat /\ Hhdm \in Nat /\ KernelBase \in Nat /\ Top \in Nat /\ MaxMaps \in Nat
  /\ 2 <= Low /\ Low <= Frames /\ Frames <= Hhdm /\ Hhdm + Frames <= KernelBase /\ KernelBase <= Top
  /\ Touched \subseteq Pages /\ Given \subseteq Nat

\* elf.c and pe.c give ranges of the upper half that start at KernelBase or
\* above, and virtual_base is the lowest of them.
ASSUME VmmInputs ==
  /\ \A mm \in MemMaps : mm \in Seq([base : 0 .. Frames, top : 0 .. Frames, type : STRING])
  /\ \A kn \in Kernels :
       /\ kn \in [vbase : Nat, pbase : Nat, ranges : Seq([base : Nat, n : Nat, fl : Flags])]
       /\ \A i \in DOMAIN kn.ranges : kn.ranges[i].base >= Hhdm =>
            /\ kn.ranges[i].base >= KernelBase /\ kn.ranges[i].base >= kn.vbase
            /\ kn.ranges[i].base + kn.ranges[i].n <= Top

Span(l) == CASE l = 1 -> 1 [] l = 2 -> 2 [] l = 3 -> 4 [] l = 4 -> 8
None  == [k |-> "none"]
Table == [k |-> "table"]
Leaf(l, p, fl) == [k |-> IF l > 1 THEN "large" ELSE "page", p |-> p, fl |-> fl]
Piece(v, p, n, fl) == [virt |-> v, phys |-> p, n |-> n, fl |-> fl]

VARIABLES
  ent,         \* ent[l][i]: entry i of level l; meaningful below tables only
  gib,         \* cpu_has_1gib_pages
  vphase,      \* "start", "build", then "kernel"; "panic"
  todo,        \* ranges build_pagemap has still to map
  rest,        \* what is left of the range in map_pages
  fbcur,       \* fb_cursor of pmm.c
  meant,       \* history: what each page was last asked to be mapped to
  torn,        \* history: pages that went with a large page
  vcalls

vmmvars == <<ent, gib, vphase, todo, rest, fbcur, meant, torn, vcalls>>

NoTables == [l \in 1 .. 4 |-> [i \in 0 .. (Top - 1) \div Span(l) |-> None]]
NoPiece  == Piece(0, 0, 0, "r")

VmmFrom(large) ==
  /\ ent = NoTables /\ gib \in large /\ vphase = "start" /\ fbcur = Low - 2
  /\ todo = <<>> /\ rest = NoPiece
  /\ meant = [v \in Pages |-> -1] /\ torn = {} /\ vcalls = 0
VmmInit == VmmFrom(BOOLEAN)

----------------------------------------------------------------------------
(* map_page.                                                                *)

Pte(e, l, v) == e[l][v \div Span(l)]
IsTable(e, l, v) == Pte(e, l, v) = Table
IsLarge(e, l, v) == Pte(e, l, v).k = "large"

\* get_next_level for the entry of page v at level l: a table is made (and
\* zeroed) where there is nothing; a large page is left alone.
get_next_level(e, l, v) ==
  IF Pte(e, l, v) # None THEN e
  ELSE [e EXCEPT ![l] = [@ EXCEPT ![v \div Span(l)] = Table],
                 ![l - 1] = [j \in DOMAIN @ |-> IF j \div 2 = v \div Span(l) THEN None ELSE @[j]]]
Store(e, l, v, leaf) == [e EXCEPT ![l] = [@ EXCEPT ![v \div Span(l)] = leaf]]

\* The entry at level l, after the tables above it.
Put(e, l, v, leaf) ==
  LET e4 == get_next_level(e, 4, v)
      e3 == IF l < 3 /\ IsTable(e4, 4, v) THEN get_next_level(e4, 3, v) ELSE e4
      e2 == IF l < 2 /\ IsTable(e3, 3, v) THEN get_next_level(e3, 2, v) ELSE e3
  IN  IF \A k \in l + 1 .. 4 : IsTable(e2, k, v) THEN Store(e2, l, v, leaf) ELSE e2

map_page(e, v, p, fl, l) ==
  IF l = 3 /\ ~gib
  THEN Put(Put(get_next_level(e, 4, v), 2, v, Leaf(2, p, fl)), 2, v + 2, Leaf(2, p + 2, fl))
  ELSE Put(e, l, v, Leaf(l, p, fl))

----------------------------------------------------------------------------
(* build_pagemap: kernel ranges, then identity and direct map by revision.  *)

\* The ranges that are mapped, in order; one of no pages is not mapped.
Skipped(rev, t) ==
  \/ (rev \in 1 .. 2 \/ rev >= 4) /\ t = "reserved"
  \/ rev = 3 /\ t \notin {"usable", "loader", "kernel", "fb"}
FromImage(kn, i) ==
  Piece(kn.ranges[i].base, kn.pbase + (kn.ranges[i].base - kn.vbase), kn.ranges[i].n, kn.ranges[i].fl)
\* An entry of the map, in the identity map (at = 0) or the direct map.
FromMap(rev, e, at) ==
  LET b == IF rev < 3 /\ e.base < Low THEN Low ELSE e.base
      skip == Skipped(rev, e.type) \/ b >= e.top \/ (at = 0 /\ rev # 0)
  IN  Piece(at + b, b, IF skip THEN 0 ELSE e.top - b, "w")
FromFb(rev, e, at) ==
  LET skip == e.type # "fb" \/ e.base >= e.top \/ (at = 0 /\ rev # 0)
  IN  Piece(at + e.base, e.base, IF skip THEN 0 ELSE e.top - e.base, "fb")

\* Two calls for an entry: entry number and place of call i.
EntryNo(i) == (i + 1) \div 2
Where(i) == IF i % 2 = 1 THEN 0 ELSE Hhdm

Ranges(rev, kn, mm) ==
  [i \in 1 .. Len(kn.ranges) |-> FromImage(kn, i)]
  \o <<Piece(1, 1, IF rev = 0 THEN Low - 1 ELSE 0, "w")>>
  \o <<Piece(Hhdm, 0, IF rev < 3 THEN Low ELSE 0, "w")>>
  \o [i \in 1 .. 2 * Len(mm) |-> FromMap(rev, mm[EntryNo(i)], Where(i))]
  \o [i \in 1 .. 2 * Len(mm) |-> FromFb(rev, mm[EntryNo(i)], Where(i))]
  \o <<Piece(0, 0, IF rev >= 1 THEN Low ELSE 0, "w")>>

\* An image without ranges, or with one in the lower half, is refused.
build_pagemap(rev, kn, mm) ==
  /\ vphase = "start"
  /\ IF kn.ranges = <<>> \/ \E i \in DOMAIN kn.ranges : kn.ranges[i].base < Hhdm
     THEN vphase' = "panic" /\ UNCHANGED todo
     ELSE vphase' = "build" /\ todo' = Ranges(rev, kn, mm)
  /\ UNCHANGED <<ent, gib, rest, fbcur, meant, torn, vcalls>>

Building == vphase = "build" /\ UNCHANGED <<gib, fbcur, torn, vcalls>>
Covered(r) == r.virt .. r.virt + r.n - 1

\* The next call of map_pages.
NextRange ==
  /\ Building /\ rest.n = 0 /\ todo # <<>>
  /\ rest' = Head(todo) /\ todo' = Tail(todo)
  /\ meant' = [v \in Pages |-> IF v \in Covered(Head(todo)) THEN Head(todo).phys + (v - Head(todo).virt)
                               ELSE meant[v]]
  /\ UNCHANGED <<ent, vphase>>

\* Mutant: a large page is used when the address fits, whatever is left.
LevelGreedy(v, p, n) == IF v % 4 = 0 /\ p % 4 = 0 THEN 3 ELSE IF v % 2 = 0 /\ p % 2 = 0 THEN 2 ELSE 1

\* The largest page that fits at v and p with n pages left.
Level(v, p, n) ==
  IF v % 4 = 0 /\ p % 4 = 0 /\ n >= 4 THEN 3 ELSE IF v % 2 = 0 /\ p % 2 = 0 /\ n >= 2 THEN 2 ELSE 1

\* A turn of its loop.
Advance(l) == Piece(rest.virt + Span(l), rest.phys + Span(l), rest.n - Span(l), rest.fl)
map_pages ==
  LET l == Level(rest.virt, rest.phys, rest.n)
  IN  /\ Building /\ rest.n > 0
      /\ ent' = map_page(ent, rest.virt, rest.phys, rest.fl, l)
      /\ rest' = Advance(l)
      /\ UNCHANGED <<vphase, todo, meant>>

\* The executable runs.
EnterKernel == Building /\ rest.n = 0 /\ todo = <<>> /\ vphase' = "kernel" /\ UNCHANGED <<ent, rest, todo, meant>>

----------------------------------------------------------------------------
(* The kernel.                                                              *)

\* locate_entry: the level of the entry of v, 0 when a table is missing.
locate_entry(e, v) ==
  IF ~IsTable(e, 4, v) THEN 0
  ELSE IF IsLarge(e, 3, v) THEN 3 ELSE IF ~IsTable(e, 3, v) THEN 0
  ELSE IF IsLarge(e, 2, v) THEN 2 ELSE IF ~IsTable(e, 2, v) THEN 0 ELSE 1
Valid(e, v) == locate_entry(e, v) # 0 /\ Pte(e, locate_entry(e, v), v) # None

\* vmm_query; -1 when the page is not mapped.
vmm_query(e, v) ==
  IF Valid(e, v) THEN Pte(e, locate_entry(e, v), v).p + (v % Span(locate_entry(e, v))) ELSE -1

Called == vphase = "kernel" /\ vcalls < MaxMaps /\ vcalls' = vcalls + 1 /\ UNCHANGED <<gib, todo, rest>>
Kernel == Called /\ UNCHANGED vphase

\* What is known of v when map_page has mapped it to p.
Remapped(v, p) == meant' = [meant EXCEPT ![v] = p] /\ torn' = torn \ {v}

\* vmm_map: 0 and the mapping, or -3 when there is one.
vmm_map(v, p) ==
  /\ Kernel
  /\ IF Valid(ent, v) THEN UNCHANGED <<ent, meant, torn>>
     ELSE ent' = map_page(ent, v, p, "w", 1) /\ Remapped(v, p)
  /\ UNCHANGED fbcur

\* The entry of v, which may be that of a large page.
vmm_unmap(v) ==
  LET l == locate_entry(ent, v)
  IN  /\ Kernel /\ Valid(ent, v)
      /\ ent' = Store(ent, l, v, None)
      /\ torn' = (torn \cup {w \in Pages : w \div Span(l) = v \div Span(l)}) \ {v}
      /\ meant' = [meant EXCEPT ![v] = -1] /\ UNCHANGED fbcur

\* The low 32 bits of the address pmm_alloc returns, which is that of frame p
\* in the direct map: the frame itself only when the map starts at a multiple
\* of 4 GiB.
Masked(p) == (Hhdm + p) % Low

\* vmm_alloc_page: the next frame of the pool.  When the page is already
\* mapped, the pmm_free of the boot loader's allocator is called, which is
\* closed in the kernel: it panics.
vmm_alloc_page(v) ==
  /\ Called /\ fbcur < Low
  /\ fbcur' = fbcur + 1
  /\ IF Valid(ent, v) THEN vphase' = "panic" /\ UNCHANGED <<ent, meant, torn>>
     ELSE ent' = map_page(ent, v, Masked(fbcur), "w", 1) /\ Remapped(v, Masked(fbcur)) /\ UNCHANGED vphase

\* map_kernel_heap maps over what is there, if that is not a large page.
map_kernel_heap(v) ==
  /\ Kernel /\ fbcur < Low /\ fbcur' = fbcur + 1
  /\ ent' = map_page(ent, v, fbcur, "w", 1)
  /\ IF locate_entry(ent, v) > 1 THEN UNCHANGED <<meant, torn>> ELSE Remapped(v, fbcur)

VmmNext ==
  \/ \E rev \in 0 .. 4, kn \in Kernels, mm \in MemMaps : build_pagemap(rev, kn, mm)
  \/ NextRange \/ map_pages \/ EnterKernel
  \/ \E v \in Touched : vmm_unmap(v) \/ vmm_alloc_page(v) \/ map_kernel_heap(v)
  \/ \E v \in Touched, p \in Given : vmm_map(v, p)
VmmSpec == VmmInit /\ [][VmmNext]_vmmvars

----------------------------------------------------------------------------
\* Every page translates to what it was last mapped to, however large and
\* small pages were put over each other, as soon as map_pages is past it, and
\* no other page does; only the pages that shared a large page with one that
\* was unmapped are lost with it, until they are mapped again.
Translates ==
  \A v \in Pages : v \notin Covered(rest) => vmm_query(ent, v) = IF v \in torn THEN -1 ELSE meant[v]
=============================================================================
