----------------------------- MODULE BootProofs -----------------------------
(***************************************************************************)
(* Two parts of the boot loader.  The page tables of mm/vmm.c translate     *)
(* every page to what it was last mapped to, for every memory map and       *)
(* image and although a large page in the way of a small one stays.         *)
(*                                                                          *)
(* limine_load of protos/limine.c enters an executable only when each of    *)
(* its requests that can be answered has its answer, for every image and    *)
(* every machine.                                                           *)
(***************************************************************************)
EXTENDS Vmm, LimineProto, SequenceTheorems, WellFoundedInduction, TLAPS

-----------------------------------------------------------------------------
(* The invariant of the page tables.                                        *)

Larges == [k : {"large"}, p : Nat, fl : Flags]
Smalls == [k : {"page"}, p : Nat, fl : Flags]
Idx(n) == 0 .. (Top - 1) \div n

\* What the four levels may hold.
EntOK(e) ==
  /\ e = [l \in 1 .. 4 |-> e[l]]
  /\ e[4] \in [Idx(8) -> {None, Table}]
  /\ e[3] \in [Idx(4) -> {None, Table} \cup Larges]
  /\ e[2] \in [Idx(2) -> {None, Table} \cup Larges]
  /\ e[1] \in [Idx(1) -> {None} \cup Smalls]

\* Where page v goes while the loader builds, when the image is loaded d
\* frames from its addresses.
Target(d, v) == IF v < Hhdm THEN v ELSE IF v < KernelBase THEN v - Hhdm ELSE v + d

\* Ranges that map nothing, or pages to where they go.
Sound(d) ==
  {r \in [virt : Nat, phys : Nat, n : Nat, fl : Flags] :
     \A v \in Covered(r) : v \in Pages /\ r.phys + (v - r.virt) = Target(d, v)}

\* Every range still to be mapped agrees with every mapping made before, so
\* that it does not matter which of them a large page hides.
Aimed(d) ==
  /\ todo \in Seq(Sound(d)) /\ rest \in Sound(d)
  /\ \A v \in Pages : meant[v] \in {-1, Target(d, v)} /\ vmm_query(ent, v) \in {-1, Target(d, v)}
  /\ \A v \in Covered(rest) : meant[v] = Target(d, v)

VmmTypeOK ==
  /\ EntOK(ent) /\ gib \in BOOLEAN /\ vphase \in {"start", "build", "kernel", "panic"}
  /\ rest \in [virt : Nat, phys : Nat, n : Nat, fl : Flags]
  /\ fbcur \in Nat /\ meant \in [Pages -> Nat \cup {-1}] /\ torn \in SUBSET Pages /\ vcalls \in Nat

VmmInv ==
  /\ VmmTypeOK
  /\ vphase # "build" => rest.n = 0
  /\ vphase = "start" => \A v \in Pages : meant[v] = -1 /\ vmm_query(ent, v) = -1
  /\ vphase \in {"start", "build"} => torn = {}
  /\ vphase = "build" => \E kn \in Kernels : Aimed(kn.pbase - kn.vbase)
  /\ Translates

-----------------------------------------------------------------------------
(* Entries and blocks of pages.                                             *)

LEMMA Spans == Span(1) = 1 /\ Span(2) = 2 /\ Span(3) = 4 /\ Span(4) = 8
BY DEF Span

\* The kinds of entries are told apart by their field k.
LEMMA Kinds ==
  /\ None # Table /\ None.k = "none" /\ Table.k = "table"
  /\ \A x \in Larges : x # None /\ x # Table /\ x.k = "large" /\ x.p \in Nat
  /\ \A x \in Smalls : x # None /\ x.p \in Nat
<1>1. None # Table /\ None.k = "none" /\ Table.k = "table"  BY DEF None, Table
<1>2. \A x \in Larges : x.k = "large" /\ x.p \in Nat  BY DEF Larges
<1>3. \A x \in Smalls : x.k = "page" /\ x.p \in Nat  BY DEF Smalls
<1> QED  BY <1>1, <1>2, <1>3

\* A block of one level lies in one block of the next.
LEMMA Blocks ==
  ASSUME NEW v \in Nat
  PROVE  /\ v \div 1 = v /\ v \div 2 \in Nat /\ v \div 4 \in Nat /\ v \div 8 \in Nat
         /\ (v \div 1) \div 2 = v \div 2 /\ (v \div 2) \div 2 = v \div 4 /\ (v \div 4) \div 2 = v \div 8
OBVIOUS

\* The index of a page is in every table's range.
LEMMA InTables ==
  ASSUME NEW v \in Pages
  PROVE  v \div 1 \in Idx(1) /\ v \div 2 \in Idx(2) /\ v \div 4 \in Idx(4) /\ v \div 8 \in Idx(8)
BY VmmAssumption DEF Pages, Idx

\* The entries of a page have the kinds of their levels.
LEMMA PteKinds ==
  ASSUME NEW e, EntOK(e), NEW v \in Pages
  PROVE  /\ Pte(e, 4, v) = e[4][v \div 8] /\ Pte(e, 3, v) = e[3][v \div 4]
         /\ Pte(e, 2, v) = e[2][v \div 2] /\ Pte(e, 1, v) = e[1][v \div 1]
         /\ Pte(e, 4, v) \in {None, Table} /\ Pte(e, 3, v) \in {None, Table} \cup Larges
         /\ Pte(e, 2, v) \in {None, Table} \cup Larges /\ Pte(e, 1, v) \in {None} \cup Smalls
BY InTables, Spans DEF EntOK, Pte

\* The level of an entry is one of three, and a missing one is not valid.
LEMMA LocateRange ==
  ASSUME NEW e, NEW v
  PROVE  locate_entry(e, v) \in 0 .. 3
BY DEF locate_entry

-----------------------------------------------------------------------------
(* Writing an entry.                                                        *)

\* What may be stored at level l.
Fits(l, x) == x \in {None} \cup (IF l = 1 THEN Smalls ELSE {Table} \cup Larges)

\* Store changes the entries of one block at one level.
LEMMA StoreFacts ==
  ASSUME NEW e, EntOK(e), NEW l \in 1 .. 3, NEW v \in Pages, NEW x, Fits(l, x)
  PROVE  /\ EntOK(Store(e, l, v, x))
         /\ \A w \in Pages, k \in 1 .. 4 :
              Pte(Store(e, l, v, x), k, w) =
                IF k = l /\ w \div Span(l) = v \div Span(l) THEN x ELSE Pte(e, k, w)
<1> DEFINE f == Store(e, l, v, x)
<1>e. e = [i \in 1 .. 4 |-> e[i]]  BY DEF EntOK
<1>1. CASE l = 3
  <2>1. f = [i \in 1 .. 4 |-> IF i = 3 THEN [e[3] EXCEPT ![v \div 4] = x] ELSE e[i]]
    BY <1>1, <1>e, Spans DEF Store
  <2>2. f[3] = [e[3] EXCEPT ![v \div 4] = x] /\ f[1] = e[1] /\ f[2] = e[2] /\ f[4] = e[4]
    BY <2>1
  <2>3. x \in {None, Table} \cup Larges  BY <1>1 DEF Fits
  <2>4. EntOK(f)  BY <2>1, <2>2, <2>3 DEF EntOK
  <2>5. ASSUME NEW w \in Pages, NEW k \in 1 .. 4
        PROVE  Pte(f, k, w) = IF k = l /\ w \div Span(l) = v \div Span(l) THEN x ELSE Pte(e, k, w)
    <3>1. CASE k = 3
      <4>1. e[3] \in [Idx(4) -> {None, Table} \cup Larges] /\ w \div 4 \in Idx(4)  BY InTables DEF EntOK
      <4>2. f[3][w \div 4] = IF w \div 4 = v \div 4 THEN x ELSE e[3][w \div 4]  BY <4>1, <2>2
      <4> QED  BY <3>1, <1>1, <4>2, Spans DEF Pte
    <3>2. CASE k # 3
      <4>1. f[k] = e[k]  BY <3>2, <2>1
      <4> QED  BY <4>1, <3>2, <1>1 DEF Pte
    <3> QED  BY <3>1, <3>2
  <2> QED  BY <2>4, <2>5
<1>2. CASE l = 2
  <2>1. f = [i \in 1 .. 4 |-> IF i = 2 THEN [e[2] EXCEPT ![v \div 2] = x] ELSE e[i]]
    BY <1>2, <1>e, Spans DEF Store
  <2>2. f[2] = [e[2] EXCEPT ![v \div 2] = x] /\ f[1] = e[1] /\ f[3] = e[3] /\ f[4] = e[4]
    BY <2>1
  <2>3. x \in {None, Table} \cup Larges  BY <1>2 DEF Fits
  <2>4. EntOK(f)  BY <2>1, <2>2, <2>3 DEF EntOK
  <2>5. ASSUME NEW w \in Pages, NEW k \in 1 .. 4
        PROVE  Pte(f, k, w) = IF k = l /\ w \div Span(l) = v \div Span(l) THEN x ELSE Pte(e, k, w)
    <3>1. CASE k = 2
      <4>1. e[2] \in [Idx(2) -> {None, Table} \cup Larges] /\ w \div 2 \in Idx(2)  BY InTables DEF EntOK
      <4>2. f[2][w \div 2] = IF w \div 2 = v \div 2 THEN x ELSE e[2][w \div 2]  BY <4>1, <2>2
      <4> QED  BY <3>1, <1>2, <4>2, Spans DEF Pte
    <3>2. CASE k # 2
      <4>1. f[k] = e[k]  BY <3>2, <2>1
      <4> QED  BY <4>1, <3>2, <1>2 DEF Pte
    <3> QED  BY <3>1, <3>2
  <2> QED  BY <2>4, <2>5
<1>3. CASE l = 1
  <2>1. f = [i \in 1 .. 4 |-> IF i = 1 THEN [e[1] EXCEPT ![v \div 1] = x] ELSE e[i]]
    BY <1>3, <1>e, Spans DEF Store
  <2>2. f[1] = [e[1] EXCEPT ![v \div 1] = x] /\ f[2] = e[2] /\ f[3] = e[3] /\ f[4] = e[4]
    BY <2>1
  <2>3. x \in {None} \cup Smalls  BY <1>3 DEF Fits
  <2>4. EntOK(f)  BY <2>1, <2>2, <2>3 DEF EntOK
  <2>5. ASSUME NEW w \in Pages, NEW k \in 1 .. 4
        PROVE  Pte(f, k, w) = IF k = l /\ w \div Span(l) = v \div Span(l) THEN x ELSE Pte(e, k, w)
    <3>1. CASE k = 1
      <4>1. e[1] \in [Idx(1) -> {None} \cup Smalls] /\ w \div 1 \in Idx(1)  BY InTables DEF EntOK
      <4>2. f[1][w \div 1] = IF w \div 1 = v \div 1 THEN x ELSE e[1][w \div 1]  BY <4>1, <2>2
      <4> QED  BY <3>1, <1>3, <4>2, Spans DEF Pte
    <3>2. CASE k # 1
      <4>1. f[k] = e[k]  BY <3>2, <2>1
      <4> QED  BY <4>1, <3>2, <1>3 DEF Pte
    <3> QED  BY <3>1, <3>2
  <2> QED  BY <2>4, <2>5
<1> QED  BY <1>1, <1>2, <1>3

\* A new table: it is entered at its level, and empty one level below.
LEMMA NewTable ==
  ASSUME NEW e, EntOK(e), NEW l \in 2 .. 4, NEW v \in Pages, Pte(e, l, v) = None
  PROVE  /\ EntOK(get_next_level(e, l, v))
         /\ \A w \in Pages, k \in 1 .. 4 :
              Pte(get_next_level(e, l, v), k, w) =
                IF w \div Span(l) # v \div Span(l) THEN Pte(e, k, w)
                ELSE IF k = l THEN Table ELSE IF k = l - 1 THEN None ELSE Pte(e, k, w)
<1> DEFINE f == get_next_level(e, l, v)
<1>e. e = [i \in 1 .. 4 |-> e[i]]  BY DEF EntOK
<1>n. ~(Pte(e, l, v) # None)  OBVIOUS
<1>1. CASE l = 4
  <2>1. f = [i \in 1 .. 4 |-> IF i = 4 THEN [e[4] EXCEPT ![v \div 8] = Table]
                               ELSE IF i = 3 THEN [j \in DOMAIN e[3] |-> IF j \div 2 = v \div 8 THEN None ELSE e[3][j]]
                               ELSE e[i]]
    BY <1>1, <1>e, <1>n, Spans DEF get_next_level
  <2>2. /\ f[4] = [e[4] EXCEPT ![v \div 8] = Table]
        /\ f[3] = [j \in DOMAIN e[3] |-> IF j \div 2 = v \div 8 THEN None ELSE e[3][j]]
        /\ \A i \in 1 .. 4 \ {4, 3} : f[i] = e[i]
    BY <2>1
  <2>3. f[4] \in [Idx(8) -> {None, Table}]  BY <2>2, InTables DEF EntOK
  <2>4. f[3] \in [Idx(4) -> {None, Table} \cup Larges]  BY <2>2 DEF EntOK
  <2>5. EntOK(f)  BY <2>1, <2>2, <2>3, <2>4 DEF EntOK
  <2>6. ASSUME NEW w \in Pages, NEW k \in 1 .. 4
        PROVE  Pte(f, k, w) = IF w \div Span(l) # v \div Span(l) THEN Pte(e, k, w)
                              ELSE IF k = l THEN Table ELSE IF k = l - 1 THEN None ELSE Pte(e, k, w)
    <3>1. CASE k = 4
      <4>1. e[4] \in [Idx(8) -> {None, Table}] /\ w \div 8 \in Idx(8)  BY InTables DEF EntOK
      <4>2. f[4][w \div 8] = IF w \div 8 = v \div 8 THEN Table ELSE e[4][w \div 8]  BY <4>1, <2>2
      <4> QED  BY <3>1, <1>1, <4>2, Spans DEF Pte
    <3>2. CASE k = 3
      <4>1. DOMAIN e[3] = Idx(4) /\ w \div 4 \in Idx(4)  BY InTables DEF EntOK
      <4>2. f[3][w \div 4] = IF (w \div 4) \div 2 = v \div 8 THEN None ELSE e[3][w \div 4]  BY <4>1, <2>2
      <4>3. (w \div 4) \div 2 = w \div 8  BY Blocks DEF Pages
      <4> QED  BY <3>2, <1>1, <4>2, <4>3, Spans DEF Pte
    <3>3. CASE k \notin {4, 3}
      <4>1. f[k] = e[k]  BY <3>3, <2>2
      <4> QED  BY <4>1, <3>3, <1>1 DEF Pte
    <3> QED  BY <3>1, <3>2, <3>3
  <2> QED  BY <2>5, <2>6
<1>2. CASE l = 3
  <2>1. f = [i \in 1 .. 4 |-> IF i = 3 THEN [e[3] EXCEPT ![v \div 4] = Table]
                               ELSE IF i = 2 THEN [j \in DOMAIN e[2] |-> IF j \div 2 = v \div 4 THEN None ELSE e[2][j]]
                               ELSE e[i]]
    BY <1>2, <1>e, <1>n, Spans DEF get_next_level
  <2>2. /\ f[3] = [e[3] EXCEPT ![v \div 4] = Table]
        /\ f[2] = [j \in DOMAIN e[2] |-> IF j \div 2 = v \div 4 THEN None ELSE e[2][j]]
        /\ \A i \in 1 .. 4 \ {3, 2} : f[i] = e[i]
    BY <2>1
  <2>3. f[3] \in [Idx(4) -> {None, Table} \cup Larges]  BY <2>2, InTables DEF EntOK
  <2>4. f[2] \in [Idx(2) -> {None, Table} \cup Larges]  BY <2>2 DEF EntOK
  <2>5. EntOK(f)  BY <2>1, <2>2, <2>3, <2>4 DEF EntOK
  <2>6. ASSUME NEW w \in Pages, NEW k \in 1 .. 4
        PROVE  Pte(f, k, w) = IF w \div Span(l) # v \div Span(l) THEN Pte(e, k, w)
                              ELSE IF k = l THEN Table ELSE IF k = l - 1 THEN None ELSE Pte(e, k, w)
    <3>1. CASE k = 3
      <4>1. e[3] \in [Idx(4) -> {None, Table} \cup Larges] /\ w \div 4 \in Idx(4)  BY InTables DEF EntOK
      <4>2. f[3][w \div 4] = IF w \div 4 = v \div 4 THEN Table ELSE e[3][w \div 4]  BY <4>1, <2>2
      <4> QED  BY <3>1, <1>2, <4>2, Spans DEF Pte
    <3>2. CASE k = 2
      <4>1. DOMAIN e[2] = Idx(2) /\ w \div 2 \in Idx(2)  BY InTables DEF EntOK
      <4>2. f[2][w \div 2] = IF (w \div 2) \div 2 = v \div 4 THEN None ELSE e[2][w \div 2]  BY <4>1, <2>2
      <4>3. (w \div 2) \div 2 = w \div 4  BY Blocks DEF Pages
      <4> QED  BY <3>2, <1>2, <4>2, <4>3, Spans DEF Pte
    <3>3. CASE k \notin {3, 2}
      <4>1. f[k] = e[k]  BY <3>3, <2>2
      <4> QED  BY <4>1, <3>3, <1>2 DEF Pte
    <3> QED  BY <3>1, <3>2, <3>3
  <2> QED  BY <2>5, <2>6
<1>3. CASE l = 2
  <2>1. f = [i \in 1 .. 4 |-> IF i = 2 THEN [e[2] EXCEPT ![v \div 2] = Table]
                               ELSE IF i = 1 THEN [j \in DOMAIN e[1] |-> IF j \div 2 = v \div 2 THEN None ELSE e[1][j]]
                               ELSE e[i]]
    BY <1>3, <1>e, <1>n, Spans DEF get_next_level
  <2>2. /\ f[2] = [e[2] EXCEPT ![v \div 2] = Table]
        /\ f[1] = [j \in DOMAIN e[1] |-> IF j \div 2 = v \div 2 THEN None ELSE e[1][j]]
        /\ \A i \in 1 .. 4 \ {2, 1} : f[i] = e[i]
    BY <2>1
  <2>3. f[2] \in [Idx(2) -> {None, Table} \cup Larges]  BY <2>2, InTables DEF EntOK
  <2>4. f[1] \in [Idx(1) -> {None} \cup Smalls]  BY <2>2 DEF EntOK
  <2>5. EntOK(f)  BY <2>1, <2>2, <2>3, <2>4 DEF EntOK
  <2>6. ASSUME NEW w \in Pages, NEW k \in 1 .. 4
        PROVE  Pte(f, k, w) = IF w \div Span(l) # v \div Span(l) THEN Pte(e, k, w)
                              ELSE IF k = l THEN Table ELSE IF k = l - 1 THEN None ELSE Pte(e, k, w)
    <3>1. CASE k = 2
      <4>1. e[2] \in [Idx(2) -> {None, Table} \cup Larges] /\ w \div 2 \in Idx(2)  BY InTables DEF EntOK
      <4>2. f[2][w \div 2] = IF w \div 2 = v \div 2 THEN Table ELSE e[2][w \div 2]  BY <4>1, <2>2
      <4> QED  BY <3>1, <1>3, <4>2, Spans DEF Pte
    <3>2. CASE k = 1
      <4>1. DOMAIN e[1] = Idx(1) /\ w \div 1 \in Idx(1)  BY InTables DEF EntOK
      <4>2. f[1][w \div 1] = IF (w \div 1) \div 2 = v \div 2 THEN None ELSE e[1][w \div 1]  BY <4>1, <2>2
      <4>3. (w \div 1) \div 2 = w \div 2  BY Blocks DEF Pages
      <4> QED  BY <3>2, <1>3, <4>2, <4>3, Spans DEF Pte
    <3>3. CASE k \notin {2, 1}
      <4>1. f[k] = e[k]  BY <3>3, <2>2
      <4> QED  BY <4>1, <3>3, <1>3 DEF Pte
    <3> QED  BY <3>1, <3>2, <3>3
  <2> QED  BY <2>5, <2>6
<1> QED  BY <1>1, <1>2, <1>3

\* The level of the large page that page v is in, or 0.
Big(e, v) == IF locate_entry(e, v) >= 2 THEN locate_entry(e, v) ELSE 0

\* Walking down a level changes no translation, whatever lies above: where a
\* table is made there was nothing before and there is nothing after.
LEMMA NextLevel ==
  ASSUME NEW e, EntOK(e), NEW l \in 2 .. 4, NEW v \in Pages
  PROVE  LET f == get_next_level(e, l, v)
         IN  /\ EntOK(f) /\ Pte(f, l, v) = IF Pte(e, l, v) = None THEN Table ELSE Pte(e, l, v)
             /\ \A k \in l + 1 .. 4 : Pte(f, k, v) = Pte(e, k, v)
             /\ \A w \in Pages : vmm_query(f, w) = vmm_query(e, w) /\ Big(f, w) = Big(e, w)
<1> DEFINE f == get_next_level(e, l, v)
<1>1. CASE Pte(e, l, v) # None
  BY <1>1 DEF get_next_level
<1>2. CASE Pte(e, l, v) = None
  <2>1. /\ EntOK(f)
        /\ \A w \in Pages, k \in 1 .. 4 :
              Pte(f, k, w) = IF w \div Span(l) # v \div Span(l) THEN Pte(e, k, w)
                             ELSE IF k = l THEN Table ELSE IF k = l - 1 THEN None ELSE Pte(e, k, w)
    BY <1>2, NewTable
  <2>2. ASSUME NEW w \in Pages
        PROVE  vmm_query(f, w) = vmm_query(e, w) /\ Big(f, w) = Big(e, w)
    <3>1. CASE w \div Span(l) # v \div Span(l)
      <4>1. \A k \in 1 .. 4 : Pte(f, k, w) = Pte(e, k, w)  BY <2>1, <3>1
      <4>2. locate_entry(f, w) = locate_entry(e, w)  BY <4>1 DEF locate_entry, IsTable, IsLarge
      <4>3. locate_entry(e, w) # 0 => Pte(f, locate_entry(e, w), w) = Pte(e, locate_entry(e, w), w)
        BY <4>1, LocateRange
      <4> QED  BY <4>2, <4>3 DEF vmm_query, Valid, Big
    <3>2. CASE w \div Span(l) = v \div Span(l)
      <4>1. Pte(f, l, w) = Table /\ Pte(f, l - 1, w) = None
        BY <2>1, <3>2
      <4>2. \A k \in 1 .. 4 : k # l /\ k # l - 1 => Pte(f, k, w) = Pte(e, k, w)
        BY <2>1, <3>2
      <4>3. Pte(e, l, w) = None  BY <1>2, <3>2 DEF Pte
      <4>4. CASE l = 4
        <5>1. Pte(f, 3, w) = None /\ Pte(e, 4, w) = None  BY <4>1, <4>3, <4>4
        <5>2. locate_entry(f, w) = 0 /\ locate_entry(e, w) = 0
          BY <5>1, Kinds DEF locate_entry, IsTable, IsLarge
        <5> QED  BY <5>2 DEF vmm_query, Valid, Big
      <4>5. CASE l = 3
        <5>1. Pte(f, 3, w) = Table /\ Pte(f, 2, w) = None /\ Pte(e, 3, w) = None
          BY <4>1, <4>3, <4>5
        <5>2. locate_entry(f, w) = 0 /\ locate_entry(e, w) = 0
          BY <5>1, Kinds DEF locate_entry, IsTable, IsLarge
        <5> QED  BY <5>2 DEF vmm_query, Valid, Big
      <4>6. CASE l = 2
        <5>1. Pte(f, 2, w) = Table /\ Pte(f, 1, w) = None /\ Pte(e, 2, w) = None
          BY <4>1, <4>3, <4>6
        <5>2. Pte(f, 3, w) = Pte(e, 3, w) /\ Pte(f, 4, w) = Pte(e, 4, w)  BY <4>2, <4>6
        <5>3. \/ locate_entry(f, w) = 3 /\ locate_entry(e, w) = 3
              \/ locate_entry(f, w) \in {0, 1} /\ locate_entry(e, w) = 0
          BY <5>1, <5>2, Kinds DEF locate_entry, IsTable, IsLarge
        <5> QED  BY <5>1, <5>2, <5>3 DEF vmm_query, Valid, Big
      <4> QED  BY <4>4, <4>5, <4>6
    <3> QED  BY <3>1, <3>2
  <2>3. Pte(f, l, v) = Table  BY <2>1
  <2>4. \A k \in l + 1 .. 4 : Pte(f, k, v) = Pte(e, k, v)  BY <2>1
  <2> QED  BY <1>2, <2>1, <2>2, <2>3, <2>4
<1> QED  BY <1>1, <1>2

\* From e to f the block of v at level l is made to translate to p and on.
BlockIs(f, e, l, v, p) ==
  \A w \in Pages : vmm_query(f, w) =
    IF w \div Span(l) = v \div Span(l) THEN p + (w % Span(l)) ELSE vmm_query(e, w)
Unmoved(f, e) == \A w \in Pages : vmm_query(f, w) = vmm_query(e, w)

\* A leaf stored below tables is what its block translates to, and no other
\* page is affected.
LEMMA StoreLeaf ==
  ASSUME NEW e, EntOK(e), NEW l \in 1 .. 3, NEW v \in Pages, NEW p \in Nat, NEW fl \in Flags,
         \A k \in l + 1 .. 4 : IsTable(e, k, v)
  PROVE  LET f == Store(e, l, v, Leaf(l, p, fl))
         IN  EntOK(f) /\ BlockIs(f, e, l, v, p)
<1> DEFINE x == Leaf(l, p, fl)
           f == Store(e, l, v, x)
<1>1. x.p = p /\ (IF l = 1 THEN x \in Smalls ELSE x \in Larges)
  BY DEF Leaf, Smalls, Larges
<1>2. Fits(l, x)  BY <1>1 DEF Fits
<1> HIDE DEF x
<1>3. /\ EntOK(f)
      /\ \A w \in Pages, k \in 1 .. 4 :
            Pte(f, k, w) = IF k = l /\ w \div Span(l) = v \div Span(l) THEN x ELSE Pte(e, k, w)
  BY <1>2, StoreFacts
<1> HIDE DEF f
<1>4. ASSUME NEW w \in Pages, w \div Span(l) # v \div Span(l)
      PROVE  vmm_query(f, w) = vmm_query(e, w)
  <2>1. \A k \in 1 .. 4 : Pte(f, k, w) = Pte(e, k, w)  BY <1>3, <1>4
  <2>2. locate_entry(f, w) = locate_entry(e, w)  BY <2>1 DEF locate_entry, IsTable, IsLarge
  <2>3. locate_entry(e, w) # 0 => Pte(f, locate_entry(e, w), w) = Pte(e, locate_entry(e, w), w)
    BY <2>1, LocateRange
  <2> QED  BY <2>2, <2>3 DEF vmm_query, Valid
<1>5. ASSUME NEW w \in Pages, w \div Span(l) = v \div Span(l)
      PROVE  vmm_query(f, w) = p + (w % Span(l))
  <2>1. \A k \in l + 1 .. 4 : w \div Span(k) = v \div Span(k)
    <3>1. w \in Nat /\ v \in Nat  BY DEF Pages
    <3>2. /\ l = 1 => w \div 1 = v \div 1
          /\ l = 2 => w \div 2 = v \div 2
          /\ l = 3 => w \div 4 = v \div 4
      BY <1>5, Spans
    <3>3. w \div 4 = v \div 4 => w \div 8 = v \div 8  BY <3>1, Blocks
    <3>4. w \div 2 = v \div 2 => w \div 4 = v \div 4  BY <3>1, Blocks
    <3>5. w \div 1 = v \div 1 => w \div 2 = v \div 2  BY <3>1, Blocks
    <3>6. CASE l = 1
      <4>1. w \div 2 = v \div 2 /\ w \div 4 = v \div 4 /\ w \div 8 = v \div 8  BY <3>2, <3>3, <3>4, <3>5, <3>6
      <4> QED  BY <4>1, Spans, <3>6
    <3>7. CASE l = 2
      <4>1. w \div 4 = v \div 4 /\ w \div 8 = v \div 8  BY <3>2, <3>3, <3>4, <3>7
      <4> QED  BY <4>1, Spans, <3>7
    <3>8. CASE l = 3
      <4>1. w \div 8 = v \div 8  BY <3>2, <3>3, <3>8
      <4> QED  BY <4>1, Spans, <3>8
    <3> QED  BY <3>6, <3>7, <3>8
  <2>2. \A k \in l + 1 .. 4 : Pte(e, k, w) = Table  BY <2>1 DEF IsTable, Pte
  <2>3. Pte(f, l, w) = x /\ \A k \in l + 1 .. 4 : Pte(f, k, w) = Table  BY <1>3, <1>5, <2>2
  <2>4. locate_entry(f, w) = l
    <3>1. CASE l = 3
      BY <3>1, <2>3, <1>1, Kinds DEF locate_entry, IsTable, IsLarge
    <3>2. CASE l = 2
      BY <3>2, <2>3, <1>1, Kinds DEF locate_entry, IsTable, IsLarge
    <3>3. CASE l = 1
      BY <3>3, <2>3, <1>1, Kinds DEF locate_entry, IsTable, IsLarge
    <3> QED  BY <3>1, <3>2, <3>3
  <2>5. x # None  BY <1>1, Kinds
  <2> QED  BY <2>3, <2>4, <2>5, <1>1 DEF vmm_query, Valid
<1>6. BlockIs(f, e, l, v, p)  BY <1>4, <1>5 DEF BlockIs
<1> QED  BY <1>3, <1>6 DEF f, x

\* Put: the block translates to the leaf, unless a larger page is in the way;
\* then nothing changes.
LEMMA PutFacts ==
  ASSUME NEW e, EntOK(e), NEW l \in 1 .. 3, NEW v \in Pages, NEW p \in Nat, NEW fl \in Flags
  PROVE  LET f == Put(e, l, v, Leaf(l, p, fl))
         IN  EntOK(f) /\ (Big(e, v) <= l => BlockIs(f, e, l, v, p)) /\ (Big(e, v) > l => Unmoved(f, e))
<1> DEFINE x  == Leaf(l, p, fl)
           e4 == get_next_level(e, 4, v)
           e3 == IF l < 3 /\ IsTable(e4, 4, v) THEN get_next_level(e4, 3, v) ELSE e4
           e2 == IF l < 2 /\ IsTable(e3, 3, v) THEN get_next_level(e3, 2, v) ELSE e3
           f  == Put(e, l, v, x)
<1>f. f = IF \A k \in l + 1 .. 4 : IsTable(e2, k, v) THEN Store(e2, l, v, x) ELSE e2
  BY DEF Put
<1>4. /\ EntOK(e4) /\ Pte(e4, 4, v) = Table
      /\ \A w \in Pages : vmm_query(e4, w) = vmm_query(e, w) /\ Big(e4, w) = Big(e, w)
  BY NextLevel, PteKinds
<1> HIDE DEF e4
<1>a. IsTable(e4, 4, v)  BY <1>4 DEF IsTable
<1>b. Big(e, v) \in {0, 2, 3}  BY LocateRange DEF Big
<1>s. SUFFICES /\ EntOK(e2) /\ (\A w \in Pages : vmm_query(e2, w) = vmm_query(e, w))
               /\ (\A k \in l + 1 .. 4 : IsTable(e2, k, v)) <=> Big(e, v) <= l
  <2>1. CASE Big(e, v) <= l
    <3>1. f = Store(e2, l, v, x)  BY <1>f, <1>s, <2>1
    <3>2. EntOK(e2) /\ \A k \in l + 1 .. 4 : IsTable(e2, k, v)  BY <1>s, <2>1
    <3> HIDE DEF e2, f
    <3>3. EntOK(f) /\ BlockIs(f, e2, l, v, p)  BY <3>1, <3>2, StoreLeaf
    <3>4. BlockIs(f, e, l, v, p)  BY <3>3, <1>s DEF BlockIs
    <3>5. ~(Big(e, v) > l)  BY <2>1, <1>b
    <3> QED  BY <3>3, <3>4, <3>5 DEF f
  <2>2. CASE ~(Big(e, v) <= l)
    <3>1. f = e2  BY <1>f, <1>s, <2>2
    <3>2. Unmoved(f, e)  BY <3>1, <1>s DEF Unmoved
    <3> QED  BY <3>1, <3>2, <1>s, <2>2
  <2> QED  BY <2>1, <2>2
<1>5. CASE l = 3
  <2>1. e2 = e4  BY <1>5
  <2>2. Big(e, v) <= l  BY <1>5, <1>b
  <2> QED  BY <2>1, <2>2, <1>4, <1>a, <1>5
<1>6. CASE l < 3
  <2>0. e3 = get_next_level(e4, 3, v)  BY <1>6, <1>a
  <2>1. /\ EntOK(e3) /\ Pte(e3, 3, v) = IF Pte(e4, 3, v) = None THEN Table ELSE Pte(e4, 3, v)
        /\ Pte(e3, 4, v) = Table
        /\ \A w \in Pages : vmm_query(e3, w) = vmm_query(e4, w) /\ Big(e3, w) = Big(e4, w)
    BY <2>0, <1>4, NextLevel
  <2> HIDE DEF e3
  <2>2. Pte(e3, 3, v) = Table \/ Pte(e3, 3, v) \in Larges
    BY <2>1, <1>4, PteKinds
  <2>3. \A w \in Pages : vmm_query(e3, w) = vmm_query(e, w) /\ Big(e3, w) = Big(e, w)
    BY <2>1, <1>4
  <2>4. CASE Pte(e3, 3, v) \in Larges
    <3>1. ~IsTable(e3, 3, v) /\ IsLarge(e3, 3, v) /\ IsTable(e3, 4, v)
      BY <2>4, <2>1, Kinds DEF IsTable, IsLarge
    <3>2. e2 = e3  BY <3>1
    <3>3. Big(e3, v) = 3  BY <3>1 DEF Big, locate_entry
    <3>4. Big(e, v) = 3  BY <3>3, <2>3
    <3>5. ~(\A k \in l + 1 .. 4 : IsTable(e2, k, v))  BY <3>1, <3>2, <1>6
    <3> QED  BY <3>2, <3>4, <3>5, <2>1, <2>3, <1>6
  <2>5. CASE Pte(e3, 3, v) = Table
    <3>1. IsTable(e3, 3, v) /\ ~IsLarge(e3, 3, v) /\ IsTable(e3, 4, v)
      BY <2>5, <2>1, Kinds DEF IsTable, IsLarge
    <3>2. Big(e3, v) # 3  BY <3>1 DEF Big, locate_entry
    <3>3. CASE l = 2
      <4>1. e2 = e3  BY <3>3
      <4>2. Big(e, v) <= l  BY <3>2, <3>3, <2>3, <1>b
      <4>3. \A k \in l + 1 .. 4 : IsTable(e2, k, v)  BY <3>1, <4>1, <3>3
      <4> QED  BY <4>1, <4>2, <4>3, <2>1, <2>3
    <3>4. CASE l = 1
      <4>0. e2 = get_next_level(e3, 2, v)  BY <3>4, <3>1
      <4>1. /\ EntOK(e2) /\ Pte(e2, 2, v) = IF Pte(e3, 2, v) = None THEN Table ELSE Pte(e3, 2, v)
            /\ Pte(e2, 3, v) = Table /\ Pte(e2, 4, v) = Table
            /\ \A w \in Pages : vmm_query(e2, w) = vmm_query(e3, w) /\ Big(e2, w) = Big(e3, w)
        BY <4>0, <2>1, <2>5, NextLevel
      <4> HIDE DEF e2
      <4>2. Pte(e2, 2, v) = Table \/ Pte(e2, 2, v) \in Larges
        BY <4>1, <2>1, PteKinds
      <4>3. IsTable(e2, 3, v) /\ ~IsLarge(e2, 3, v) /\ IsTable(e2, 4, v)
        BY <4>1, Kinds DEF IsTable, IsLarge
      <4>4. Big(e2, v) = Big(e, v)  BY <4>1, <2>3
      <4>5. CASE Pte(e2, 2, v) = Table
        <5>1. IsTable(e2, 2, v) /\ ~IsLarge(e2, 2, v)  BY <4>5, Kinds DEF IsTable, IsLarge
        <5>2. Big(e2, v) = 0  BY <5>1, <4>3 DEF Big, locate_entry
        <5>3. \A k \in l + 1 .. 4 : IsTable(e2, k, v)  BY <5>1, <4>3, <3>4
        <5> QED  BY <5>2, <5>3, <4>4, <4>1, <2>3, <3>4
      <4>6. CASE Pte(e2, 2, v) \in Larges
        <5>1. ~IsTable(e2, 2, v) /\ IsLarge(e2, 2, v)  BY <4>6, Kinds DEF IsTable, IsLarge
        <5>2. Big(e2, v) = 2  BY <5>1, <4>3 DEF Big, locate_entry
        <5>3. ~(\A k \in l + 1 .. 4 : IsTable(e2, k, v))  BY <5>1, <3>4
        <5> QED  BY <5>2, <5>3, <4>4, <4>1, <2>3, <3>4
      <4> QED  BY <4>2, <4>5, <4>6
    <3> QED  BY <3>3, <3>4, <1>6
  <2> QED  BY <2>2, <2>4, <2>5
<1> QED  BY <1>5, <1>6

-----------------------------------------------------------------------------
(* map_page and the ranges.                                                 *)

\* A page of the smallest size.
LEMMA MapSmall ==
  ASSUME NEW e, EntOK(e), NEW v \in Pages, NEW p \in Nat, NEW fl \in Flags
  PROVE  LET f == map_page(e, v, p, fl, 1)
         IN  /\ EntOK(f)
             /\ \A w \in Pages : vmm_query(f, w) = IF Big(e, v) = 0 /\ w = v THEN p ELSE vmm_query(e, w)
<1> DEFINE f == Put(e, 1, v, Leaf(1, p, fl))
<1>1. map_page(e, v, p, fl, 1) = f  BY DEF map_page
<1>2. EntOK(f) /\ (Big(e, v) <= 1 => BlockIs(f, e, 1, v, p)) /\ (Big(e, v) > 1 => Unmoved(f, e))
  <2>1. 1 \in 1 .. 3  OBVIOUS
  <2> QED  BY <2>1, PutFacts, Zenon
<1> HIDE DEF f
<1>3. Big(e, v) \in {0, 2, 3}  BY LocateRange DEF Big
<1>4. \A w \in Pages : w \div Span(1) = w /\ w % Span(1) = 0  BY Spans DEF Pages
<1>5. \A w \in Pages : vmm_query(f, w) = IF Big(e, v) = 0 /\ w = v THEN p ELSE vmm_query(e, w)
  <2>1. CASE Big(e, v) = 0
    <3>1. BlockIs(f, e, 1, v, p)  BY <1>2, <2>1
    <3>2. p + 0 = p  OBVIOUS
    <3> QED  BY <3>1, <3>2, <1>4, <2>1 DEF BlockIs
  <2>2. CASE Big(e, v) # 0
    <3>1. Unmoved(f, e)  BY <1>2, <1>3, <2>2
    <3> QED  BY <3>1, <2>2 DEF Unmoved
  <2> QED  BY <2>1, <2>2
<1> QED  BY <1>1, <1>2, <1>5

\* A page in a large page translates.
LEMMA BigIsMapped ==
  ASSUME NEW e, EntOK(e), NEW v \in Pages, Big(e, v) # 0
  PROVE  vmm_query(e, v) \in Nat
<1>1. CASE locate_entry(e, v) = 3
  <2>1. Pte(e, 3, v) \in Larges  BY <1>1, PteKinds, Kinds DEF locate_entry, IsLarge
  <2>2. v % Span(3) \in Nat  BY Spans DEF Pages
  <2> QED  BY <1>1, <2>1, <2>2, Kinds DEF vmm_query, Valid
<1>2. CASE locate_entry(e, v) = 2
  <2>1. Pte(e, 2, v) \in Larges  BY <1>2, PteKinds, Kinds DEF locate_entry, IsLarge
  <2>2. v % Span(2) \in Nat  BY Spans DEF Pages
  <2> QED  BY <1>2, <2>1, <2>2, Kinds DEF vmm_query, Valid
<1> QED  BY <1>1, <1>2, LocateRange DEF Big

\* Pages that share a block share its large page.
LEMMA BigOfBlock ==
  ASSUME NEW e, NEW l \in 1 .. 3, NEW v \in Pages, NEW w \in Pages,
         w \div Span(l) = v \div Span(l), Big(e, v) > l
  PROVE  Big(e, w) = Big(e, v)
<1>1. /\ l = 1 => w = v
      /\ l = 2 => w \div 2 = v \div 2
      /\ Big(e, v) \in {2, 3}
  BY Spans, LocateRange DEF Big, Pages
<1>2. CASE l = 1
  BY <1>1, <1>2
<1>3. CASE l = 2
  <2>1. Big(e, v) = 3 /\ locate_entry(e, v) = 3  BY <1>1, <1>3 DEF Big
  <2>2. w \div 4 = v \div 4 /\ w \div 8 = v \div 8  BY <1>1, <1>3, Blocks DEF Pages
  <2>3. Pte(e, 4, w) = Pte(e, 4, v) /\ Pte(e, 3, w) = Pte(e, 3, v)  BY <2>2, Spans DEF Pte
  <2>4. IsTable(e, 4, v) /\ IsLarge(e, 3, v)  BY <2>1 DEF locate_entry
  <2>5. IsTable(e, 4, w) /\ IsLarge(e, 3, w)  BY <2>3, <2>4 DEF IsTable, IsLarge
  <2> QED  BY <2>1, <2>5 DEF Big, locate_entry
<1>4. CASE l = 3
  BY <1>1, <1>4
<1> QED  BY <1>2, <1>3, <1>4

\* From e to f the n pages at v are mapped to p and on, or stay what they were.
Fills(f, e, v, n, p) ==
  \A w \in Pages :
    IF w \in v .. v + n - 1
    THEN vmm_query(f, w) = p + (w - v) \/ (vmm_query(f, w) = vmm_query(e, w) /\ vmm_query(e, w) # -1)
    ELSE vmm_query(f, w) = vmm_query(e, w)

\* The pages of a block, when its first page is v.
LEMMA BlockPages ==
  ASSUME NEW l \in 1 .. 3, NEW v \in Nat, v % Span(l) = 0, NEW w \in Nat
  PROVE  /\ w \div Span(l) = v \div Span(l) <=> w \in v .. v + Span(l) - 1
         /\ w \in v .. v + Span(l) - 1 => w % Span(l) = w - v
<1>1. CASE l = 1
  BY <1>1, Spans
<1>2. CASE l = 2
  BY <1>2, Spans
<1>3. CASE l = 3
  BY <1>3, Spans
<1> QED  BY <1>1, <1>2, <1>3

LEMMA PutFills ==
  ASSUME NEW e, EntOK(e), NEW l \in 1 .. 3, NEW v \in Pages, v % Span(l) = 0, NEW p \in Nat, NEW fl \in Flags
  PROVE  LET f == Put(e, l, v, Leaf(l, p, fl)) IN EntOK(f) /\ Fills(f, e, v, Span(l), p)
<1> DEFINE f == Put(e, l, v, Leaf(l, p, fl))
<1>1. EntOK(f) /\ (Big(e, v) <= l => BlockIs(f, e, l, v, p)) /\ (Big(e, v) > l => Unmoved(f, e))
  BY PutFacts
<1> HIDE DEF f
<1>2. Big(e, v) \in Nat  BY LocateRange DEF Big
<1>3. ASSUME NEW w \in Pages
      PROVE  /\ w \div Span(l) = v \div Span(l) <=> w \in v .. v + Span(l) - 1
             /\ w \in v .. v + Span(l) - 1 => w % Span(l) = w - v
  BY BlockPages DEF Pages
<1>4. CASE Big(e, v) <= l
  <2>1. BlockIs(f, e, l, v, p)  BY <1>1, <1>4
  <2>2. Fills(f, e, v, Span(l), p)  BY <2>1, <1>3 DEF BlockIs, Fills
  <2> QED  BY <1>1, <2>2 DEF f
<1>5. CASE Big(e, v) > l
  <2>1. Unmoved(f, e)  BY <1>1, <1>5
  <2>2. ASSUME NEW w \in Pages, w \in v .. v + Span(l) - 1
        PROVE  vmm_query(e, w) # -1
    <3>1. w \div Span(l) = v \div Span(l)  BY <2>2, <1>3
    <3>2. Big(e, w) = Big(e, v)  BY <3>1, <1>5, BigOfBlock
    <3>3. Big(e, w) # 0  BY <3>2, <1>5, <1>2
    <3>4. vmm_query(e, w) \in Nat  BY <3>3, BigIsMapped
    <3> QED  BY <3>4
  <2>3. Fills(f, e, v, Span(l), p)  BY <2>1, <2>2 DEF Unmoved, Fills
  <2> QED  BY <1>1, <2>3 DEF f
<1>6. Big(e, v) <= l \/ Big(e, v) > l  BY <1>2
<1> QED  BY <1>4, <1>5, <1>6

\* map_page fills the pages of its size, also where a page of 1 GiB is made
\* of smaller ones.
LEMMA MapFills ==
  ASSUME NEW e, EntOK(e), NEW l \in 1 .. 3, NEW v \in Nat, v % Span(l) = 0, v + Span(l) - 1 \in Pages,
         NEW p \in Nat, NEW fl \in Flags, gib \in BOOLEAN
  PROVE  LET f == map_page(e, v, p, fl, l) IN EntOK(f) /\ Fills(f, e, v, Span(l), p)
<1>s. Span(l) \in {1, 2, 4}  BY Spans
<1>v. v \in Pages  BY <1>s, VmmAssumption DEF Pages
<1>1. CASE ~(l = 3 /\ ~gib)
  <2>1. map_page(e, v, p, fl, l) = Put(e, l, v, Leaf(l, p, fl))  BY <1>1 DEF map_page
  <2> QED  BY <2>1, <1>v, PutFills
<1>2. CASE l = 3 /\ ~gib
  <2> DEFINE e4 == get_next_level(e, 4, v)
             e2 == Put(e4, 2, v, Leaf(2, p, fl))
             f  == Put(e2, 2, v + 2, Leaf(2, p + 2, fl))
  <2>0. map_page(e, v, p, fl, l) = f  BY <1>2 DEF map_page
  <2>1. EntOK(e4) /\ \A w \in Pages : vmm_query(e4, w) = vmm_query(e, w)
    BY <1>v, NextLevel
  <2>2. v % 4 = 0 /\ v + 3 \in Pages  BY <1>2, Spans
  <2>3. v % Span(2) = 0 /\ (v + 2) % Span(2) = 0 /\ v + 2 \in Pages /\ p + 2 \in Nat /\ 2 \in 1 .. 3
    BY <2>2, Spans, VmmAssumption DEF Pages
  <2> HIDE DEF e4
  <2>4. EntOK(e2) /\ Fills(e2, e4, v, Span(2), p)  BY <2>1, <2>3, <1>v, PutFills, Zenon
  <2> HIDE DEF e2
  <2>5. EntOK(f) /\ Fills(f, e2, v + 2, Span(2), p + 2)  BY <2>3, <2>4, PutFills, Zenon
  <2> HIDE DEF f
  <2>6. ASSUME NEW w \in Pages
        PROVE  IF w \in v .. v + Span(l) - 1
               THEN vmm_query(f, w) = p + (w - v) \/ (vmm_query(f, w) = vmm_query(e, w) /\ vmm_query(e, w) # -1)
               ELSE vmm_query(f, w) = vmm_query(e, w)
    <3>1. w \in Nat /\ (w \in v .. v + Span(l) - 1 <=> w \in v .. v + 1 \/ w \in v + 2 .. v + 3)
      BY <1>2, Spans DEF Pages
    <3>2. /\ w \in v .. v + 1 =>
                \/ vmm_query(e2, w) = p + (w - v)
                \/ vmm_query(e2, w) = vmm_query(e4, w) /\ vmm_query(e4, w) # -1
          /\ w \notin v .. v + 1 => vmm_query(e2, w) = vmm_query(e4, w)
      <4>1. v .. v + Span(2) - 1 = v .. v + 1  BY Spans
      <4> QED  BY <4>1, <2>4 DEF Fills
    <3>3. /\ w \in v + 2 .. v + 3 =>
                \/ vmm_query(f, w) = (p + 2) + (w - (v + 2))
                \/ vmm_query(f, w) = vmm_query(e2, w) /\ vmm_query(e2, w) # -1
          /\ w \notin v + 2 .. v + 3 => vmm_query(f, w) = vmm_query(e2, w)
      <4>1. v + 2 .. v + 2 + Span(2) - 1 = v + 2 .. v + 3  BY Spans
      <4> QED  BY <4>1, <2>5 DEF Fills
    <3>4. (p + 2) + (w - (v + 2)) = p + (w - v)  BY <3>1
    <3>5. ~(w \in v .. v + 1 /\ w \in v + 2 .. v + 3)  BY <3>1
    <3>6. vmm_query(e4, w) = vmm_query(e, w)  BY <2>1
    <3>7. CASE w \in v .. v + 1
      BY <3>1, <3>2, <3>3, <3>5, <3>6, <3>7
    <3>8. CASE w \in v + 2 .. v + 3
      BY <3>1, <3>2, <3>3, <3>4, <3>5, <3>6, <3>8
    <3>9. CASE w \notin v .. v + 1 /\ w \notin v + 2 .. v + 3
      BY <3>1, <3>2, <3>3, <3>6, <3>9
    <3> QED  BY <3>7, <3>8, <3>9
  <2>7. Fills(f, e, v, Span(l), p)  BY <2>6 DEF Fills
  <2> QED  BY <2>0, <2>5, <2>7
<1> QED  BY <1>1, <1>2

LEMMA Elements ==
  ASSUME NEW S, NEW s \in Seq(S), NEW i \in 1 .. Len(s)
  PROVE  s[i] \in S /\ i \in DOMAIN s
OBVIOUS

\* A range in the identity map or the direct map goes where its pages go.
LEMMA PieceSound ==
  ASSUME NEW d \in Int, NEW at \in {0, Hhdm}, NEW b \in Nat, NEW n \in Nat, NEW fl \in Flags,
         n > 0 => b + n <= Frames
  PROVE  Piece(at + b, b, n, fl) \in Sound(d)
<1> DEFINE r == Piece(at + b, b, n, fl)
<1>a. at \in Nat /\ Frames \in Nat /\ Hhdm \in Nat /\ KernelBase \in Nat /\ Top \in Nat
      /\ Frames <= Hhdm /\ Hhdm + Frames <= KernelBase /\ KernelBase <= Top
  BY VmmAssumption
<1>1. r.virt = at + b /\ r.phys = b /\ r.n = n /\ r.fl = fl  BY DEF Piece
<1>2. r \in [virt : Nat, phys : Nat, n : Nat, fl : Flags]  BY <1>a DEF Piece
<1>3. ASSUME NEW v \in Covered(r)
      PROVE  v \in Pages /\ r.phys + (v - r.virt) = Target(d, v)
  <2>1. v \in at + b .. at + b + n - 1  BY <1>1 DEF Covered
  <2>2. v \in Nat /\ at + b <= v /\ v < at + Frames /\ n > 0  BY <2>1, <1>a
  <2>3. v \in Pages  BY <2>2, <1>a DEF Pages
  <2>4. b + (v - (at + b)) = v - at  BY <2>2, <1>a
  <2>5. CASE at = 0
    <3>1. v < Hhdm /\ v - at = v  BY <2>2, <2>5, <1>a
    <3> QED  BY <2>3, <2>4, <3>1, <1>1 DEF Target
  <2>6. CASE at = Hhdm
    <3>1. ~(v < Hhdm) /\ v < KernelBase  BY <2>2, <2>6, <1>a
    <3> QED  BY <2>3, <2>4, <2>6, <3>1, <1>1 DEF Target
  <2> QED  BY <2>5, <2>6
<1> QED  BY <1>2, <1>3 DEF Sound

\* The ranges of build_pagemap agree with each other.
LEMMA RangesSound ==
  ASSUME NEW rev \in 0 .. 4, NEW kn \in Kernels, NEW mm \in MemMaps,
         ~\E i \in DOMAIN kn.ranges : kn.ranges[i].base < Hhdm
  PROVE  Ranges(rev, kn, mm) \in Seq(Sound(kn.pbase - kn.vbase))
<1> DEFINE d == kn.pbase - kn.vbase
           S == Sound(d)
           R1 == [i \in 1 .. Len(kn.ranges) |-> FromImage(kn, i)]
           R2 == <<Piece(1, 1, IF rev = 0 THEN Low - 1 ELSE 0, "w")>>
           R3 == <<Piece(Hhdm, 0, IF rev < 3 THEN Low ELSE 0, "w")>>
           R4 == [i \in 1 .. 2 * Len(mm) |-> FromMap(rev, mm[EntryNo(i)], Where(i))]
           R5 == [i \in 1 .. 2 * Len(mm) |-> FromFb(rev, mm[EntryNo(i)], Where(i))]
           R6 == <<Piece(0, 0, IF rev >= 1 THEN Low ELSE 0, "w")>>
<1>k. /\ kn.vbase \in Nat /\ kn.pbase \in Nat /\ kn.ranges \in Seq([base : Nat, n : Nat, fl : Flags])
      /\ \A i \in DOMAIN kn.ranges : kn.ranges[i].base >= Hhdm =>
           /\ kn.ranges[i].base >= KernelBase /\ kn.ranges[i].base >= kn.vbase
           /\ kn.ranges[i].base + kn.ranges[i].n <= Top
  BY VmmInputs
<1>m. mm \in Seq([base : 0 .. Frames, top : 0 .. Frames, type : STRING])  BY VmmInputs
<1>d. d \in Int  BY <1>k
<1>g. "w" \in Flags /\ "fb" \in Flags  BY DEF Flags
<1>a. /\ Low \in Nat /\ Frames \in Nat /\ Hhdm \in Nat /\ KernelBase \in Nat /\ Top \in Nat
      /\ 2 <= Low /\ Low <= Frames /\ Hhdm <= KernelBase
  BY VmmAssumption
<1>s. \A i \in 1 .. 2 * Len(mm) : mm[EntryNo(i)] \in [base : 0 .. Frames, top : 0 .. Frames, type : STRING]
                                   /\ Where(i) \in {0, Hhdm}
  <2>1. Len(mm) \in Nat  BY <1>m
  <2>2. \A i \in 1 .. 2 * Len(mm) : EntryNo(i) \in 1 .. Len(mm)  BY <2>1 DEF EntryNo
  <2>3. \A i \in 1 .. 2 * Len(mm) : Where(i) \in {0, Hhdm}  BY DEF Where
  <2> QED  BY <1>m, <2>2, <2>3, Elements
<1>1. R1 \in Seq(S)
  <2>1. ASSUME NEW i \in 1 .. Len(kn.ranges)
        PROVE  FromImage(kn, i) \in S
    <3> DEFINE x == kn.ranges[i]
               r == Piece(x.base, kn.pbase + (x.base - kn.vbase), x.n, x.fl)
    <3>1. x \in [base : Nat, n : Nat, fl : Flags] /\ i \in DOMAIN kn.ranges  BY <1>k, Elements
    <3>2. x.base \in Nat /\ x.n \in Nat /\ x.fl \in Flags  BY <3>1
    <3>3. x.base >= Hhdm  BY <3>1, <3>2, <1>a
    <3>4. x.base >= KernelBase /\ x.base >= kn.vbase /\ x.base + x.n <= Top  BY <3>1, <3>3, <1>k
    <3> HIDE DEF x
    <3>5. kn.pbase + (x.base - kn.vbase) \in Nat  BY <3>2, <3>4, <1>k
    <3>6. r \in [virt : Nat, phys : Nat, n : Nat, fl : Flags]  BY <3>2, <3>5 DEF Piece
    <3>7. r.virt = x.base /\ r.phys = kn.pbase + (x.base - kn.vbase) /\ r.n = x.n  BY DEF Piece
    <3>8. ASSUME NEW v \in Covered(r)
          PROVE  v \in Pages /\ r.phys + (v - r.virt) = Target(d, v)
      <4>1. v \in x.base .. x.base + x.n - 1  BY <3>7 DEF Covered
      <4>2. v \in Nat /\ v < Top /\ ~(v < KernelBase) /\ ~(v < Hhdm)  BY <4>1, <3>2, <3>4, <1>a
      <4>3. v \in Pages  BY <4>2, <1>a DEF Pages
      <4>4. (kn.pbase + (x.base - kn.vbase)) + (v - x.base) = v + d  BY <4>2, <3>2, <1>k
      <4> QED  BY <4>2, <4>3, <4>4, <3>7 DEF Target
    <3>9. r \in S  BY <3>6, <3>8 DEF Sound
    <3> QED  BY <3>9 DEF FromImage, x
  <2>2. Len(kn.ranges) \in Nat  BY <1>k
  <2> HIDE DEF S
  <2> QED  BY <2>1, <2>2
<1>2. R2 \in Seq(S) /\ R3 \in Seq(S) /\ R6 \in Seq(S)
  <2> DEFINE n2 == IF rev = 0 THEN Low - 1 ELSE 0
             n3 == IF rev < 3 THEN Low ELSE 0
             n6 == IF rev >= 1 THEN Low ELSE 0
  <2>1. n2 \in Nat /\ n3 \in Nat /\ n6 \in Nat /\ 1 + n2 <= Frames /\ 0 + n3 <= Frames /\ 0 + n6 <= Frames
    BY <1>a
  <2>2. 0 \in {0, Hhdm} /\ Hhdm \in {0, Hhdm} /\ 1 \in Nat /\ 0 \in Nat  OBVIOUS
  <2> HIDE DEF n2, n3, n6
  <2>3. Piece(0 + 1, 1, n2, "w") \in S  BY <2>1, <2>2, <1>d, <1>g, PieceSound
  <2>4. Piece(Hhdm + 0, 0, n3, "w") \in S  BY <2>1, <2>2, <1>d, <1>g, PieceSound
  <2>5. Piece(0 + 0, 0, n6, "w") \in S  BY <2>1, <2>2, <1>d, <1>g, PieceSound
  <2>6. 0 + 1 = 1 /\ Hhdm + 0 = Hhdm /\ 0 + 0 = 0  BY <1>a
  <2>7. R2 = <<Piece(1, 1, n2, "w")>> /\ R3 = <<Piece(Hhdm, 0, n3, "w")>> /\ R6 = <<Piece(0, 0, n6, "w")>>
    BY DEF n2, n3, n6
  <2> HIDE DEF S, R2, R3, R6
  <2> QED  BY <2>3, <2>4, <2>5, <2>6, <2>7
<1>3. R4 \in Seq(S)
  <2>1. ASSUME NEW i \in 1 .. 2 * Len(mm)
        PROVE  FromMap(rev, mm[EntryNo(i)], Where(i)) \in S
    <3> DEFINE x == mm[EntryNo(i)]
               at == Where(i)
               b == IF rev < 3 /\ x.base < Low THEN Low ELSE x.base
               skip == Skipped(rev, x.type) \/ b >= x.top \/ (at = 0 /\ rev # 0)
               n == IF skip THEN 0 ELSE x.top - b
    <3>1. x.base \in 0 .. Frames /\ x.top \in 0 .. Frames /\ at \in {0, Hhdm}  BY <1>s
    <3> HIDE DEF x, at
    <3>2. b \in Nat  BY <3>1, <1>a
    <3>3. n \in Nat /\ (n > 0 => b + n <= Frames)
      <4>1. CASE skip
        BY <4>1
      <4>2. CASE ~skip
        <5>1. ~(b >= x.top) /\ n = x.top - b  BY <4>2
        <5> HIDE DEF b, n
        <5> QED  BY <5>1, <3>1, <3>2, <1>a
      <4> QED  BY <4>1, <4>2
    <3> HIDE DEF b, n
    <3>4. Piece(at + b, b, n, "w") \in S  BY <3>1, <3>2, <3>3, <1>d, <1>g, PieceSound
    <3> QED  BY <3>4 DEF FromMap, x, at, b, n
  <2>2. Len(mm) \in Nat  BY <1>m
  <2> HIDE DEF S
  <2> QED  BY <2>1, <2>2
<1>4. R5 \in Seq(S)
  <2>1. ASSUME NEW i \in 1 .. 2 * Len(mm)
        PROVE  FromFb(rev, mm[EntryNo(i)], Where(i)) \in S
    <3> DEFINE x == mm[EntryNo(i)]
               at == Where(i)
               skip == x.type # "fb" \/ x.base >= x.top \/ (at = 0 /\ rev # 0)
               n == IF skip THEN 0 ELSE x.top - x.base
    <3>1. x.base \in 0 .. Frames /\ x.top \in 0 .. Frames /\ at \in {0, Hhdm}  BY <1>s
    <3> HIDE DEF x, at
    <3>3. n \in Nat /\ (n > 0 => x.base + n <= Frames)
      <4>1. CASE skip
        BY <4>1
      <4>2. CASE ~skip
        <5>1. ~(x.base >= x.top) /\ n = x.top - x.base  BY <4>2
        <5> HIDE DEF n
        <5> QED  BY <5>1, <3>1, <1>a
      <4> QED  BY <4>1, <4>2
    <3> HIDE DEF n
    <3>5. x.base \in Nat  BY <3>1, <1>a
    <3>4. Piece(at + x.base, x.base, n, "fb") \in S  BY <3>1, <3>3, <3>5, <1>d, <1>g, PieceSound
    <3> QED  BY <3>4 DEF FromFb, x, at, n
  <2>2. Len(mm) \in Nat  BY <1>m
  <2> HIDE DEF S
  <2> QED  BY <2>1, <2>2
<1>5. Ranges(rev, kn, mm) = ((((R1 \o R2) \o R3) \o R4) \o R5) \o R6
  BY DEF Ranges
<1> HIDE DEF S, R1, R2, R3, R4, R5, R6
<1>6. R1 \o R2 \in Seq(S)  BY <1>1, <1>2, ConcatProperties
<1>7. (R1 \o R2) \o R3 \in Seq(S)  BY <1>2, <1>6, ConcatProperties
<1>8. ((R1 \o R2) \o R3) \o R4 \in Seq(S)  BY <1>3, <1>7, ConcatProperties
<1>9. (((R1 \o R2) \o R3) \o R4) \o R5 \in Seq(S)  BY <1>4, <1>8, ConcatProperties
<1>10. ((((R1 \o R2) \o R3) \o R4) \o R5) \o R6 \in Seq(S)  BY <1>2, <1>9, ConcatProperties
<1> QED  BY <1>5, <1>10 DEF S

\* An entry that is cleared takes its block with it, and no other page.
LEMMA ClearFacts ==
  ASSUME NEW e, EntOK(e), NEW v \in Pages, locate_entry(e, v) # 0
  PROVE  LET l == locate_entry(e, v)
             f == Store(e, l, v, None)
         IN  /\ EntOK(f)
             /\ \A w \in Pages : vmm_query(f, w) = IF w \div Span(l) = v \div Span(l) THEN -1 ELSE vmm_query(e, w)
<1> DEFINE l == locate_entry(e, v)
           f == Store(e, l, v, None)
<1>1. l \in 1 .. 3 /\ Fits(l, None)  BY LocateRange DEF Fits
<1>2. /\ l = 1 => ~IsLarge(e, 3, v) /\ ~IsLarge(e, 2, v)
      /\ l = 2 => ~IsLarge(e, 3, v)
  BY DEF locate_entry
<1> HIDE DEF l
<1>3. /\ EntOK(f)
      /\ \A w \in Pages, k \in 1 .. 4 :
            Pte(f, k, w) = IF k = l /\ w \div Span(l) = v \div Span(l) THEN None ELSE Pte(e, k, w)
  BY <1>1, StoreFacts
<1> HIDE DEF f
<1>4. ASSUME NEW w \in Pages, w \div Span(l) # v \div Span(l)
      PROVE  vmm_query(f, w) = vmm_query(e, w)
  <2>1. \A k \in 1 .. 4 : Pte(f, k, w) = Pte(e, k, w)  BY <1>3, <1>4
  <2>2. locate_entry(f, w) = locate_entry(e, w)  BY <2>1 DEF locate_entry, IsTable, IsLarge
  <2>3. locate_entry(e, w) # 0 => Pte(f, locate_entry(e, w), w) = Pte(e, locate_entry(e, w), w)
    BY <2>1, LocateRange
  <2> QED  BY <2>2, <2>3 DEF vmm_query, Valid
<1>5. ASSUME NEW w \in Pages, w \div Span(l) = v \div Span(l)
      PROVE  vmm_query(f, w) = -1
  <2>1. Pte(f, l, w) = None  BY <1>1, <1>3, <1>5
  <2>2. w \in Nat /\ v \in Nat  BY DEF Pages
  <2>3. CASE l = 3
    <3>1. locate_entry(f, w) = 0  BY <2>1, <2>3, Kinds DEF locate_entry, IsTable, IsLarge
    <3> QED  BY <3>1 DEF vmm_query, Valid
  <2>4. CASE l = 2
    <3>1. w \div 2 = v \div 2  BY <1>5, <2>4, Spans
    <3>2. w \div 4 = v \div 4  BY <3>1, <2>2, Blocks
    <3>3. Pte(f, 3, w) = Pte(e, 3, v)  BY <1>3, <2>4, <3>2, Spans DEF Pte
    <3>4. ~IsLarge(f, 3, w)  BY <3>3, <1>2, <2>4 DEF IsLarge
    <3>5. locate_entry(f, w) = 0  BY <2>1, <2>4, <3>4, Kinds DEF locate_entry, IsTable, IsLarge
    <3> QED  BY <3>5 DEF vmm_query, Valid
  <2>5. CASE l = 1
    <3>1. w = v  BY <1>5, <2>2, <2>5, Spans
    <3>2. Pte(f, 3, w) = Pte(e, 3, v) /\ Pte(f, 2, w) = Pte(e, 2, v)  BY <1>3, <2>5, <3>1
    <3>3. ~IsLarge(f, 3, w) /\ ~IsLarge(f, 2, w)  BY <3>2, <1>2, <2>5 DEF IsLarge
    <3>4. locate_entry(f, w) \in {0, 1}  BY <3>3 DEF locate_entry
    <3> QED  BY <2>1, <2>5, <3>4 DEF vmm_query, Valid
  <2> QED  BY <1>1, <2>3, <2>4, <2>5
<1> QED  BY <1>3, <1>4, <1>5 DEF f, l

-----------------------------------------------------------------------------
(* The invariant holds.                                                     *)

\* Nothing is covered by a range that is done.
LEMMA NothingLeft ==
  ASSUME NEW r \in [virt : Nat, phys : Nat, n : Nat, fl : Flags], r.n = 0
  PROVE  Covered(r) = {}
<1>1. r.virt \in Nat  OBVIOUS
<1> QED  BY <1>1 DEF Covered

\* new_pagemap gives a table that maps nothing.
LEMMA VmmStarts == VmmInit => VmmInv
<1> SUFFICES ASSUME VmmInit PROVE VmmInv  OBVIOUS
<1> USE DEF VmmInit, VmmFrom
<1>1. EntOK(ent)
  <2>1. /\ NoTables[4] = [i \in Idx(8) |-> None] /\ NoTables[3] = [i \in Idx(4) |-> None]
        /\ NoTables[2] = [i \in Idx(2) |-> None] /\ NoTables[1] = [i \in Idx(1) |-> None]
    BY Spans DEF NoTables, Idx
  <2>2. NoTables = [l \in 1 .. 4 |-> NoTables[l]]  BY DEF NoTables
  <2> QED  BY <2>1, <2>2 DEF EntOK
<1>2. \A v \in Pages : vmm_query(ent, v) = -1
  <2>1. ASSUME NEW v \in Pages PROVE vmm_query(ent, v) = -1
    <3>1. v \div 8 \in 0 .. (Top - 1) \div Span(4)  BY InTables, Spans DEF Idx
    <3>2. Pte(ent, 4, v) = None  BY <3>1, Spans DEF Pte, NoTables
    <3>3. ~IsTable(ent, 4, v)  BY <3>2, Kinds DEF IsTable
    <3>4. locate_entry(ent, v) = 0  BY <3>3 DEF locate_entry
    <3> QED  BY <3>4 DEF vmm_query, Valid
  <2> QED  BY <2>1
<1>3. rest \in [virt : Nat, phys : Nat, n : Nat, fl : Flags] /\ rest.n = 0
  BY DEF NoPiece, Piece, Flags
<1>4. VmmTypeOK
  <2>1. fbcur \in Nat  BY VmmAssumption
  <2> QED  BY <1>1, <1>3, <2>1 DEF VmmTypeOK
<1>5. \A v \in Pages : meant[v] = -1  OBVIOUS
<1>6. Translates  BY <1>2, <1>5 DEF Translates
<1> QED  BY <1>2, <1>3, <1>4, <1>5, <1>6 DEF VmmInv

\* The calls of the kernel: a page that is in no large page is mapped to p.
LEMMA KernelMaps ==
  ASSUME VmmInv, vphase = "kernel", vphase' = vphase, gib' = gib, rest' = rest,
         fbcur' \in Nat, vcalls' \in Nat, NEW v \in Pages, NEW p \in Nat, Big(ent, v) = 0,
         ent' = map_page(ent, v, p, "w", 1), Remapped(v, p)
  PROVE  VmmInv'
<1>1. EntOK(ent) /\ rest.n = 0 /\ meant \in [Pages -> Nat \cup {-1}] /\ torn \in SUBSET Pages /\ gib \in BOOLEAN
      /\ rest \in [virt : Nat, phys : Nat, n : Nat, fl : Flags]
  BY DEF VmmInv, VmmTypeOK
<1>2. Covered(rest) = {} /\ Covered(rest') = {}  BY <1>1, NothingLeft
<1>3. "w" \in Flags  BY DEF Flags
<1>4. EntOK(ent') /\ \A w \in Pages : vmm_query(ent', w) = IF w = v THEN p ELSE vmm_query(ent, w)
  BY <1>1, <1>3, MapSmall
<1>5. meant' = [meant EXCEPT ![v] = p] /\ torn' = torn \ {v}  BY DEF Remapped
<1>6. meant' \in [Pages -> Nat \cup {-1}] /\ torn' \in SUBSET Pages  BY <1>1, <1>5
<1>7. \A w \in Pages : vmm_query(ent, w) = IF w \in torn THEN -1 ELSE meant[w]
  BY <1>2 DEF VmmInv, Translates
<1>8. \A w \in Pages : vmm_query(ent', w) = IF w \in torn' THEN -1 ELSE meant'[w]
  BY <1>1, <1>4, <1>5, <1>7
<1>9. Translates'  BY <1>8 DEF Translates
<1>10. VmmTypeOK'  BY <1>1, <1>4, <1>6 DEF VmmTypeOK, VmmInv
<1> QED  BY <1>1, <1>9, <1>10 DEF VmmInv

\* The calls that change no translation.
LEMMA KernelLeaves ==
  ASSUME VmmInv, vphase = "kernel", vphase' = vphase, gib' = gib, rest' = rest,
         fbcur' \in Nat, vcalls' \in Nat, EntOK(ent'), Unmoved(ent', ent), meant' = meant, torn' = torn
  PROVE  VmmInv'
<1>1. VmmTypeOK'  BY DEF VmmInv, VmmTypeOK
<1>2. Translates'  BY DEF VmmInv, Translates, Unmoved
<1> QED  BY <1>1, <1>2 DEF VmmInv

LEMMA UnmovedSame == \A e : Unmoved(e, e)
BY DEF Unmoved

\* What is not valid is in no large page.
LEMMA InvalidIsSmall ==
  ASSUME NEW e, EntOK(e), NEW v \in Pages, ~Valid(e, v)
  PROVE  Big(e, v) = 0
<1>1. vmm_query(e, v) = -1  BY DEF vmm_query
<1>2. vmm_query(e, v) \notin Nat  BY <1>1
<1> QED  BY <1>2, BigIsMapped

\* build_pagemap starts: the tables are empty, the ranges agree.
LEMMA StepBuild ==
  ASSUME VmmInv, NEW rev \in 0 .. 4, NEW kn \in Kernels, NEW mm \in MemMaps, build_pagemap(rev, kn, mm)
  PROVE  VmmInv'
<1>0. vphase = "start" /\ UNCHANGED <<ent, gib, rest, fbcur, meant, torn, vcalls>>  BY DEF build_pagemap
<1>1. VmmTypeOK /\ rest.n = 0 /\ torn = {} /\ Translates
      /\ \A v \in Pages : meant[v] = -1 /\ vmm_query(ent, v) = -1
  BY <1>0 DEF VmmInv
<1>2. Translates'  BY <1>0, <1>1 DEF Translates
<1>3. CASE kn.ranges = <<>> \/ \E i \in DOMAIN kn.ranges : kn.ranges[i].base < Hhdm
  <2>1. vphase' = "panic"  BY <1>3 DEF build_pagemap
  <2>2. VmmTypeOK'  BY <1>0, <1>1, <2>1 DEF VmmTypeOK
  <2> QED  BY <1>0, <1>1, <1>2, <2>1, <2>2 DEF VmmInv
<1>4. CASE ~(kn.ranges = <<>> \/ \E i \in DOMAIN kn.ranges : kn.ranges[i].base < Hhdm)
  <2> DEFINE d == kn.pbase - kn.vbase
  <2>1. vphase' = "build" /\ todo' = Ranges(rev, kn, mm)  BY <1>4 DEF build_pagemap
  <2>2. todo' \in Seq(Sound(d))  BY <2>1, <1>4, RangesSound
  <2> HIDE DEF d
  <2>3. rest \in [virt : Nat, phys : Nat, n : Nat, fl : Flags] /\ Covered(rest) = {}
    BY <1>1, NothingLeft DEF VmmTypeOK
  <2>4. rest \in Sound(d)  BY <2>3 DEF Sound
  <2>5. Aimed(d)'
    <3>1. todo' \in Seq(Sound(d)) /\ rest' \in Sound(d)  BY <2>2, <2>4, <1>0
    <3>2. \A v \in Pages : meant'[v] \in {-1, Target(d, v)} /\ vmm_query(ent', v) \in {-1, Target(d, v)}
      BY <1>0, <1>1
    <3>3. \A v \in Covered(rest') : meant'[v] = Target(d, v)  BY <2>3, <1>0
    <3>4. d' = d  BY DEF d
    <3> QED  BY <3>1, <3>2, <3>3, <3>4 DEF Aimed, Sound, Target, Covered, Pages
  <2>6. VmmTypeOK'  BY <1>0, <1>1, <2>1 DEF VmmTypeOK
  <2> QED  BY <1>0, <1>1, <1>2, <2>1, <2>5, <2>6 DEF VmmInv, d
<1> QED  BY <1>3, <1>4

\* The next range: what it asks for is where its pages go.
LEMMA StepRange ==
  ASSUME VmmInv, NextRange
  PROVE  VmmInv'
<1> DEFINE r == Head(todo)
<1>0. /\ vphase = "build" /\ vphase' = vphase /\ ent' = ent /\ gib' = gib /\ fbcur' = fbcur /\ torn' = torn /\ vcalls' = vcalls
      /\ rest.n = 0 /\ todo # <<>> /\ rest' = r /\ todo' = Tail(todo)
      /\ meant' = [v \in Pages |-> IF v \in Covered(r) THEN r.phys + (v - r.virt) ELSE meant[v]]
  BY DEF NextRange, Building
<1>1. VmmTypeOK /\ torn = {} /\ Translates  BY <1>0 DEF VmmInv
<1>2. PICK kn \in Kernels : Aimed(kn.pbase - kn.vbase)  BY <1>0 DEF VmmInv
<1> DEFINE d == kn.pbase - kn.vbase
<1>3. Aimed(d)  BY <1>2
<1>d. d' = d  BY DEF d
<1> HIDE DEF d
<1>4. todo \in Seq(Sound(d))  BY <1>3 DEF Aimed
<1>5. r \in Sound(d) /\ Tail(todo) \in Seq(Sound(d))  BY <1>4, <1>0, HeadTailProperties
<1> HIDE DEF r
<1>6. r \in [virt : Nat, phys : Nat, n : Nat, fl : Flags]
      /\ \A v \in Covered(r) : v \in Pages /\ r.phys + (v - r.virt) = Target(d, v)
  BY <1>5 DEF Sound
<1>7. Covered(rest) = {}  BY <1>0, <1>1, NothingLeft DEF VmmTypeOK
<1>8. \A v \in Pages : meant[v] \in {-1, Target(d, v)} /\ vmm_query(ent, v) \in {-1, Target(d, v)}
  BY <1>3 DEF Aimed
<1>9. \A v \in Pages : meant'[v] = IF v \in Covered(r) THEN Target(d, v) ELSE meant[v]
  BY <1>0, <1>6
<1>10. Aimed(d)'
  <2>1. todo' \in Seq(Sound(d)) /\ rest' \in Sound(d)  BY <1>5, <1>0
  <2>2. \A v \in Pages : meant'[v] \in {-1, Target(d, v)} /\ vmm_query(ent', v) \in {-1, Target(d, v)}
    BY <1>8, <1>9, <1>0
  <2>3. \A v \in Covered(rest') : meant'[v] = Target(d, v)  BY <1>6, <1>9, <1>0
  <2> QED  BY <2>1, <2>2, <2>3, <1>d DEF Aimed, Sound, Target, Covered, Pages
<1>11. Translates'
  BY <1>0, <1>1, <1>7, <1>9 DEF Translates
<1>12. meant' \in [Pages -> Nat \cup {-1}]
  <2>1. ASSUME NEW v \in Pages PROVE (IF v \in Covered(r) THEN r.phys + (v - r.virt) ELSE meant[v]) \in Nat \cup {-1}
    <3>1. CASE v \in Covered(r)
      <4>1. r.virt \in Nat /\ r.phys \in Nat /\ v \in r.virt .. r.virt + r.n - 1  BY <1>6, <3>1 DEF Covered
      <4>2. r.phys + (v - r.virt) \in Nat  BY <4>1
      <4> QED  BY <3>1, <4>2
    <3>2. CASE v \notin Covered(r)
      BY <3>2, <1>1 DEF VmmTypeOK
    <3> QED  BY <3>1, <3>2
  <2> QED  BY <2>1, <1>0
<1>13. VmmTypeOK'  BY <1>0, <1>1, <1>6, <1>12 DEF VmmTypeOK
<1> QED  BY <1>0, <1>1, <1>10, <1>11, <1>13 DEF VmmInv, d

\* A turn of map_pages: the pages it is past translate to where they go, by
\* the page just made or by a larger one that was there.
LEMMA StepMap ==
  ASSUME VmmInv, map_pages
  PROVE  VmmInv'
<1> DEFINE l == Level(rest.virt, rest.phys, rest.n)
<1>0. /\ vphase = "build" /\ vphase' = vphase /\ gib' = gib /\ fbcur' = fbcur /\ torn' = torn /\ vcalls' = vcalls
      /\ todo' = todo /\ meant' = meant /\ rest.n > 0 /\ rest' = Advance(l)
      /\ ent' = map_page(ent, rest.virt, rest.phys, rest.fl, l)
  BY DEF map_pages, Building
<1>1. VmmTypeOK /\ torn = {} /\ Translates  BY <1>0 DEF VmmInv
<1>2. PICK kn \in Kernels : Aimed(kn.pbase - kn.vbase)  BY <1>0 DEF VmmInv
<1> DEFINE d == kn.pbase - kn.vbase
<1>3. Aimed(d)  BY <1>2
<1>d. d' = d  BY DEF d
<1> HIDE DEF d
<1>4. rest \in [virt : Nat, phys : Nat, n : Nat, fl : Flags]
      /\ \A v \in Covered(rest) : v \in Pages /\ rest.phys + (v - rest.virt) = Target(d, v)
  BY <1>3 DEF Aimed, Sound
<1>v. rest.virt \in Nat /\ rest.phys \in Nat /\ rest.n \in Nat /\ rest.fl \in Flags  BY <1>4
<1>5. l \in 1 .. 3 /\ rest.virt % Span(l) = 0 /\ Span(l) <= rest.n /\ Span(l) \in {1, 2, 4}
  <2>1. CASE l = 3
    BY <2>1, <1>v, Spans DEF Level
  <2>2. CASE l = 2
    BY <2>2, <1>v, Spans DEF Level
  <2>3. CASE l = 1
    BY <2>3, <1>v, <1>0, Spans
  <2> QED  BY <2>1, <2>2, <2>3 DEF Level
<1> HIDE DEF l
<1> DEFINE m == Span(l)
<1>6. rest.virt + m - 1 \in Pages
  <2>1. rest.virt + m - 1 \in Covered(rest)  BY <1>v, <1>5 DEF Covered
  <2> QED  BY <2>1, <1>4
<1>7. EntOK(ent') /\ Fills(ent', ent, rest.virt, m, rest.phys)
  BY <1>0, <1>1, <1>v, <1>5, <1>6, MapFills DEF VmmTypeOK
<1>8. /\ rest'.virt = rest.virt + m /\ rest'.phys = rest.phys + m /\ rest'.n = rest.n - m /\ rest'.fl = rest.fl
      /\ rest' = Piece(rest.virt + m, rest.phys + m, rest.n - m, rest.fl)
  BY <1>0 DEF Advance, Piece
<1>9. rest' \in [virt : Nat, phys : Nat, n : Nat, fl : Flags]
  BY <1>8, <1>v, <1>5 DEF Piece
<1> HIDE DEF m
<1>m. m \in Nat /\ m <= rest.n  BY <1>5 DEF m
<1>10. \A v \in Pages : v \in Covered(rest) <=> v \in rest.virt .. rest.virt + m - 1 \/ v \in Covered(rest')
  BY <1>8, <1>m, <1>v DEF Covered, Pages
<1>11. Covered(rest') \subseteq Covered(rest)
  BY <1>8, <1>m, <1>v DEF Covered
<1>t. \A v \in Pages : meant[v] \in {-1, Target(d, v)} /\ vmm_query(ent, v) \in {-1, Target(d, v)}
  BY <1>3 DEF Aimed
<1>12. ASSUME NEW v \in Pages
       PROVE  /\ v \in rest.virt .. rest.virt + m - 1 => vmm_query(ent', v) = Target(d, v)
              /\ v \notin rest.virt .. rest.virt + m - 1 => vmm_query(ent', v) = vmm_query(ent, v)
  <2>1. CASE v \in rest.virt .. rest.virt + m - 1
    <3>1. v \in Covered(rest)  BY <2>1, <1>10
    <3>2. rest.phys + (v - rest.virt) = Target(d, v)  BY <3>1, <1>4
    <3>3. \/ vmm_query(ent', v) = rest.phys + (v - rest.virt)
          \/ vmm_query(ent', v) = vmm_query(ent, v) /\ vmm_query(ent, v) # -1
      BY <2>1, <1>7 DEF Fills
    <3> QED  BY <2>1, <3>2, <3>3, <1>t
  <2>2. CASE v \notin rest.virt .. rest.virt + m - 1
    BY <2>2, <1>7 DEF Fills
  <2> QED  BY <2>1, <2>2
<1>13. rest' \in Sound(d)
  <2>1. ASSUME NEW v \in Covered(rest')
        PROVE  v \in Pages /\ rest'.phys + (v - rest'.virt) = Target(d, v)
    <3>1. v \in Pages /\ rest.phys + (v - rest.virt) = Target(d, v)  BY <1>4, <1>11
    <3>2. v \in Int  BY <3>1 DEF Pages
    <3>3. (rest.phys + m) + (v - (rest.virt + m)) = rest.phys + (v - rest.virt)  BY <3>2, <1>v, <1>m
    <3> QED  BY <3>1, <3>3, <1>8
  <2> QED  BY <1>9, <2>1 DEF Sound
<1>14. Aimed(d)'
  <2>1. todo' \in Seq(Sound(d))  BY <1>0, <1>3 DEF Aimed
  <2>2. \A v \in Pages : meant'[v] \in {-1, Target(d, v)} /\ vmm_query(ent', v) \in {-1, Target(d, v)}
    BY <1>t, <1>12, <1>0
  <2>3. \A v \in Covered(rest') : meant'[v] = Target(d, v)  BY <1>0, <1>3, <1>11 DEF Aimed
  <2> QED  BY <2>1, <2>2, <2>3, <1>13, <1>d DEF Aimed, Sound, Target, Covered, Pages
<1>15. Translates'
  <2>1. ASSUME NEW v \in Pages, v \notin Covered(rest')
        PROVE  vmm_query(ent', v) = IF v \in torn' THEN -1 ELSE meant'[v]
    <3>1. CASE v \in rest.virt .. rest.virt + m - 1
      <4>1. v \in Covered(rest)  BY <3>1, <1>10
      <4>2. meant[v] = Target(d, v)  BY <4>1, <1>3 DEF Aimed
      <4> QED  BY <3>1, <4>2, <1>12, <1>0, <1>1
    <3>2. CASE v \notin rest.virt .. rest.virt + m - 1
      <4>1. v \notin Covered(rest)  BY <3>2, <2>1, <1>10
      <4>2. vmm_query(ent, v) = IF v \in torn THEN -1 ELSE meant[v]  BY <4>1, <1>1 DEF Translates
      <4> QED  BY <3>2, <4>2, <1>12, <1>0
    <3> QED  BY <3>1, <3>2
  <2> QED  BY <2>1 DEF Translates
<1>16. VmmTypeOK'  BY <1>0, <1>1, <1>7, <1>9 DEF VmmTypeOK
<1> QED  BY <1>0, <1>1, <1>14, <1>15, <1>16 DEF VmmInv, d

\* The end of build_pagemap.
LEMMA StepEnter ==
  ASSUME VmmInv, EnterKernel
  PROVE  VmmInv'
<1>1. /\ vphase' = "kernel" /\ rest.n = 0
      /\ UNCHANGED <<ent, rest, meant, gib, fbcur, torn, vcalls>>
  BY DEF EnterKernel, Building
<1>2. VmmTypeOK'  BY <1>1 DEF VmmInv, VmmTypeOK
<1>3. Translates'  BY <1>1 DEF VmmInv, Translates
<1> QED  BY <1>1, <1>2, <1>3 DEF VmmInv

LEMMA KernelFrame ==
  ASSUME VmmInv, Kernel
  PROVE  /\ vphase = "kernel" /\ vphase' = vphase /\ gib' = gib /\ rest' = rest /\ vcalls' \in Nat
         /\ EntOK(ent) /\ fbcur \in Nat /\ fbcur + 1 \in Nat
BY DEF Kernel, Called, VmmInv, VmmTypeOK

LEMMA StepVmmMap ==
  ASSUME VmmInv, NEW v \in Touched, NEW p \in Given, vmm_map(v, p)
  PROVE  VmmInv'
<1>1. v \in Pages /\ p \in Nat  BY VmmAssumption
<1>2. Kernel /\ fbcur' = fbcur  BY DEF vmm_map
<1>3. CASE Valid(ent, v)
  <2>1. ent' = ent /\ meant' = meant /\ torn' = torn  BY <1>3 DEF vmm_map
  <2> QED  BY <1>2, <2>1, KernelFrame, KernelLeaves, UnmovedSame
<1>4. CASE ~Valid(ent, v)
  <2>1. ent' = map_page(ent, v, p, "w", 1) /\ Remapped(v, p)  BY <1>4 DEF vmm_map
  <2>2. Big(ent, v) = 0  BY <1>1, <1>2, <1>4, KernelFrame, InvalidIsSmall
  <2> QED  BY <1>1, <1>2, <2>1, <2>2, KernelFrame, KernelMaps
<1> QED  BY <1>3, <1>4

LEMMA StepAlloc ==
  ASSUME VmmInv, NEW v \in Touched, vmm_alloc_page(v)
  PROVE  VmmInv'
<1>1. v \in Pages  BY VmmAssumption
<1>2. Called /\ fbcur' = fbcur + 1  BY DEF vmm_alloc_page
<1>3. CASE Valid(ent, v)
  <2>1. vphase' = "panic" /\ ent' = ent /\ meant' = meant /\ torn' = torn  BY <1>3 DEF vmm_alloc_page
  <2>2. gib' = gib /\ rest' = rest /\ vcalls' \in Nat /\ fbcur' \in Nat /\ vphase = "kernel"
    BY <1>2 DEF Called, VmmInv, VmmTypeOK
  <2>3. VmmTypeOK' /\ Translates'  BY <2>1, <2>2 DEF VmmInv, VmmTypeOK, Translates
  <2> QED  BY <2>1, <2>2, <2>3 DEF VmmInv
<1>4. CASE ~Valid(ent, v)
  <2> DEFINE p == Masked(fbcur)
  <2>1. ent' = map_page(ent, v, p, "w", 1) /\ Remapped(v, p) /\ Kernel  BY <1>2, <1>4 DEF vmm_alloc_page, Kernel
  <2>2. Big(ent, v) = 0  BY <1>1, <1>4, <2>1, KernelFrame, InvalidIsSmall
  <2>3. p \in Nat  BY <2>1, KernelFrame, VmmAssumption DEF Masked
  <2> HIDE DEF p
  <2> QED  BY <1>1, <1>2, <2>1, <2>2, <2>3, KernelFrame, KernelMaps
<1> QED  BY <1>3, <1>4

\* The heap is mapped over what is there, or hidden by a large page.
LEMMA StepHeap ==
  ASSUME VmmInv, NEW v \in Touched, map_kernel_heap(v)
  PROVE  VmmInv'
<1>1. v \in Pages  BY VmmAssumption
<1>2. Kernel /\ fbcur' = fbcur + 1 /\ ent' = map_page(ent, v, fbcur, "w", 1)  BY DEF map_kernel_heap
<1>3. locate_entry(ent, v) \in 0 .. 3  BY LocateRange
<1>4. CASE locate_entry(ent, v) > 1
  <2>1. meant' = meant /\ torn' = torn  BY <1>4 DEF map_kernel_heap
  <2>2. Big(ent, v) # 0  BY <1>3, <1>4 DEF Big
  <2>3. "w" \in Flags  BY DEF Flags
  <2>4. EntOK(ent') /\ \A w \in Pages : vmm_query(ent', w) = IF Big(ent, v) = 0 /\ w = v THEN fbcur ELSE vmm_query(ent, w)
    BY <1>1, <1>2, <2>3, KernelFrame, MapSmall
  <2>5. Unmoved(ent', ent)  BY <2>2, <2>4 DEF Unmoved
  <2> QED  BY <1>2, <2>1, <2>4, <2>5, KernelFrame, KernelLeaves
<1>5. CASE ~(locate_entry(ent, v) > 1)
  <2>1. Remapped(v, fbcur)  BY <1>5 DEF map_kernel_heap
  <2>2. Big(ent, v) = 0  BY <1>3, <1>5 DEF Big
  <2> QED  BY <1>1, <1>2, <2>1, <2>2, KernelFrame, KernelMaps
<1> QED  BY <1>4, <1>5

\* A page that is taken out takes its large page with it.
LEMMA StepUnmap ==
  ASSUME VmmInv, NEW v \in Touched, vmm_unmap(v)
  PROVE  VmmInv'
<1> DEFINE l == locate_entry(ent, v)
<1>1. v \in Pages  BY VmmAssumption
<1>2. /\ Kernel /\ l # 0 /\ ent' = Store(ent, l, v, None) /\ fbcur' = fbcur
      /\ torn' = (torn \cup {w \in Pages : w \div Span(l) = v \div Span(l)}) \ {v}
      /\ meant' = [meant EXCEPT ![v] = -1]
  BY DEF vmm_unmap, Valid
<1>3. EntOK(ent) /\ rest.n = 0 /\ meant \in [Pages -> Nat \cup {-1}] /\ torn \in SUBSET Pages /\ gib \in BOOLEAN
      /\ rest \in [virt : Nat, phys : Nat, n : Nat, fl : Flags]
  BY <1>2, KernelFrame DEF VmmInv, VmmTypeOK
<1>4. Covered(rest) = {} /\ Covered(rest') = {}  BY <1>2, <1>3, NothingLeft, KernelFrame
<1>5. /\ EntOK(ent')
      /\ \A w \in Pages : vmm_query(ent', w) = IF w \div Span(l) = v \div Span(l) THEN -1 ELSE vmm_query(ent, w)
  BY <1>1, <1>2, <1>3, ClearFacts
<1> HIDE DEF l
<1>6. meant' \in [Pages -> Nat \cup {-1}] /\ torn' \in SUBSET Pages  BY <1>2, <1>3
<1>7. \A w \in Pages : vmm_query(ent, w) = IF w \in torn THEN -1 ELSE meant[w]
  BY <1>4 DEF VmmInv, Translates
<1>8. \A w \in Pages : vmm_query(ent', w) = IF w \in torn' THEN -1 ELSE meant'[w]
  BY <1>1, <1>2, <1>3, <1>5, <1>7
<1>9. Translates'  BY <1>8 DEF Translates
<1>10. VmmTypeOK'  BY <1>2, <1>3, <1>5, <1>6, KernelFrame DEF VmmTypeOK, VmmInv
<1> QED  BY <1>2, <1>3, <1>9, <1>10, KernelFrame DEF VmmInv

\* The tables always translate as was asked: build_pagemap's ranges agree with
\* each other, so that map_page may leave a large page alone, and the kernel's
\* calls disturb no page but theirs and those of a large page they take out.
THEOREM VmmInvariant == VmmSpec => []VmmInv
<1>1. VmmInit => VmmInv  BY VmmStarts
<1>2. VmmInv /\ [VmmNext]_vmmvars => VmmInv'
  <2> SUFFICES ASSUME VmmInv, [VmmNext]_vmmvars PROVE VmmInv'  OBVIOUS
  <2>1. CASE \E rev \in 0 .. 4, kn \in Kernels, mm \in MemMaps : build_pagemap(rev, kn, mm)
    BY <2>1, StepBuild
  <2>2. CASE NextRange
    BY <2>2, StepRange
  <2>3. CASE map_pages
    BY <2>3, StepMap
  <2>4. CASE EnterKernel
    BY <2>4, StepEnter
  <2>5. CASE \E v \in Touched : vmm_unmap(v)
    BY <2>5, StepUnmap
  <2>6. CASE \E v \in Touched : vmm_alloc_page(v)
    BY <2>6, StepAlloc
  <2>7. CASE \E v \in Touched : map_kernel_heap(v)
    BY <2>7, StepHeap
  <2>8. CASE \E v \in Touched, p \in Given : vmm_map(v, p)
    BY <2>8, StepVmmMap
  <2>9. CASE UNCHANGED vmmvars
    <3>1. UNCHANGED <<ent, gib, vphase, todo, rest, fbcur, meant, torn, vcalls>>  BY <2>9 DEF vmmvars
    <3>2. VmmTypeOK' /\ Translates'  BY <3>1 DEF VmmInv, VmmTypeOK, Translates
    <3>3. vphase' = "build" => \E kn \in Kernels : Aimed(kn.pbase - kn.vbase)'
      BY <3>1 DEF VmmInv, Aimed
    <3> QED  BY <3>1, <3>2, <3>3 DEF VmmInv
  <2> QED  BY <2>1, <2>2, <2>3, <2>4, <2>5, <2>6, <2>7, <2>8, <2>9 DEF VmmNext
<1> QED  BY <1>1, <1>2, PTL DEF VmmSpec

\* Every page translates to what it was last mapped to (vmm_query after
\* map_pages, vmm_map, vmm_alloc_page, map_kernel_heap and vmm_unmap).
THEOREM VmmTranslates == VmmSpec => []Translates
<1>1. VmmInv => Translates  BY DEF VmmInv
<1> QED  BY <1>1, VmmInvariant, PTL

-----------------------------------------------------------------------------
(* The boot protocol.                                                       *)

\* The order of the steps of limine_load.
Rank(s) ==
  CASE s = "open" -> 0 [] s = "revision" -> 1 [] s = "requests" -> 2 [] s = "supported" -> 3 [] s = "paging" -> 4
    [] s = "file" -> 5 [] s = "entry" -> 6 [] s = "info" -> 7 [] s = "cmdline" -> 8 [] s = "firmware" -> 9
    [] s = "address" -> 10 [] s = "hhdm" -> 11 [] s = "rsdp" -> 12 [] s = "smbios" -> 13 [] s = "efi_st" -> 14
    [] s = "dtb" -> 15 [] s = "stack" -> 16 [] s = "exec_file" -> 17 [] s = "modules" -> 18 [] s = "fb" -> 19
    [] s = "date" -> 20 [] s = "perf" -> 21 [] s = "exit" -> 22 [] s = "efi_mmap" -> 23 [] s = "pagemap" -> 24
    [] s = "mp" -> 25 [] s = "memmap" -> 26 [] s = "spinup" -> 27 [] s = "kernel" -> 28 [] OTHER -> -1
Steps == {"open", "revision", "requests", "supported", "file", "exit", "pagemap", "spinup", "kernel"} \cup Features
Past(s) == Rank(step) > Rank(s)

\* The tags of a kind that a loop has seen and that count so far.
Live(k) ==
  {i \in DOMAIN image.tags : i < tagno /\ Tag(i).k = k /\ \A j \in i + 1 .. tagno - 1 : Tag(j).k # "start"}
NoEnd == \A j \in 1 .. tagno - 1 : Tag(j).k # "end"

LimTypes ==
  /\ \E b \in Boots : image = b.image /\ mach = b.mach
  /\ step \in Steps \cup {"panic"}
  /\ tagno \in Nat /\ 1 <= tagno /\ tagno <= Len(image.tags) + 1 /\ baserev \in Nat
  /\ revtags \in Nat \X Nat /\ requests \in Seq(DOMAIN image.tags) /\ limits \in Nat \X Nat /\ mode \in Nat
  /\ answers = [i \in DOMAIN image.tags |-> answers[i]]

\* The two loops.
Searching ==
  /\ step \in {"open", "revision"} => requests = <<>>
  /\ step = "open" => tagno = 1 /\ baserev = 0 /\ revtags = <<0, 0>>
  /\ step = "revision" => NoEnd /\ Tells(Live("rev"))
  /\ step = "requests" /\ ~Listed =>
       /\ NoEnd
       /\ \A i \in DOMAIN image.tags : (\E n \in DOMAIN requests : requests[n] = i) <=> i \in Live("req")
       /\ \A n, m \in DOMAIN requests : Tag(requests[n]).id = Tag(requests[m]).id => n = m

\* What they found.
Found ==
  /\ \A id \in Features : get_request(id) # 0 =>
       get_request(id) \in DOMAIN image.tags /\ Asked(get_request(id)) /\ Tag(get_request(id)).id = id
  /\ \A i \in DOMAIN image.tags : Asked(i) => get_request(Tag(i).id) = i

ModesFit ==
  /\ limits[1] <= limits[2] /\ limits[2] <= mach.cpumax /\ limits[2] <= mach.usermax
  /\ mach.usermin <= limits[1] /\ Needed(mach, baserev) <= limits[1]

\* With UEFI the first call for the raw map ends the load.
NotUefi == step # "open" => mach.uefi # TRUE

\* The answers so far are those of the features so far.
Answered ==
  \A i \in DOMAIN image.tags :
    (answers[i] # NotAnswered) <=>
      \E id \in Features : Past(id) /\ get_request(id) = i /\ Available(id) /\ ~Ignored(i)

LimInv ==
  /\ LimTypes
  /\ step # "panic" =>
       /\ NotUefi /\ Searching
       /\ Past("revision") => RevisionTold
       /\ Past("requests") => Found
       /\ Past("supported") => ModesFit
       /\ Past("paging") => ModeAgreed /\ offset = "set"
       /\ Past("modules") => \A n \in DOMAIN Wanted : Wanted[n].required => Wanted[n].name \in mach.files
       /\ ~Past("memmap") => open = TRUE
       /\ ~Past("exit") => services = TRUE
       /\ Answered
       /\ \A i \in DOMAIN answers : answers[i].k = "hhdm" => answers[i].v = "set"

-----------------------------------------------------------------------------
(* Facts about steps, inputs and requests.                                  *)

LEMMA Ranks ==
  /\ Rank("open") = 0 /\ Rank("revision") = 1 /\ Rank("requests") = 2 /\ Rank("supported") = 3 /\ Rank("paging") = 4
  /\ Rank("file") = 5 /\ Rank("entry") = 6 /\ Rank("info") = 7 /\ Rank("cmdline") = 8 /\ Rank("firmware") = 9
  /\ Rank("address") = 10 /\ Rank("hhdm") = 11 /\ Rank("rsdp") = 12 /\ Rank("smbios") = 13 /\ Rank("efi_st") = 14
  /\ Rank("dtb") = 15 /\ Rank("stack") = 16 /\ Rank("exec_file") = 17 /\ Rank("modules") = 18 /\ Rank("fb") = 19
  /\ Rank("date") = 20 /\ Rank("perf") = 21 /\ Rank("exit") = 22 /\ Rank("efi_mmap") = 23 /\ Rank("pagemap") = 24
  /\ Rank("mp") = 25 /\ Rank("memmap") = 26 /\ Rank("spinup") = 27 /\ Rank("kernel") = 28
BY DEF Rank

LEMMA RankRange == \A s \in Steps : Rank(s) \in Int
BY Ranks DEF Steps, Features

\* The features come between paging and memmap, at steps of their own.
LEMMA FeatureRanks ==
  /\ \A id \in Features : Rank(id) \in Int /\ 4 <= Rank(id) /\ Rank(id) <= 26 /\ Rank(id) \notin {5, 22, 24}
  /\ \A id \in Features, s \in Steps : Rank(id) = Rank(s) => id = s
<1>1. \A id \in Features : Rank(id) \in Int /\ 4 <= Rank(id) /\ Rank(id) <= 26 /\ Rank(id) \notin {5, 22, 24}
  BY Ranks DEF Features
<1>2. ASSUME NEW id \in Features, NEW s \in Steps, Rank(id) = Rank(s) PROVE id = s
  BY <1>2, Ranks DEF Features, Steps
<1> QED
  BY <1>1, <1>2

LEMMA Tags ==
  ASSUME LimTypes
  PROVE  /\ Len(image.tags) \in Nat /\ DOMAIN image.tags = 1 .. Len(image.tags)
         /\ \A i \in DOMAIN image.tags :
              /\ Tag(i).k \in {"start", "end", "rev", "req"}
              /\ Tag(i).k = "rev" => Tag(i).n \in Nat
              /\ Tag(i).k = "req" /\ Tag(i).id = "paging" => Tag(i).arg \in PagingArg
         /\ image.section \in Seq(Nat)
         /\ image.section # NoSection =>
              \A n \in DOMAIN image.section : image.section[n] \in DOMAIN image.tags /\ Tag(image.section[n]).k = "req"
         /\ mach.cpumax \in {0, 1} /\ mach.usermin \in {0, 1} /\ mach.usermax \in {0, 1}
<1>1. PICK b \in Boots : image = b.image /\ mach = b.mach
  BY DEF LimTypes
<1>2. /\ DOMAIN b.image.tags = 1 .. Len(b.image.tags) /\ Len(b.image.tags) \in Nat
      /\ \A i \in DOMAIN b.image.tags :
           /\ b.image.tags[i].k \in {"start", "end", "rev", "req"}
           /\ b.image.tags[i].k = "rev" => b.image.tags[i].n \in Nat
           /\ b.image.tags[i].k = "req" /\ b.image.tags[i].id = "paging" => b.image.tags[i].arg \in PagingArg
      /\ b.image.section \in Seq(Nat)
      /\ b.image.section # NoSection =>
           \A n \in DOMAIN b.image.section :
             b.image.section[n] \in DOMAIN b.image.tags /\ b.image.tags[b.image.section[n]].k = "req"
      /\ b.mach.cpumax \in {0, 1} /\ b.mach.usermin \in {0, 1} /\ b.mach.usermax \in {0, 1}
  BY LimineInputs
<1> QED
  BY <1>1, <1>2 DEF Tag

LEMMA LeastNat ==
  ASSUME NEW T, T \subseteq Nat, T # {}
  PROVE  LET n == CHOOSE k \in T : \A m \in T : k <= m IN n \in T /\ \A m \in T : n <= m
<1>1. PICK n \in T : \A m \in T : ~(<<m, n>> \in OpToRel(<, Nat))
  BY NatLessThanWellFounded, WFMin
<1>2. \A m \in T : ~(m < n)
  BY <1>1 DEF OpToRel
<1>3. \A m \in T : n <= m
  BY <1>2
<1> QED
  BY <1>3

\* get_request with the list and the image it looks in.
Hits(rq, im, id) == {n \in DOMAIN rq : im.tags[rq[n]].id = id}
GetIn(rq, im, id) ==
  IF Hits(rq, im, id) = {} THEN 0 ELSE rq[CHOOSE n \in Hits(rq, im, id) : \A m \in Hits(rq, im, id) : n <= m]

LEMMA GetRequest == \A id : get_request(id) = GetIn(requests, image, id)
BY DEF get_request, GetIn, Hits, Tag

LEMMA GetRequestNext == \A id : get_request(id)' = GetIn(requests', image', id)
BY DEF get_request, GetIn, Hits, Tag

Has(rq, im, id) == \E n \in DOMAIN rq : im.tags[rq[n]].id = id
IsFirst(rq, im, id, n) ==
  GetIn(rq, im, id) = rq[n] /\ im.tags[rq[n]].id = id /\ \A m \in 1 .. n - 1 : im.tags[rq[m]].id # id

\* It finds the first request with the id, if there is one.
LEMMA FirstHit ==
  ASSUME NEW im, NEW S, NEW rq \in Seq(S), NEW id
  PROVE  /\ Has(rq, im, id) => \E n \in DOMAIN rq : IsFirst(rq, im, id, n)
         /\ ~Has(rq, im, id) => GetIn(rq, im, id) = 0
<1> DEFINE hits == Hits(rq, im, id)
<1> DEFINE first == CHOOSE n \in hits : \A m \in hits : n <= m
<1>1. GetIn(rq, im, id) = IF hits = {} THEN 0 ELSE rq[first]
  BY DEF GetIn
<1>2. hits \subseteq Nat /\ DOMAIN rq = 1 .. Len(rq) /\ Len(rq) \in Nat
  BY DEF Hits
<1>3. hits # {} => first \in hits /\ \A m \in hits : first <= m
  BY <1>2, LeastNat
<1> HIDE DEF first
<1>4. ASSUME hits # {} PROVE \A m \in 1 .. first - 1 : im.tags[rq[m]].id # id
  BY <1>2, <1>3, <1>4 DEF Hits
<1> QED
  BY <1>1, <1>2, <1>3, <1>4 DEF Hits, Has, IsFirst

-----------------------------------------------------------------------------
(* Steps that leave the image and what was found in it.                     *)

\* What does not change with the answers and the step.
LEMMA Frozen ==
  ASSUME UNCHANGED <<image, mach, baserev, revtags, requests>>
  PROVE  /\ \A id : get_request(id)' = get_request(id) /\ (Available(id)' <=> Available(id))
         /\ \A i : (Ignored(i)' <=> Ignored(i)) /\ Tag(i)' = Tag(i) /\ (Asked(i)' <=> Asked(i))
         /\ Wanted' = Wanted /\ (Found' <=> Found) /\ (RevisionTold' <=> RevisionTold)
<1>1. \A i : Tag(i)' = Tag(i)
  BY DEF Tag
<1>2. \A id : get_request(id)' = get_request(id)
  BY DEF get_request, Tag
<1>3. Wanted' = Wanted
  BY <1>1, <1>2 DEF Wanted
<1>4. \A id : Available(id)' <=> Available(id)
  BY <1>3 DEF Available
<1>5. \A i : Ignored(i)' <=> Ignored(i)
  BY <1>1 DEF Ignored
<1>6. Counted' = Counted /\ (Listed' <=> Listed)
  BY <1>1 DEF Counted, Listed
<1>7. \A i : Asked(i)' <=> Asked(i)
  BY <1>1, <1>6 DEF Asked
<1>8. Found' <=> Found
  BY <1>1, <1>2, <1>7 DEF Found
<1>9. RevisionTold' <=> RevisionTold
  BY <1>1, <1>6 DEF RevisionTold, Tells
<1> QED
  BY <1>1, <1>2, <1>3, <1>4, <1>5, <1>7, <1>8, <1>9

LEMMA PanicStep ==
  ASSUME LimInv, step' = "panic", UNCHANGED <<image, mach, tagno, baserev, revtags, requests, limits, mode, answers>>
  PROVE  LimInv'
BY DEF LimInv, LimTypes

\* Before the features nothing is answered.
LEMMA Unanswered ==
  ASSUME step \in Steps, Rank(step) <= 4
  PROVE  Answered <=> \A i \in DOMAIN image.tags : answers[i] = NotAnswered
<1>1. \A id \in Features : ~Past(id)
  BY FeatureRanks, RankRange DEF Past
<1> QED
  BY <1>1 DEF Answered

-----------------------------------------------------------------------------
(* The search.                                                              *)

\* A step of the search keeps the invariant when it keeps the parts that are
\* about the search.
LEMMA SearchStep ==
  ASSUME LimInv, step \in Steps, Rank(step) <= 3, step' \in Steps, Rank(step') <= 4,
         UNCHANGED <<image, mach, mode, offset, open, services, answers>>, step = "open" => mach.uefi # TRUE,
         tagno' \in Nat, 1 <= tagno', tagno' <= Len(image.tags) + 1, baserev' \in Nat, revtags' \in Nat \X Nat,
         requests' \in Seq(DOMAIN image.tags), limits' \in Nat \X Nat,
         Searching', Rank(step') > 1 => RevisionTold', Rank(step') > 2 => Found', Rank(step') > 3 => ModesFit'
  PROVE  LimInv'
<1>1. step # "panic" /\ step' # "panic"
  BY DEF Steps, Features
<1>2. LimTypes'
  BY DEF LimInv, LimTypes
<1>3. Rank(step') \in Int /\ Rank(step) \in Int
  BY RankRange
<1>0. Rank("paging") = 4 /\ Rank("modules") = 18 /\ Rank("exit") = 22 /\ Rank("memmap") = 26
  BY Ranks
<1>4. ~(Rank(step') > 4) /\ ~(Rank(step') > 18) /\ ~(Rank(step') > 22) /\ ~(Rank(step') > 26)
  BY <1>3
<1>5. open = TRUE /\ services = TRUE
  <2>1. ~(Rank(step) > 22) /\ ~(Rank(step) > 26)
    BY <1>3
  <2>2. ~Past("exit") /\ ~Past("memmap")
    BY <1>0, <2>1 DEF Past
  <2> QED
    BY <1>1, <2>2 DEF LimInv
<1>9. ~Past("paging")' /\ ~Past("modules")' /\ ~Past("memmap")' /\ ~Past("exit")'
  BY <1>0, <1>4 DEF Past
<1>6. Answered'
  <2>1. \A i \in DOMAIN image.tags : answers[i] = NotAnswered
    BY <1>1, <1>3, Unanswered DEF LimInv
  <2>2. \A id \in Features : ~Past(id)'
    BY FeatureRanks, <1>3 DEF Past
  <2> QED
    BY <2>1, <2>2 DEF Answered
<1>7. \A i \in DOMAIN answers' : answers'[i].k = "hhdm" => answers'[i].v = "set"
  BY <1>1 DEF LimInv
<1>8. (Past("revision")' => RevisionTold') /\ (Past("requests")' => Found') /\ (Past("supported")' => ModesFit')
  BY Ranks DEF Past
<1>10. NotUefi'
  BY <1>1 DEF LimInv, NotUefi
<1> QED
  BY <1>1, <1>2, <1>5, <1>6, <1>7, <1>8, <1>9, <1>10 DEF LimInv

LEMMA LoadStep == ASSUME LimInv, Load PROVE LimInv'
<1>1. CASE step' = "panic"
  BY <1>1, PanicStep DEF Load, Unsearched
<1>0. ASSUME step = "open" PROVE services = TRUE
  BY <1>0, Ranks DEF LimInv, Past
<1>2. CASE step' = "revision"
  <2>1. step = "open" /\ step \in Steps /\ step' \in Steps /\ Rank(step) = 0 /\ Rank(step') = 1
    BY <1>2, Ranks DEF Load, Steps
  <2>0. mach.uefi # TRUE /\ open' = open
    BY <1>0, <1>2, <2>1 DEF Load, RawRefused, AfterRaw, Panic
  <2>2. UNCHANGED <<image, mach, limits, mode, offset, open, services, answers, tagno, baserev, revtags, requests>>
    BY <2>0 DEF Load, Unsearched
  <2>3. LimTypes /\ tagno = 1 /\ baserev = 0 /\ revtags = <<0, 0>> /\ requests = <<>>
    BY <2>1 DEF LimInv, Searching
  <2>4. NoEnd'
    BY <2>2, <2>3 DEF NoEnd
  <2>5. Live("rev")' = {}
    <3>1. \A i \in DOMAIN image.tags : ~(i < tagno')
      BY <2>2, <2>3, Tags
    <3> QED
      BY <3>1, <2>2 DEF Live
  <2>6. Tells(Live("rev"))'
    BY <2>2, <2>3, <2>5 DEF Tells
  <2>7. Searching'
    BY <1>2, <2>2, <2>3, <2>4, <2>6 DEF Searching
  <2> QED
    BY <2>0, <2>1, <2>2, <2>3, <2>7, SearchStep DEF LimTypes
<1> QED
  BY <1>1, <1>2 DEF Load, Panic, Go

\* What a loop sees when it goes on: the tag joins those of its kind, and a
\* start marker ends them all.
LEMMA LiveNext ==
  ASSUME LimTypes, tagno <= Len(image.tags), tagno' = tagno + 1, UNCHANGED image, NEW k, k # "start"
  PROVE  /\ Tag(tagno).k = "start" => Live(k)' = {}
         /\ Tag(tagno).k = k => Live(k)' = Live(k) \cup {tagno}
         /\ Tag(tagno).k \notin {"start", k} => Live(k)' = Live(k)
<1>1. Len(image.tags) \in Nat /\ DOMAIN image.tags = 1 .. Len(image.tags) /\ tagno \in Nat /\ 1 <= tagno
  BY Tags DEF LimTypes
<1>2. \A i : Tag(i)' = Tag(i)
  BY DEF Tag
<1>3. Live(k)' = {i \in DOMAIN image.tags : i < tagno + 1 /\ Tag(i).k = k /\ \A j \in i + 1 .. tagno : Tag(j).k # "start"}
  BY <1>1, <1>2 DEF Live
<1>4. ASSUME Tag(tagno).k = "start" PROVE Live(k)' = {}
  BY <1>1, <1>3, <1>4
<1>5. ASSUME Tag(tagno).k = k PROVE Live(k)' = Live(k) \cup {tagno}
  <2>1. \A i \in DOMAIN image.tags : i < tagno + 1 <=> i < tagno \/ i = tagno
    BY <1>1
  <2>2. \A i \in DOMAIN image.tags : (\A j \in i + 1 .. tagno : Tag(j).k # "start") <=> (\A j \in i + 1 .. tagno - 1 : Tag(j).k # "start")
    BY <1>1, <1>5
  <2> QED
    BY <1>1, <1>3, <1>5, <2>1, <2>2 DEF Live
<1>6. ASSUME Tag(tagno).k \notin {"start", k} PROVE Live(k)' = Live(k)
  <2>1. \A i \in DOMAIN image.tags : i < tagno + 1 /\ Tag(i).k = k <=> i < tagno /\ Tag(i).k = k
    BY <1>1, <1>6
  <2>2. \A i \in DOMAIN image.tags : (\A j \in i + 1 .. tagno : Tag(j).k # "start") <=> (\A j \in i + 1 .. tagno - 1 : Tag(j).k # "start")
    BY <1>1, <1>6
  <2> QED
    BY <1>3, <2>1, <2>2 DEF Live
<1> QED
  BY <1>4, <1>5, <1>6

LEMMA NoEndNext ==
  ASSUME LimTypes, NoEnd, tagno <= Len(image.tags), Tag(tagno).k # "end", tagno' = tagno + 1, UNCHANGED image
  PROVE  NoEnd'
<1>1. tagno \in Nat
  BY DEF LimTypes
<1>2. \A i : Tag(i)' = Tag(i)
  BY DEF Tag
<1>3. \A j \in 1 .. tagno : Tag(j).k # "end"
  BY <1>1 DEF NoEnd
<1>4. tagno' - 1 = tagno
  BY <1>1
<1> QED
  BY <1>2, <1>3, <1>4 DEF NoEnd

\* At the end of a loop the tags that are left are those that count.
LEMMA LiveIsCounted ==
  ASSUME LimTypes, NoEnd, Searched, NEW k, k # "start", k # "end"
  PROVE  Live(k) = {i \in Counted : Tag(i).k = k}
<1>1. Len(image.tags) \in Nat /\ DOMAIN image.tags = 1 .. Len(image.tags) /\ tagno \in Nat /\ 1 <= tagno
  BY Tags DEF LimTypes
<1>2. ASSUME NEW i \in Live(k) PROVE i \in Counted
  <2>1. i \in DOMAIN image.tags /\ i < tagno /\ Tag(i).k = k /\ \A j \in i + 1 .. tagno - 1 : Tag(j).k # "start"
    BY <1>2 DEF Live
  <2>2. \A j \in 1 .. i : Tag(j).k # "end"
    BY <1>1, <2>1 DEF NoEnd
  <2>3. ASSUME NEW j \in i .. Len(image.tags), Tag(j).k = "start" PROVE \E e \in 1 .. j : Tag(e).k = "end"
    <3>1. j >= tagno
      BY <1>1, <2>1, <2>3
    <3>2. Tag(tagno).k = "end"
      BY <1>1, <2>3, <3>1 DEF Searched, Seen
    <3> QED
      BY <1>1, <3>1, <3>2
  <2> QED
    BY <2>1, <2>2, <2>3 DEF Counted
<1>3. ASSUME NEW i \in Counted, Tag(i).k = k PROVE i \in Live(k)
  <2>1. /\ i \in DOMAIN image.tags
        /\ \A j \in 1 .. i : Tag(j).k # "end"
        /\ \A j \in i .. Len(image.tags) : Tag(j).k = "start" => \E e \in 1 .. j : Tag(e).k = "end"
    BY DEF Counted
  <2>2. i < tagno
    BY <1>1, <2>1 DEF Searched, Seen
  <2>3. ASSUME NEW j \in i + 1 .. tagno - 1 PROVE Tag(j).k # "start"
    <3>1. tagno - 1 <= Len(image.tags)
      BY <1>1 DEF Searched, Seen, LimTypes
    <3> QED
      BY <1>1, <2>1, <3>1 DEF NoEnd
  <2> QED
    BY <1>3, <2>1, <2>2, <2>3 DEF Live
<1> QED
  BY <1>2, <1>3 DEF Live

\* The first loop.
LEMMA RevisionOnward ==
  ASSUME LimInv, step = "revision", Unsearched, UNCHANGED <<requests, open>>, tagno <= Len(image.tags), Tag(tagno).k # "end", Onward,
         baserev' \in Nat, revtags' \in Nat \X Nat, Tells(Live("rev"))'
  PROVE  LimInv'
<1>1. step \in Steps /\ step' = "revision" /\ step' \in Steps /\ Rank(step) = 1 /\ Rank(step') = 1
  BY Ranks DEF Onward, Steps
<1>2. UNCHANGED <<image, mach, limits, mode, offset, open, services, answers, requests>> /\ tagno' = tagno + 1
  BY DEF Unsearched, Onward
<1>3. LimTypes /\ NoEnd /\ requests = <<>> /\ Len(image.tags) \in Nat
  BY <1>1, Tags DEF LimInv, Searching
<1>4. NoEnd'
  BY <1>2, <1>3, NoEndNext
<1>5. Searching'
  BY <1>1, <1>2, <1>3, <1>4 DEF Searching
<1>6. tagno' \in Nat /\ 1 <= tagno' /\ tagno' <= Len(image.tags) + 1
  BY <1>2, <1>3 DEF LimTypes
<1> QED
  BY <1>1, <1>2, <1>3, <1>5, <1>6, SearchStep DEF LimTypes

LEMMA RevisionStartStep ==
  ASSUME LimInv, step = "revision", Unsearched, UNCHANGED <<requests, open>>, RevisionStart PROVE LimInv'
<1>1. LimTypes /\ tagno <= Len(image.tags) /\ Tag(tagno).k = "start" /\ tagno' = tagno + 1 /\ UNCHANGED image
  BY DEF LimInv, RevisionStart, Seen, Onward, Unsearched
<1>2. Live("rev")' = {}
  BY <1>1, LiveNext
<1>3. Tells(Live("rev"))'
  BY <1>2 DEF RevisionStart, Tells
<1> QED
  BY <1>1, <1>3, RevisionOnward DEF RevisionStart

LEMMA RevisionTagStep ==
  ASSUME LimInv, step = "revision", Unsearched, UNCHANGED <<requests, open>>, RevisionTag PROVE LimInv'
<1>1. LimTypes /\ tagno <= Len(image.tags) /\ Tag(tagno).k = "rev" /\ UNCHANGED image
  BY DEF LimInv, RevisionTag, Seen, Unsearched
<1>2. CASE baserev # 0
  BY <1>2, PanicStep DEF RevisionTag, Panic, Unsearched
<1>3. CASE baserev = 0
  <2>1. Onward /\ tagno' = tagno + 1
    BY <1>3 DEF RevisionTag, Onward
  <2>2. Live("rev")' = Live("rev") \cup {tagno}
    BY <1>1, <2>1, LiveNext
  <2>3. tagno \in Nat /\ 1 <= tagno /\ tagno \in DOMAIN image.tags /\ Tag(tagno).n \in Nat /\ revtags \in Nat \X Nat
    BY <1>1, Tags DEF LimTypes
  <2>4. \A i : Tag(i)' = Tag(i)
    BY <1>1 DEF Tag
  <2>5. Tells(Live("rev"))
    BY DEF LimInv, Searching
  <2> DEFINE L == Live("rev")
  <2>6. /\ revtags[2] # 0 => revtags[2] \in {i \in L : Tag(i).n <= SUPPORTED_BASE_REVISION}
        /\ L # {} => revtags[1] \in L
        /\ L = {i \in L : Tag(i).n <= SUPPORTED_BASE_REVISION} /\ L # {} => revtags[2] # 0
        /\ L = {} => revtags = <<0, 0>>
    BY <2>5 DEF Tells
  <2>7. \A i \in L : i \in Nat /\ i < tagno
    BY <1>1, Tags DEF Live
  <2>10. Live("rev")' = L \cup {tagno}
    BY <2>2
  <2> HIDE DEF L
  <2>8. CASE Tag(tagno).n <= SUPPORTED_BASE_REVISION
    <3>1. baserev' = Tag(tagno).n /\ revtags' = <<tagno, tagno>>
      BY <1>3, <2>8 DEF RevisionTag
    <3>2. Tells(Live("rev"))'
      BY <2>3, <2>4, <2>8, <2>10, <3>1 DEF Tells
    <3> QED
      BY <1>1, <2>1, <2>3, <3>1, <3>2, RevisionOnward
  <2>9. CASE ~(Tag(tagno).n <= SUPPORTED_BASE_REVISION)
    <3>1. baserev' = SUPPORTED_BASE_REVISION /\ revtags' = <<tagno, revtags[2]>>
      BY <1>3, <2>9 DEF RevisionTag
    <3>2. baserev' <= Tag(tagno).n /\ SUPPORTED_BASE_REVISION \in Nat
      BY <2>3, <2>9, <3>1 DEF SUPPORTED_BASE_REVISION
    <3>3. revtags[2] # 0 => revtags[2] \in {i \in L : Tag(i).n <= SUPPORTED_BASE_REVISION} /\ revtags[2] # tagno
      BY <2>3, <2>6, <2>7
    <3>4. tagno \notin {i \in L \cup {tagno} : Tag(i).n <= SUPPORTED_BASE_REVISION}
      BY <2>9
    <3>5. revtags'[1] = tagno /\ revtags'[2] = revtags[2]
      BY <3>1
    <3>6. Tells(Live("rev"))'
      BY <2>3, <2>4, <2>10, <3>1, <3>2, <3>3, <3>4, <3>5 DEF Tells
    <3> QED
      BY <1>1, <2>1, <2>3, <3>1, <3>2, <3>6, RevisionOnward
  <2> QED
    BY <2>8, <2>9
<1> QED
  BY <1>2, <1>3

LEMMA RevisionPassStep ==
  ASSUME LimInv, step = "revision", Unsearched, UNCHANGED <<requests, open>>, RevisionPass PROVE LimInv'
<1>1. LimTypes /\ tagno <= Len(image.tags) /\ Tag(tagno).k = "req" /\ tagno' = tagno + 1 /\ UNCHANGED image
  BY DEF LimInv, RevisionPass, Seen, Onward, Unsearched
<1>2. Live("rev")' = Live("rev") /\ \A i : Tag(i)' = Tag(i)
  BY <1>1, LiveNext DEF Tag
<1>3. Tells(Live("rev"))'
  BY <1>2 DEF RevisionPass, Tells, LimInv, Searching
<1> QED
  BY <1>1, <1>3, RevisionOnward DEF RevisionPass, LimTypes

LEMMA RevisionEndStep ==
  ASSUME LimInv, step = "revision", Unsearched, UNCHANGED <<requests, open>>, RevisionEnd PROVE LimInv'
<1>1. step \in Steps /\ step' = "requests" /\ step' \in Steps /\ Rank(step) = 1 /\ Rank(step') = 2
  BY Ranks DEF RevisionEnd, Go, Steps
<1>2. UNCHANGED <<image, mach, limits, mode, offset, open, services, answers, requests, baserev, revtags>> /\ tagno' = 1
  BY DEF Unsearched, RevisionEnd
<1>3. LimTypes /\ NoEnd /\ requests = <<>> /\ Tells(Live("rev")) /\ Searched
  BY <1>1 DEF LimInv, Searching, RevisionEnd
<1>4. Live("rev") = {i \in Counted : Tag(i).k = "rev"}
  BY <1>3, LiveIsCounted
<1>5. RevisionTold'
  BY <1>2, <1>3, <1>4, Frozen DEF RevisionTold
<1>6. Searching'
  <2>1. NoEnd'
    BY <1>2 DEF NoEnd
  <2>2. Live("req")' = {}
    <3>1. \A i \in DOMAIN image.tags : ~(i < tagno')
      BY <1>2, <1>3, Tags
    <3> QED
      BY <3>1, <1>2 DEF Live
  <2> QED
    BY <1>1, <1>2, <1>3, <2>1, <2>2 DEF Searching
<1>7. tagno' \in Nat /\ 1 <= tagno' /\ tagno' <= Len(image.tags) + 1
  BY <1>2, <1>3, Tags
<1> QED
  BY <1>1, <1>2, <1>3, <1>5, <1>6, <1>7, SearchStep DEF LimTypes

\* The second loop.
LEMMA RequestOnward ==
  ASSUME LimInv, step = "requests", ~Listed, Unsearched, UNCHANGED <<baserev, revtags, open>>,
         tagno <= Len(image.tags), Tag(tagno).k # "end", Onward, requests' \in Seq(DOMAIN image.tags),
         \A i \in DOMAIN image.tags : (\E n \in DOMAIN requests' : requests'[n] = i) <=> i \in Live("req")',
         \A n, m \in DOMAIN requests' : Tag(requests'[n]).id = Tag(requests'[m]).id => n = m
  PROVE  LimInv'
<1>1. step \in Steps /\ step' = "requests" /\ step' \in Steps /\ Rank(step) = 2 /\ Rank(step') = 2
  BY Ranks DEF Onward, Steps
<1>2. UNCHANGED <<image, mach, limits, mode, offset, open, services, answers, baserev, revtags>> /\ tagno' = tagno + 1
  BY DEF Unsearched, Onward
<1>3. LimTypes /\ NoEnd /\ Len(image.tags) \in Nat /\ RevisionTold
  BY <1>1, Tags, Ranks DEF LimInv, Searching, Past
<1>4. NoEnd' /\ \A i : Tag(i)' = Tag(i)
  BY <1>2, <1>3, NoEndNext DEF Tag
<1>5. Searching'
  BY <1>1, <1>2, <1>4 DEF Searching
<1>6. tagno' \in Nat /\ 1 <= tagno' /\ tagno' <= Len(image.tags) + 1
  BY <1>2, <1>3 DEF LimTypes
<1>7. RevisionTold'
  <2>1. Counted' = Counted
    BY <1>2, <1>4 DEF Counted
  <2> QED
    BY <1>2, <1>3, <1>4, <2>1 DEF RevisionTold, Tells
<1> QED
  BY <1>1, <1>2, <1>3, <1>5, <1>6, <1>7, SearchStep DEF LimTypes

LEMMA RequestStartStep ==
  ASSUME LimInv, step = "requests", ~Listed, Unsearched, UNCHANGED <<baserev, revtags, open>>, RequestStart PROVE LimInv'
<1>1. LimTypes /\ tagno <= Len(image.tags) /\ Tag(tagno).k = "start" /\ tagno' = tagno + 1 /\ UNCHANGED image
  BY DEF LimInv, RequestStart, Seen, Onward, Unsearched
<1>2. Live("req")' = {} /\ requests' = <<>>
  BY <1>1, LiveNext DEF RequestStart
<1> QED
  BY <1>1, <1>2, RequestOnward DEF RequestStart

LEMMA RequestPassStep ==
  ASSUME LimInv, step = "requests", ~Listed, Unsearched, UNCHANGED <<baserev, revtags, open>>, RequestPass PROVE LimInv'
<1>1. LimTypes /\ tagno <= Len(image.tags) /\ Tag(tagno).k = "rev" /\ tagno' = tagno + 1 /\ UNCHANGED image
  BY DEF LimInv, RequestPass, Seen, Onward, Unsearched
<1>2. Live("req")' = Live("req") /\ requests' = requests /\ requests \in Seq(DOMAIN image.tags)
  BY <1>1, LiveNext DEF RequestPass, LimTypes
<1>3. /\ \A i \in DOMAIN image.tags : (\E n \in DOMAIN requests : requests[n] = i) <=> i \in Live("req")
      /\ \A n, m \in DOMAIN requests : Tag(requests[n]).id = Tag(requests[m]).id => n = m
  BY DEF LimInv, Searching
<1> QED
  BY <1>1, <1>2, <1>3, RequestOnward DEF RequestPass

LEMMA RequestTagStep ==
  ASSUME LimInv, step = "requests", ~Listed, Unsearched, UNCHANGED <<baserev, revtags, open>>, RequestTag PROVE LimInv'
<1>1. LimTypes /\ tagno <= Len(image.tags) /\ Tag(tagno).k = "req" /\ UNCHANGED image
  BY DEF LimInv, RequestTag, Seen, Unsearched
<1>2. CASE Len(requests) = MaxRequests \/ get_request(Tag(tagno).id) # 0
  BY <1>2, PanicStep DEF RequestTag, Panic, Unsearched
<1>3. CASE ~(Len(requests) = MaxRequests \/ get_request(Tag(tagno).id) # 0)
  <2>1. Onward /\ tagno' = tagno + 1 /\ requests' = Append(requests, tagno)
    BY <1>3 DEF RequestTag, Onward
  <2>2. Live("req")' = Live("req") \cup {tagno}
    BY <1>1, <2>1, LiveNext
  <2>3. tagno \in DOMAIN image.tags /\ requests \in Seq(DOMAIN image.tags) /\ 0 \notin DOMAIN image.tags
    BY <1>1, Tags DEF LimTypes
  <2>4. /\ \A i \in DOMAIN image.tags : (\E n \in DOMAIN requests : requests[n] = i) <=> i \in Live("req")
        /\ \A n, m \in DOMAIN requests : Tag(requests[n]).id = Tag(requests[m]).id => n = m
    BY DEF LimInv, Searching
  <2>5. \A n \in DOMAIN requests : Tag(requests[n]).id # Tag(tagno).id
    <3>1. GetIn(requests, image, Tag(tagno).id) = 0
      BY <1>3, GetRequest
    <3>2. ~Has(requests, image, Tag(tagno).id)
      <4>1. ASSUME Has(requests, image, Tag(tagno).id) PROVE FALSE
        <5>1. PICK n \in DOMAIN requests : IsFirst(requests, image, Tag(tagno).id, n)
          BY <2>3, <4>1, FirstHit
        <5> QED
          BY <2>3, <3>1, <5>1 DEF IsFirst
      <4> QED
        BY <4>1
    <3> QED
      BY <3>2 DEF Tag, Has
  <2>6. /\ requests' \in Seq(DOMAIN image.tags) /\ Len(requests') = Len(requests) + 1 /\ requests'[Len(requests) + 1] = tagno
        /\ \A n \in 1 .. Len(requests) : requests'[n] = requests[n]
        /\ DOMAIN requests = 1 .. Len(requests) /\ DOMAIN requests' = 1 .. Len(requests) + 1 /\ Len(requests) \in Nat
    BY <2>1, <2>3
  <2>7. \A n \in DOMAIN requests' : n \in DOMAIN requests \/ n = Len(requests) + 1
    BY <2>6
  <2>8. \A i \in DOMAIN image.tags : (\E n \in DOMAIN requests' : requests'[n] = i) <=> i \in Live("req")'
    <3>1. ASSUME NEW i \in DOMAIN image.tags, NEW n \in DOMAIN requests', requests'[n] = i PROVE i \in Live("req")'
      BY <2>2, <2>4, <2>6, <2>7, <3>1
    <3>2. ASSUME NEW i \in DOMAIN image.tags, i \in Live("req")' PROVE \E n \in DOMAIN requests' : requests'[n] = i
      <4>1. CASE i = tagno
        <5>1. Len(requests) + 1 \in DOMAIN requests'
          BY <2>6
        <5> QED
          BY <4>1, <5>1, <2>6
      <4>2. CASE i \in Live("req")
        BY <4>2, <2>4, <2>6
      <4> QED
        BY <3>2, <2>2, <4>1, <4>2
    <3> QED
      BY <3>1, <3>2
  <2>9. \A n, m \in DOMAIN requests' : Tag(requests'[n]).id = Tag(requests'[m]).id => n = m
    BY <2>4, <2>5, <2>6, <2>7
  <2> QED
    BY <1>1, <2>1, <2>6, <2>8, <2>9, RequestOnward
<1> QED
  BY <1>2, <1>3

\* The end of the search: what it found is what was asked.
LEMMA FoundStep ==
  ASSUME LimInv, step = "requests", step' = "supported", Unsearched, UNCHANGED <<tagno, baserev, revtags, open>>,
         requests' \in Seq(DOMAIN image.tags), Found'
  PROVE  LimInv'
<1>1. step \in Steps /\ step' \in Steps /\ Rank(step) = 2 /\ Rank(step') = 3
  BY Ranks DEF Steps
<1>2. UNCHANGED <<image, mach, limits, mode, offset, open, services, answers, baserev, revtags>>
  BY DEF Unsearched
<1>3. LimTypes /\ RevisionTold
  BY <1>1, Ranks DEF LimInv, Past
<1>4. RevisionTold'
  <2>1. \A i : Tag(i)' = Tag(i)
    BY <1>2 DEF Tag
  <2>2. Counted' = Counted
    BY <1>2, <2>1 DEF Counted
  <2> QED
    BY <1>2, <1>3, <2>1, <2>2 DEF RevisionTold, Tells
<1>5. Searching'
  BY DEF Searching
<1> QED
  BY <1>1, <1>2, <1>3, <1>4, <1>5, SearchStep DEF LimTypes

LEMMA RequestEndStep ==
  ASSUME LimInv, step = "requests", ~Listed, Unsearched, UNCHANGED <<baserev, revtags, open>>, RequestEnd PROVE LimInv'
<1>1. LimTypes /\ NoEnd /\ Searched /\ UNCHANGED <<image, mach, requests, tagno>> /\ step' = "supported"
  BY DEF LimInv, Searching, RequestEnd, Unsearched, Go
<1>2. Live("req") = {i \in Counted : Tag(i).k = "req"}
  BY <1>1, LiveIsCounted
<1>3. requests \in Seq(DOMAIN image.tags) /\ 0 \notin DOMAIN image.tags
  BY <1>1, Tags DEF LimTypes
<1>4. /\ \A i \in DOMAIN image.tags : (\E n \in DOMAIN requests : requests[n] = i) <=> i \in Live("req")
      /\ \A n, m \in DOMAIN requests : Tag(requests[n]).id = Tag(requests[m]).id => n = m
  BY DEF LimInv, Searching
<1>5. \A i \in DOMAIN image.tags : Asked(i) <=> \E n \in DOMAIN requests : requests[n] = i
  BY <1>2, <1>4 DEF Asked
<1>6. \A n \in DOMAIN requests : requests[n] \in DOMAIN image.tags
  BY <1>3
<1>7. ASSUME NEW id, get_request(id) # 0
      PROVE  get_request(id) \in DOMAIN image.tags /\ Asked(get_request(id)) /\ Tag(get_request(id)).id = id
  <2>1. GetIn(requests, image, id) # 0
    BY <1>7, GetRequest
  <2>2. PICK n \in DOMAIN requests : IsFirst(requests, image, id, n)
    BY <1>3, <2>1, FirstHit
  <2>3. get_request(id) = requests[n]
    BY <2>2, GetRequest DEF IsFirst
  <2> QED
    BY <1>5, <1>6, <2>2, <2>3 DEF Tag, IsFirst
<1>8. ASSUME NEW i \in DOMAIN image.tags, Asked(i) PROVE get_request(Tag(i).id) = i
  <2>1. PICK n \in DOMAIN requests : requests[n] = i
    BY <1>5, <1>8
  <2>2. Has(requests, image, Tag(i).id)
    BY <2>1 DEF Tag, Has
  <2>3. PICK m \in DOMAIN requests : IsFirst(requests, image, Tag(i).id, m)
    BY <1>3, <2>2, FirstHit
  <2>4. n = m
    BY <1>4, <2>1, <2>3 DEF Tag, IsFirst
  <2> QED
    BY <2>1, <2>3, <2>4, GetRequest DEF IsFirst
<1>9. Found'
  BY <1>1, <1>7, <1>8, Frozen DEF Found
<1> QED
  BY <1>1, <1>3, <1>9, FoundStep DEF RequestEnd

LEMMA RequestSectionStep ==
  ASSUME LimInv, step = "requests", Unsearched, UNCHANGED <<baserev, revtags, open>>, RequestSection PROVE LimInv'
<1>1. LimTypes /\ UNCHANGED <<image, mach, tagno>> /\ requests' = image.section /\ step' = "supported" /\ Listed
  BY DEF LimInv, RequestSection, Unsearched, Go
<1>2. image.section # NoSection /\ Listed' /\ \A i : Tag(i)' = Tag(i)
  BY <1>1 DEF Listed, Tag
<1>3. /\ image.section \in Seq(Nat) /\ 0 \notin DOMAIN image.tags
      /\ \A n \in DOMAIN image.section : image.section[n] \in DOMAIN image.tags /\ Tag(image.section[n]).k = "req"
  BY <1>1, <1>2, Tags
<1> DEFINE sec == image.section
<1>4. sec \in Seq(DOMAIN image.tags) /\ DOMAIN sec = 1 .. Len(sec) /\ Len(sec) \in Nat
  <2>1. sec \in Seq(Nat) /\ \A n \in DOMAIN sec : sec[n] \in DOMAIN image.tags
    BY <1>3
  <2> HIDE DEF sec
  <2> QED
    BY <2>1
<1> DEFINE Hit(i, n) == sec[n] = i /\ \A m \in 1 .. n - 1 : Tag(sec[m]).id # Tag(i).id
<1>5. ASSUME NEW id, GetIn(sec, image, id) # 0
      PROVE  LET i == GetIn(sec, image, id)
             IN  i \in DOMAIN image.tags /\ Tag(i).k = "req" /\ Tag(i).id = id /\ \E n \in DOMAIN sec : Hit(i, n)
  <2>1. PICK n \in DOMAIN sec : IsFirst(sec, image, id, n)
    BY <1>4, <1>5, FirstHit
  <2> QED
    BY <1>3, <2>1 DEF Tag, IsFirst
<1>6. ASSUME NEW i \in DOMAIN image.tags, NEW n \in DOMAIN sec, Hit(i, n) PROVE GetIn(sec, image, Tag(i).id) = i
  <2>1. Has(sec, image, Tag(i).id)
    BY <1>6 DEF Tag, Has
  <2>2. PICK m \in DOMAIN sec : IsFirst(sec, image, Tag(i).id, m)
    BY <1>4, <2>1, FirstHit
  <2>3. ~(m < n) /\ ~(n < m)
    BY <1>4, <1>6, <2>2 DEF Tag, IsFirst
  <2>4. m = n
    BY <1>4, <2>3
  <2> QED
    BY <1>6, <2>2, <2>4 DEF IsFirst
<1>7. \A id : get_request(id)' = GetIn(sec, image, id)
  BY <1>1, GetRequestNext
<1>8. ASSUME NEW i PROVE Asked(i)' <=> Tag(i).k = "req" /\ \E n \in DOMAIN sec : Hit(i, n)
  BY <1>1, <1>2 DEF Asked
<1>9. ASSUME NEW id \in Features, get_request(id)' # 0
      PROVE  get_request(id)' \in DOMAIN image'.tags /\ Asked(get_request(id))' /\ Tag(get_request(id))'.id = id
  <2>1. PICK i : i = get_request(id)'
    OBVIOUS
  <2>2. i \in DOMAIN image.tags /\ Tag(i).k = "req" /\ Tag(i).id = id /\ \E n \in DOMAIN sec : Hit(i, n)
    BY <1>5, <1>7, <1>9, <2>1
  <2>3. Asked(i)' /\ Tag(i)'.id = id
    BY <1>2, <1>8, <2>2
  <2> QED
    BY <1>1, <2>1, <2>2, <2>3 DEF Asked, Tag
<1>10. ASSUME NEW i \in DOMAIN image.tags, Asked(i)' PROVE get_request(Tag(i).id)' = i
  <2>1. PICK n \in DOMAIN sec : Hit(i, n)
    BY <1>8, <1>10
  <2>2. Tag(i)'.id = Tag(i).id
    BY <1>2
  <2>3. \A id : get_request(id)' = GetIn(sec, image, id)
    BY <1>7
  <2>4. get_request(Tag(i).id)' = GetIn(requests', image', Tag(i)'.id)
    BY DEF get_request, GetIn, Hits, Tag
  <2> QED
    BY <1>1, <1>6, <2>1, <2>2, <2>4
<1>11. Found'
  BY <1>1, <1>9, <1>10 DEF Found
<1> QED
  BY <1>1, <1>4, <1>11, FoundStep DEF RequestSection

LEMMA BaseRevisionStep == ASSUME LimInv, BaseRevision PROVE LimInv'
BY RevisionStartStep, RevisionTagStep, RevisionPassStep, RevisionEndStep DEF BaseRevision

LEMMA LoadRequestsStep == ASSUME LimInv, LoadRequests PROVE LimInv'
BY RequestSectionStep, RequestStartStep, RequestTagStep, RequestPassStep, RequestEndStep DEF LoadRequests

-----------------------------------------------------------------------------
(* The paging mode.                                                         *)

LEMMA SupportedStep == ASSUME LimInv, SupportedModes PROVE LimInv'
<1> DEFINE low == Needed(mach, baserev)
<1> DEFINE lo == IF mach.usermin > low THEN mach.usermin ELSE low
<1> DEFINE hi == IF mach.usermax < mach.cpumax THEN mach.usermax ELSE mach.cpumax
<1>0. step = "supported" /\ mach.uefi # TRUE
  BY DEF SupportedModes, LimInv, NotUefi
<1>1. step = "supported" /\ UNCHANGED <<image, mach, tagno, baserev, revtags, requests, mode, offset, open, services, answers>>
  BY <1>0 DEF SupportedModes, AfterRaw
<1>2. \/ step' = "panic" /\ UNCHANGED limits
      \/ /\ step' = "paging" /\ limits' = <<lo, hi>>
         /\ ~(low = 2) /\ ~(mach.usermax < mach.usermin)
         /\ ~(mach.usermax < mach.cpumax /\ mach.usermax < low)
         /\ ~(mach.usermin > low /\ mach.usermin > hi)
  BY DEF SupportedModes, Panic, Go
<1>3. low \in {0, 1, 2} /\ (low = 1 => mach.cpumax = 1)
  BY DEF Needed
<1>4. LimTypes /\ mach.cpumax \in {0, 1} /\ mach.usermin \in {0, 1} /\ mach.usermax \in {0, 1}
  BY Tags DEF LimInv
<1> HIDE DEF low
<1>5. CASE step' = "panic" /\ UNCHANGED limits
  BY <1>1, <1>5, PanicStep
<1>6. CASE /\ step' = "paging" /\ limits' = <<lo, hi>>
           /\ ~(low = 2) /\ ~(mach.usermax < mach.usermin)
           /\ ~(mach.usermax < mach.cpumax /\ mach.usermax < low)
           /\ ~(mach.usermin > low /\ mach.usermin > hi)
  <2>1. lo \in Nat /\ hi \in Nat /\ lo <= hi /\ hi <= mach.cpumax /\ hi <= mach.usermax /\ mach.usermin <= lo /\ low <= lo
    BY <1>3, <1>4, <1>6
  <2>8. Needed(mach', baserev') <= lo
    BY <1>1, <2>1 DEF low
  <2> HIDE DEF lo, hi
  <2>2. limits' \in Nat \X Nat /\ limits'[1] = lo /\ limits'[2] = hi
    BY <1>6, <2>1
  <2>3. ModesFit'
    BY <1>1, <2>1, <2>2, <2>8 DEF ModesFit
  <2>4. step \in Steps /\ step' \in Steps /\ Rank(step) = 3 /\ Rank(step') = 4
    BY <1>1, <1>6, Ranks DEF Steps, Features
  <2>5. RevisionTold /\ Found
    BY <1>1, <2>4, Ranks DEF LimInv, Past
  <2>6. RevisionTold' /\ Found'
    BY <1>1, <2>5, Frozen
  <2>7. Searching'
    BY <1>6 DEF Searching
  <2> QED
    BY <1>0, <1>1, <1>4, <2>2, <2>3, <2>4, <2>6, <2>7, SearchStep DEF LimTypes
<1> QED
  BY <1>2, <1>5, <1>6

LEMMA AgreedMode ==
  ASSUME NEW q \in PagingArg, NEW lo \in Nat, NEW hi \in Nat, lo <= hi, Agreed(q, lo, hi)[3] # -1
  PROVE  LET m == Agreed(q, lo, hi)[3]
         IN  /\ m \in Nat /\ m <= hi /\ Most(q) \in Nat /\ m <= Most(q)
             /\ q.rev >= 1 => m >= q.min
             /\ m < lo => m = Most(q)
<1> DEFINE kmin == IF q.rev >= 1 THEN q.min ELSE 0
<1> DEFINE kmax == Most(q)
<1> DEFINE low == IF lo > kmax THEN kmax ELSE lo
<1> DEFINE high == IF hi < low THEN low ELSE hi
<1> DEFINE up == IF q.mode > high THEN high ELSE q.mode
<1> DEFINE mid == IF up < low THEN low ELSE up
<1> DEFINE cut == IF mid > kmax THEN kmax ELSE mid
<1> DEFINE m == IF kmax < kmin \/ (cut < kmin /\ kmin > high) THEN -1 ELSE IF cut < kmin THEN kmin ELSE cut
<1>1. Agreed(q, lo, hi)[3] = m
  BY DEF Agreed
<1>2. q.rev \in Nat /\ q.mode \in Nat /\ q.min \in Nat /\ q.max \in Nat
  BY DEF PagingArg
<1>3. kmin \in Nat /\ kmax \in Nat /\ (q.rev >= 1 => kmin = q.min)
  BY <1>2 DEF Most
<1> HIDE DEF kmin, kmax
<1>4. low \in Nat /\ high = hi /\ low <= hi /\ low <= kmax /\ (low = lo \/ low = kmax)
  BY <1>3
<1> HIDE DEF low, high
<1>5. cut \in Nat /\ cut <= hi /\ cut <= kmax /\ cut >= low
  BY <1>2, <1>3, <1>4
<1> HIDE DEF cut
<1>6. m # -1 => m \in Nat /\ m <= hi /\ m >= kmin /\ m <= kmax /\ m >= low
  BY <1>3, <1>4, <1>5
<1>7. m # -1
  BY <1>1
<1> HIDE DEF m
<1>8. m < lo => m = kmax
  BY <1>3, <1>4, <1>6, <1>7
<1> QED
  BY <1>1, <1>3, <1>6, <1>7, <1>8 DEF kmax

\* The answer of a step: the request of its name gets one when it is there,
\* the loader has what it asks for and it is not ignored.
LEMMA AnswerNext ==
  ASSUME LimInv, step \in Steps, step' \in Steps, Rank(step') = Rank(step) + 1, Rank(step) > 2,
         UNCHANGED <<image, mach, baserev, revtags, requests>>, NEW v, v # NotAnswered,
         IF step \in Features /\ get_request(step) # 0 /\ Available(step) /\ ~Ignored(get_request(step))
         THEN answers' = [answers EXCEPT ![get_request(step)] = v] ELSE answers' = answers
  PROVE  Answered'
<1>1. LimTypes /\ Found /\ Answered /\ Rank(step) \in Int
  <2>1. step # "panic" /\ Past("requests")
    BY Ranks DEF Past, Steps, Features
  <2> QED
    BY <2>1, RankRange DEF LimInv
<1>2. \A id \in Features : Past(id)' <=> Past(id) \/ id = step
  BY <1>1, FeatureRanks DEF Past
<1>3. 0 \notin DOMAIN image.tags /\ answers = [i \in DOMAIN image.tags |-> answers[i]]
  BY <1>1, Tags DEF LimTypes
<1> DEFINE Good(i, id) == get_request(id) = i /\ Available(id) /\ ~Ignored(i)
<1>4. \A i, id : (get_request(id) = i /\ Available(id) /\ ~Ignored(i))' <=> Good(i, id)
  BY Frozen
<1>5. \A i \in DOMAIN image.tags : answers[i] # NotAnswered <=> \E id \in Features : Past(id) /\ Good(i, id)
  BY <1>1 DEF Answered
<1>6. \A i \in DOMAIN image.tags : answers'[i] # NotAnswered <=> answers[i] # NotAnswered \/ (step \in Features /\ Good(i, step))
  <2> DEFINE r == get_request(step)
  <2>1. CASE step \in Features /\ r # 0 /\ Available(step) /\ ~Ignored(r)
    <3>1. answers' = [answers EXCEPT ![r] = v] /\ r \in DOMAIN image.tags
      BY <1>1, <2>1 DEF Found
    <3>2. \A i \in DOMAIN image.tags : answers'[i] = IF i = r THEN v ELSE answers[i]
      BY <1>3, <3>1
    <3> QED
      BY <2>1, <3>2
  <2>2. CASE ~(step \in Features /\ r # 0 /\ Available(step) /\ ~Ignored(r))
    BY <1>3, <2>2
  <2> QED
    BY <2>1, <2>2
<1>7. Answered' <=> \A i \in DOMAIN image.tags : (answers'[i] # NotAnswered <=> \E id \in Features : Past(id)' /\ Good(i, id))
  BY <1>4 DEF Answered
<1> HIDE DEF Good
<1> QED
  BY <1>2, <1>5, <1>6, <1>7

Answers(v) ==
  IF step \in Features /\ get_request(step) # 0 /\ Available(step) /\ ~Ignored(get_request(step))
  THEN answers' = [answers EXCEPT ![get_request(step)] = v] ELSE answers' = answers

\* A step to the next one, from the paging mode on.
LEMMA StepOn ==
  ASSUME LimInv, step \in Steps, step' \in Steps, Rank(step') = Rank(step) + 1, Rank(step) >= 4,
         UNCHANGED <<image, mach, tagno, baserev, revtags, requests, limits>>,
         mode' \in Nat, ModeAgreed', offset' = "set",
         NEW v, v # NotAnswered, v.k = "hhdm" => v.v = "set", Answers(v),
         Rank(step) = 18 => \A n \in DOMAIN Wanted : Wanted[n].required => Wanted[n].name \in mach.files,
         Rank(step) = 26 \/ open' = open, Rank(step) = 22 \/ services' = services
  PROVE  LimInv'
<1>1. LimTypes /\ step # "panic" /\ step' # "panic" /\ Rank(step) \in Int
  BY RankRange DEF LimInv, Steps, Features
<1>2. Answered'
  BY <1>1, AnswerNext DEF Answers
<1>3. LimTypes' /\ DOMAIN answers' = DOMAIN answers
  BY <1>1 DEF LimTypes, Answers
<1>4. Searching'
  <2>1. step' \notin {"open", "revision", "requests"}
    BY <1>1, Ranks
  <2> QED
    BY <2>1 DEF Searching
<1>5. RevisionTold /\ Found /\ ModesFit
  BY <1>1, Ranks DEF LimInv, Past
<1>6. RevisionTold' /\ Found' /\ ModesFit'
  BY <1>5, Frozen DEF ModesFit
<1>7. Past("modules")' => \A n \in DOMAIN Wanted' : Wanted'[n].required => Wanted'[n].name \in mach'.files
  <2>1. Past("modules")' => Past("modules") \/ Rank(step) = 18
    BY <1>1, Ranks DEF Past
  <2>2. Past("modules") => \A n \in DOMAIN Wanted : Wanted[n].required => Wanted[n].name \in mach.files
    BY <1>1 DEF LimInv
  <2>3. Wanted' = Wanted
    BY Frozen
  <2> QED
    BY <2>1, <2>2, <2>3
<1>8. ~Past("memmap")' => open' = TRUE
  <2>1. ~Past("memmap")' => ~Past("memmap") /\ Rank(step) # 26
    BY <1>1, Ranks DEF Past
  <2> QED
    BY <1>1, <2>1 DEF LimInv
<1>9. ~Past("exit")' => services' = TRUE
  <2>1. ~Past("exit")' => ~Past("exit") /\ Rank(step) # 22
    BY <1>1, Ranks DEF Past
  <2> QED
    BY <1>1, <2>1 DEF LimInv
<1>10. \A i \in DOMAIN answers' : answers'[i].k = "hhdm" => answers'[i].v = "set"
  <2>1. \A i \in DOMAIN answers : answers[i].k = "hhdm" => answers[i].v = "set"
    BY <1>1 DEF LimInv
  <2>2. \A i \in DOMAIN answers' : answers'[i] = v \/ answers'[i] = answers[i]
    BY <1>3 DEF Answers
  <2> QED
    BY <1>3, <2>1, <2>2
<1>11. NotUefi'
  <2>1. step # "open"
    BY <1>1, Ranks
  <2> QED
    BY <1>1, <2>1 DEF LimInv, NotUefi
<1> QED
  BY <1>1, <1>2, <1>3, <1>4, <1>6, <1>7, <1>8, <1>9, <1>10, <1>11 DEF LimInv

\* What a mode has to be for request i.
Suits(m, i) ==
  /\ m <= mach.cpumax /\ m <= mach.usermax
  /\ i # 0 /\ ~Ignored(i) =>
       /\ m <= Most(Tag(i).arg) /\ (Tag(i).arg.rev >= 1 => m >= Tag(i).arg.min)
       /\ m < mach.usermin => Most(Tag(i).arg) < mach.usermin
       /\ m < Needed(mach, baserev) => Most(Tag(i).arg) < Needed(mach, baserev)

LEMMA ModeNext ==
  ASSUME UNCHANGED <<image, mach, baserev, revtags, requests>>, Suits(mode', get_request("paging"))
  PROVE  ModeAgreed'
<1> DEFINE g == get_request("paging")
<1>1. ModeAgreed' <=>
        /\ mode' <= mach'.cpumax /\ mode' <= mach'.usermax
        /\ g' # 0 /\ ~(image'.tags[g'].id = "paging" /\ image'.tags[g'].arg = [rev |-> 0, mode |-> 0, min |-> 0, max |-> 0]) =>
             /\ mode' <= Most(image'.tags[g'].arg) /\ (image'.tags[g'].arg.rev >= 1 => mode' >= image'.tags[g'].arg.min)
             /\ mode' < mach'.usermin => Most(image'.tags[g'].arg) < mach'.usermin
             /\ mode' < Needed(mach', baserev') => Most(image'.tags[g'].arg) < Needed(mach', baserev')
  BY DEF ModeAgreed, Ignored, Tag
<1>2. g' = g
  BY Frozen
<1> HIDE DEF g
<1>3. Suits(mode', g)
  BY DEF g
<1> QED
  BY <1>1, <1>2, <1>3 DEF Suits, Ignored, Tag

LEMMA PagingStep == ASSUME LimInv, PagingMode PROVE LimInv'
<1> DEFINE i == get_request("paging")
<1> DEFINE q == Tag(i).arg
<1> DEFINE m == Agreed(q, limits[1], limits[2])[3]
<1>1. step = "paging" /\ UNCHANGED <<image, mach, tagno, baserev, revtags, requests, limits, open, services>>
  BY DEF PagingMode
<1>2. LimTypes /\ Found /\ ModesFit /\ step \in Steps /\ Rank(step) = 4 /\ step \in Features
  BY <1>1, Ranks DEF LimInv, Past, Steps, Features
<1>3. i # 0 => q \in PagingArg /\ Tag(i).id = "paging"
  BY <1>1, <1>2, Tags DEF Found, Asked
<1>4. i # 0 => (Ignored(i) <=> q.rev = 0 /\ q.mode = 0 /\ q.min = 0 /\ q.max = 0)
  BY <1>3 DEF Ignored, PagingArg
<1>5. Available("paging")
  BY DEF Available
<1>6. /\ limits[1] \in Nat /\ limits[2] \in Nat /\ limits[1] <= limits[2] /\ limits[2] <= mach.cpumax /\ limits[2] <= mach.usermax
      /\ mach.cpumax \in {0, 1} /\ mach.usermax \in {0, 1}
  BY <1>2, Tags DEF LimTypes, ModesFit
<1>10. mach.usermin \in Nat /\ mach.usermin <= limits[1] /\ Needed(mach, baserev) \in Nat /\ Needed(mach, baserev) <= limits[1]
  <2>1. mach.usermin \in {0, 1}
    BY <1>2, Tags
  <2>2. Needed(mach, baserev) \in {0, 1, 2}
    BY DEF Needed
  <2> QED
    BY <1>2, <2>1, <2>2 DEF ModesFit
<1>7. CASE i = 0 \/ (q.rev = 0 /\ q.mode = 0 /\ q.min = 0 /\ q.max = 0)
  <2>1. mode' = 0 /\ offset' = "set" /\ step' = "file" /\ answers' = answers
    BY <1>7 DEF PagingMode, Go
  <2>2. ModeAgreed'
    <3>1. Suits(mode', i)
      BY <1>3, <1>4, <1>6, <1>7, <2>1 DEF Suits
    <3> QED
      BY <1>1, <3>1, ModeNext
  <2>3. step' \in Steps /\ Rank(step') = 5
    BY <2>1, Ranks DEF Steps
  <2>4. Answers(Yes)
    BY <1>1, <1>4, <1>7, <2>1 DEF Answers
  <2>5. Yes # NotAnswered /\ Yes.k # "hhdm"
    BY DEF Yes, NotAnswered
  <2> QED
    BY <1>1, <1>2, <2>1, <2>2, <2>3, <2>4, <2>5, StepOn
<1>8. CASE i # 0 /\ ~(q.rev = 0 /\ q.mode = 0 /\ q.min = 0 /\ q.max = 0) /\ m = -1
  <2>1. step' = "panic" /\ UNCHANGED <<mode, offset, answers>>
    BY <1>8 DEF PagingMode, Panic
  <2> QED
    BY <1>1, <2>1, PanicStep
<1>9. CASE i # 0 /\ ~(q.rev = 0 /\ q.mode = 0 /\ q.min = 0 /\ q.max = 0) /\ m # -1
  <2> DEFINE v == [k |-> "mode", v |-> m]
  <2>1. mode' = m /\ offset' = "set" /\ step' = "file" /\ answers' = [answers EXCEPT ![i] = v]
    BY <1>9 DEF PagingMode, Go, Answer
  <2>2. ModeAgreed'
    <3>1. /\ m \in Nat /\ m <= limits[2] /\ Most(q) \in Nat /\ m <= Most(q)
          /\ q.rev >= 1 => m >= q.min
          /\ m < limits[1] => m = Most(q)
      BY <1>3, <1>6, <1>9, AgreedMode
    <3> HIDE DEF m
    <3>2. m <= mach.cpumax /\ m <= mach.usermax
      BY <1>6, <3>1
    <3>4. \A need \in Nat : need <= limits[1] /\ m < need => Most(q) < need
      BY <1>6, <3>1
    <3>3. Suits(mode', i)
      BY <1>10, <2>1, <3>1, <3>2, <3>4 DEF Suits
    <3> QED
      BY <1>1, <3>3, ModeNext
  <2>3. step' \in Steps /\ Rank(step') = 5
    BY <2>1, Ranks DEF Steps
  <2>4. Answers(v)
    BY <1>1, <1>2, <1>4, <1>5, <1>9, <2>1 DEF Answers
  <2>5. v # NotAnswered /\ v.k # "hhdm"
    BY DEF NotAnswered
  <2>6. mode' \in Nat
    BY <1>3, <1>6, <1>9, <2>1, AgreedMode
  <2> HIDE DEF v
  <2> QED
    BY <1>1, <1>2, <2>1, <2>2, <2>3, <2>4, <2>5, <2>6, StepOn
<1> QED
  BY <1>7, <1>8, <1>9

-----------------------------------------------------------------------------
(* The features.                                                            *)

LEMMA LaterStep ==
  ASSUME LimInv, step \in Steps, step' \in Steps, Rank(step') = Rank(step) + 1, Rank(step) > 4, Rest, UNCHANGED offset,
         NEW v, v # NotAnswered, v.k = "hhdm" => v.v = "set", Answers(v),
         Rank(step) = 18 => \A n \in DOMAIN Wanted : Wanted[n].required => Wanted[n].name \in mach.files,
         Rank(step) = 26 \/ open' = open, Rank(step) = 22 \/ services' = services
  PROVE  LimInv'
<1>1. UNCHANGED <<image, mach, tagno, baserev, revtags, requests, limits, mode>> /\ Rank(step) \in Int
  BY RankRange DEF Rest
<1>2. ModeAgreed /\ offset = "set" /\ mode \in Nat
  <2>1. step # "panic" /\ Past("paging")
    BY Ranks DEF Past, Steps, Features
  <2> QED
    BY <2>1 DEF LimInv, LimTypes
<1>3. ModeAgreed'
  BY <1>1, <1>2, ModeNext DEF ModeAgreed, Suits
<1> QED
  BY <1>1, <1>2, <1>3, StepOn

\* What is there as long as a step needs it.
LEMMA StillOpen ==
  ASSUME LimInv, step \in Steps, Rank(step) <= 26
  PROVE  open = TRUE /\ (Rank(step) <= 22 => services = TRUE)
<1>1. step # "panic" /\ Rank(step) \in Int
  BY RankRange DEF Steps, Features
<1>2. ~Past("memmap") /\ (Rank(step) <= 22 => ~Past("exit"))
  BY <1>1, Ranks DEF Past
<1> QED
  BY <1>1, <1>2 DEF LimInv

LEMMA MayUse ==
  ASSUME LimInv, step \in Steps, Rank(step) <= 26, NEW what, "services" \in what => Rank(step) <= 22
  PROVE  Uses(what)
<1>1. open = TRUE /\ (Rank(step) <= 22 => services = TRUE)
  BY StillOpen
<1>2. "services" \in what => services = TRUE
  BY <1>1
<1> QED
  BY <1>1, <1>2 DEF Uses

LEMMA FeatureStep ==
  ASSUME NEW s \in Features, NEW t \in Steps, NEW has, NEW v, NEW what,
         LimInv, Feature(s, s, has, v, what, t), Rank(t) = Rank(s) + 1, Rank(s) \in 6 .. 25, Rank(s) # 18,
         has <=> Available(s), "services" \in what => Rank(s) <= 22,
         v # NotAnswered, v.k = "hhdm" => v.v = "set"
  PROVE  LimInv'
<1>1. step = s /\ step \in Steps /\ Rest /\ UNCHANGED <<offset, open, services>>
  BY DEF Feature, Steps
<1>2. ~Ignored(get_request(s)) \/ get_request(s) = 0
  <2>1. Found /\ s # "paging"
    BY <1>1, Ranks DEF LimInv, Past, Features
  <2> QED
    BY <2>1 DEF Found, Ignored
<1>3. Uses(what)
  <2>1. Rank(step) <= 26 /\ Rank(step) = Rank(s)
    BY <1>1
  <2>2. "services" \in what => Rank(step) <= 22
    BY <1>1
  <2> QED
    BY <1>1, <2>1, <2>2, MayUse
<1>4. step' = t /\ Answers(v)
  BY <1>1, <1>2, <1>3 DEF Feature, Answers, Answer, Go
<1> QED
  BY <1>1, <1>4, LaterStep

\* The value that stands for an answer without content.
LEMMA Values ==
  /\ Yes # NotAnswered /\ Yes.k # "hhdm"
  /\ \A b : At(b) # NotAnswered /\ At(b).k # "hhdm"
BY DEF Yes, At, NotAnswered

LEMMA ExecutableStep == ASSUME LimInv, Executable PROVE LimInv'
<1>1. ASSUME Feature("entry", "entry", TRUE, Yes, {"alloc"}, "info") PROVE LimInv'
  <2>1. "entry" \in Features /\ "info" \in Steps
    BY DEF Features, Steps
  <2>2. Rank("info") = Rank("entry") + 1 /\ Rank("entry") \in 6 .. 25 /\ Rank("entry") # 18
    BY Ranks
  <2>3. (TRUE) <=> Available("entry")
    BY DEF Available
  <2>4. Yes # NotAnswered /\ Yes.k # "hhdm"
    BY Values
  <2>5. "services" \notin {"alloc"}
    OBVIOUS
  <2> QED
    BY <1>1, <2>1, <2>2, <2>3, <2>4, <2>5, FeatureStep
<1>2. ASSUME Feature("info", "info", TRUE, Yes, {"alloc"}, "cmdline") PROVE LimInv'
  <2>1. "info" \in Features /\ "cmdline" \in Steps
    BY DEF Features, Steps
  <2>2. Rank("cmdline") = Rank("info") + 1 /\ Rank("info") \in 6 .. 25 /\ Rank("info") # 18
    BY Ranks
  <2>3. (TRUE) <=> Available("info")
    BY DEF Available
  <2>4. Yes # NotAnswered /\ Yes.k # "hhdm"
    BY Values
  <2>5. "services" \notin {"alloc"}
    OBVIOUS
  <2> QED
    BY <1>2, <2>1, <2>2, <2>3, <2>4, <2>5, FeatureStep
<1>3. ASSUME Feature("cmdline", "cmdline", TRUE, Yes, {"alloc"}, "firmware") PROVE LimInv'
  <2>1. "cmdline" \in Features /\ "firmware" \in Steps
    BY DEF Features, Steps
  <2>2. Rank("firmware") = Rank("cmdline") + 1 /\ Rank("cmdline") \in 6 .. 25 /\ Rank("cmdline") # 18
    BY Ranks
  <2>3. (TRUE) <=> Available("cmdline")
    BY DEF Available
  <2>4. Yes # NotAnswered /\ Yes.k # "hhdm"
    BY Values
  <2>5. "services" \notin {"alloc"}
    OBVIOUS
  <2> QED
    BY <1>3, <2>1, <2>2, <2>3, <2>4, <2>5, FeatureStep
<1>4. ASSUME Feature("firmware", "firmware", TRUE, [k |-> "fw", v |-> mach.uefi], {"alloc"}, "address") PROVE LimInv'
  <2>1. "firmware" \in Features /\ "address" \in Steps
    BY DEF Features, Steps
  <2>2. Rank("address") = Rank("firmware") + 1 /\ Rank("firmware") \in 6 .. 25 /\ Rank("firmware") # 18
    BY Ranks
  <2>3. (TRUE) <=> Available("firmware")
    BY DEF Available
  <2>4. [k |-> "fw", v |-> mach.uefi] # NotAnswered /\ [k |-> "fw", v |-> mach.uefi].k # "hhdm"
    BY DEF NotAnswered
  <2>5. "services" \notin {"alloc"}
    OBVIOUS
  <2> QED
    BY <1>4, <2>1, <2>2, <2>3, <2>4, <2>5, FeatureStep
<1>5. ASSUME Feature("address", "address", TRUE, Yes, {"alloc"}, "hhdm") PROVE LimInv'
  <2>1. "address" \in Features /\ "hhdm" \in Steps
    BY DEF Features, Steps
  <2>2. Rank("hhdm") = Rank("address") + 1 /\ Rank("address") \in 6 .. 25 /\ Rank("address") # 18
    BY Ranks
  <2>3. (TRUE) <=> Available("address")
    BY DEF Available
  <2>4. Yes # NotAnswered /\ Yes.k # "hhdm"
    BY Values
  <2>5. "services" \notin {"alloc"}
    OBVIOUS
  <2> QED
    BY <1>5, <2>1, <2>2, <2>3, <2>4, <2>5, FeatureStep
<1>6. ASSUME Feature("hhdm", "hhdm", TRUE, [k |-> "hhdm", v |-> offset], {"alloc"}, "rsdp") PROVE LimInv'
  <2>1. "hhdm" \in Features /\ "rsdp" \in Steps
    BY DEF Features, Steps
  <2>2. Rank("rsdp") = Rank("hhdm") + 1 /\ Rank("hhdm") \in 6 .. 25 /\ Rank("hhdm") # 18
    BY Ranks
  <2>3. (TRUE) <=> Available("hhdm")
    BY DEF Available
  <2>4. [k |-> "hhdm", v |-> offset] # NotAnswered /\ offset = "set"
    <3>1. step = "hhdm"
      BY <1>6 DEF Feature
    <3> QED
      BY <3>1, Ranks DEF LimInv, Past, NotAnswered
  <2>5. "services" \notin {"alloc"}
    OBVIOUS
  <2> QED
    BY <1>6, <2>1, <2>2, <2>3, <2>4, <2>5, FeatureStep
<1> QED
  BY <1>1, <1>2, <1>3, <1>4, <1>5, <1>6 DEF Executable

LEMMA TablesStep == ASSUME LimInv, Tables PROVE LimInv'
<1>1. ASSUME Feature("rsdp", "rsdp", mach.rsdp, At(baserev <= 2 \/ baserev >= 4), {"alloc"}, "smbios") PROVE LimInv'
  <2>1. "rsdp" \in Features /\ "smbios" \in Steps
    BY DEF Features, Steps
  <2>2. Rank("smbios") = Rank("rsdp") + 1 /\ Rank("rsdp") \in 6 .. 25 /\ Rank("rsdp") # 18
    BY Ranks
  <2>3. (mach.rsdp) <=> Available("rsdp")
    BY DEF Available
  <2>4. At(baserev <= 2 \/ baserev >= 4) # NotAnswered /\ At(baserev <= 2 \/ baserev >= 4).k # "hhdm"
    BY Values
  <2>5. "services" \notin {"alloc"}
    OBVIOUS
  <2> QED
    BY <1>1, <2>1, <2>2, <2>3, <2>4, <2>5, FeatureStep
<1>2. ASSUME Feature("smbios", "smbios", mach.smbios, At(baserev <= 2), {"alloc"}, "efi_st") PROVE LimInv'
  <2>1. "smbios" \in Features /\ "efi_st" \in Steps
    BY DEF Features, Steps
  <2>2. Rank("efi_st") = Rank("smbios") + 1 /\ Rank("smbios") \in 6 .. 25 /\ Rank("smbios") # 18
    BY Ranks
  <2>3. (mach.smbios) <=> Available("smbios")
    BY DEF Available
  <2>4. At(baserev <= 2) # NotAnswered /\ At(baserev <= 2).k # "hhdm"
    BY Values
  <2>5. "services" \notin {"alloc"}
    OBVIOUS
  <2> QED
    BY <1>2, <2>1, <2>2, <2>3, <2>4, <2>5, FeatureStep
<1>3. ASSUME Feature("efi_st", "efi_st", mach.uefi, At(baserev <= 2), {"alloc"}, "dtb") PROVE LimInv'
  <2>1. "efi_st" \in Features /\ "dtb" \in Steps
    BY DEF Features, Steps
  <2>2. Rank("dtb") = Rank("efi_st") + 1 /\ Rank("efi_st") \in 6 .. 25 /\ Rank("efi_st") # 18
    BY Ranks
  <2>3. (mach.uefi) <=> Available("efi_st")
    BY DEF Available
  <2>4. At(baserev <= 2) # NotAnswered /\ At(baserev <= 2).k # "hhdm"
    BY Values
  <2>5. "services" \notin {"alloc"}
    OBVIOUS
  <2> QED
    BY <1>3, <2>1, <2>2, <2>3, <2>4, <2>5, FeatureStep
<1>4. ASSUME Feature("dtb", "dtb", mach.dtb, Yes, {"alloc"}, "stack") PROVE LimInv'
  <2>1. "dtb" \in Features /\ "stack" \in Steps
    BY DEF Features, Steps
  <2>2. Rank("stack") = Rank("dtb") + 1 /\ Rank("dtb") \in 6 .. 25 /\ Rank("dtb") # 18
    BY Ranks
  <2>3. (mach.dtb) <=> Available("dtb")
    BY DEF Available
  <2>4. Yes # NotAnswered /\ Yes.k # "hhdm"
    BY Values
  <2>5. "services" \notin {"alloc"}
    OBVIOUS
  <2> QED
    BY <1>4, <2>1, <2>2, <2>3, <2>4, <2>5, FeatureStep
<1> QED
  BY <1>1, <1>2, <1>3, <1>4 DEF Tables

LEMMA StackStep == ASSUME LimInv, Stack PROVE LimInv'
<1>1. ASSUME Feature("stack", "stack", TRUE, Yes, {"alloc"}, "exec_file") PROVE LimInv'
  <2>1. "stack" \in Features /\ "exec_file" \in Steps
    BY DEF Features, Steps
  <2>2. Rank("exec_file") = Rank("stack") + 1 /\ Rank("stack") \in 6 .. 25 /\ Rank("stack") # 18
    BY Ranks
  <2>3. (TRUE) <=> Available("stack")
    BY DEF Available
  <2>4. Yes # NotAnswered /\ Yes.k # "hhdm"
    BY Values
  <2>5. "services" \notin {"alloc"}
    OBVIOUS
  <2> QED
    BY <1>1, <2>1, <2>2, <2>3, <2>4, <2>5, FeatureStep
<1>2. ASSUME Feature("exec_file", "exec_file", TRUE, Yes, {"alloc"}, "modules") PROVE LimInv'
  <2>1. "exec_file" \in Features /\ "modules" \in Steps
    BY DEF Features, Steps
  <2>2. Rank("modules") = Rank("exec_file") + 1 /\ Rank("exec_file") \in 6 .. 25 /\ Rank("exec_file") # 18
    BY Ranks
  <2>3. (TRUE) <=> Available("exec_file")
    BY DEF Available
  <2>4. Yes # NotAnswered /\ Yes.k # "hhdm"
    BY Values
  <2>5. "services" \notin {"alloc"}
    OBVIOUS
  <2> QED
    BY <1>2, <2>1, <2>2, <2>3, <2>4, <2>5, FeatureStep
<1> QED
  BY <1>1, <1>2 DEF Stack

LEMMA FramebufferStep == ASSUME LimInv, Framebuffer PROVE LimInv'
<1>1. ASSUME Feature("fb", "fb", mach.fbs > 0, [k |-> "fbs", v |-> mach.fbs], {"alloc", "services"}, "date") PROVE LimInv'
  <2>1. "fb" \in Features /\ "date" \in Steps
    BY DEF Features, Steps
  <2>2. Rank("date") = Rank("fb") + 1 /\ Rank("fb") \in 6 .. 25 /\ Rank("fb") # 18
    BY Ranks
  <2> DEFINE has == mach.fbs > 0
  <2>3. has <=> Available("fb")
    BY DEF Available
  <2>6. Feature("fb", "fb", has, [k |-> "fbs", v |-> mach.fbs], {"alloc", "services"}, "date")
    BY <1>1
  <2> HIDE DEF has
  <2>4. [k |-> "fbs", v |-> mach.fbs] # NotAnswered /\ [k |-> "fbs", v |-> mach.fbs].k # "hhdm"
    BY DEF NotAnswered
  <2>5. Rank("fb") <= 22
    BY Ranks
  <2> QED
    BY <2>1, <2>2, <2>3, <2>4, <2>5, <2>6, FeatureStep
<1> QED
  BY <1>1 DEF Framebuffer

LEMMA WrapUpStep == ASSUME LimInv, WrapUp PROVE LimInv'
<1>1. ASSUME Feature("date", "date", TRUE, Yes, {"alloc", "services"}, "perf") PROVE LimInv'
  <2>1. "date" \in Features /\ "perf" \in Steps
    BY DEF Features, Steps
  <2>2. Rank("perf") = Rank("date") + 1 /\ Rank("date") \in 6 .. 25 /\ Rank("date") # 18
    BY Ranks
  <2>3. (TRUE) <=> Available("date")
    BY DEF Available
  <2>4. Yes # NotAnswered /\ Yes.k # "hhdm"
    BY Values
  <2>5. Rank("date") <= 22
    BY Ranks
  <2> QED
    BY <1>1, <2>1, <2>2, <2>3, <2>4, <2>5, FeatureStep
<1>2. ASSUME Feature("perf", "perf", mach.clock, Yes, {"alloc", "services"}, "exit") PROVE LimInv'
  <2>1. "perf" \in Features /\ "exit" \in Steps
    BY DEF Features, Steps
  <2>2. Rank("exit") = Rank("perf") + 1 /\ Rank("perf") \in 6 .. 25 /\ Rank("perf") # 18
    BY Ranks
  <2>3. (mach.clock) <=> Available("perf")
    BY DEF Available
  <2>4. Yes # NotAnswered /\ Yes.k # "hhdm"
    BY Values
  <2>5. Rank("perf") <= 22
    BY Ranks
  <2> QED
    BY <1>2, <2>1, <2>2, <2>3, <2>4, <2>5, FeatureStep
<1> QED
  BY <1>1, <1>2 DEF WrapUp

LEMMA EfiMemmapStep == ASSUME LimInv, EfiMemmap PROVE LimInv'
<1>1. ASSUME Feature("efi_mmap", "efi_mmap", mach.uefi, Yes, {"alloc"}, "pagemap") PROVE LimInv'
  <2>1. "efi_mmap" \in Features /\ "pagemap" \in Steps
    BY DEF Features, Steps
  <2>2. Rank("pagemap") = Rank("efi_mmap") + 1 /\ Rank("efi_mmap") \in 6 .. 25 /\ Rank("efi_mmap") # 18
    BY Ranks
  <2>3. (mach.uefi) <=> Available("efi_mmap")
    BY DEF Available
  <2>4. Yes # NotAnswered /\ Yes.k # "hhdm"
    BY Values
  <2>5. "services" \notin {"alloc"}
    OBVIOUS
  <2> QED
    BY <1>1, <2>1, <2>2, <2>3, <2>4, <2>5, FeatureStep
<1> QED
  BY <1>1 DEF EfiMemmap

LEMMA MpStep == ASSUME LimInv, Mp PROVE LimInv'
<1>1. ASSUME Feature("mp", "mp", mach.cpus > 0, [k |-> "cpus", v |-> mach.cpus], {"alloc"}, "memmap") PROVE LimInv'
  <2>1. "mp" \in Features /\ "memmap" \in Steps
    BY DEF Features, Steps
  <2>2. Rank("memmap") = Rank("mp") + 1 /\ Rank("mp") \in 6 .. 25 /\ Rank("mp") # 18
    BY Ranks
  <2> DEFINE has == mach.cpus > 0
  <2>3. has <=> Available("mp")
    BY DEF Available
  <2>6. Feature("mp", "mp", has, [k |-> "cpus", v |-> mach.cpus], {"alloc"}, "memmap")
    BY <1>1
  <2> HIDE DEF has
  <2>4. [k |-> "cpus", v |-> mach.cpus] # NotAnswered /\ [k |-> "cpus", v |-> mach.cpus].k # "hhdm"
    BY DEF NotAnswered
  <2>5. "services" \notin {"alloc"}
    OBVIOUS
  <2> QED
    BY <2>1, <2>2, <2>3, <2>4, <2>5, <2>6, FeatureStep
<1> QED
  BY <1>1 DEF Mp

LEMMA ExecutableFileStep == ASSUME LimInv, ExecutableFile PROVE LimInv'
<1>1. step = "file" /\ step \in Steps /\ step \notin Features /\ Rank(step) = 5
  BY Ranks DEF ExecutableFile, Steps, Features
<1>2. Uses({"alloc", "services"})
  BY <1>1, MayUse
<1>3. step' = "entry" /\ step' \in Steps /\ Rank(step') = 6
  BY <1>2, Ranks DEF ExecutableFile, Go, Steps, Features
<1>4. Answers(Yes)
  BY <1>1 DEF Answers, ExecutableFile
<1> QED
  BY <1>1, <1>3, <1>4, Values, LaterStep DEF ExecutableFile

LEMMA ModulesStep == ASSUME LimInv, Modules PROVE LimInv'
<1> DEFINE there(m) == m.name \in mach.files
<1> DEFINE lost == \E n \in DOMAIN Wanted : Wanted[n].required /\ ~there(Wanted[n])
<1> DEFINE got == SelectSeq(Wanted, there)
<1> DEFINE v == [k |-> "modules", v |-> [n \in DOMAIN got |-> got[n].name]]
<1>1. step = "modules" /\ step \in Steps /\ step \in Features /\ Rank(step) = 18 /\ Rest /\ UNCHANGED <<offset, open, services>>
  BY Ranks DEF Modules, Steps, Features
<1>2. Uses({"alloc", "services"})
  BY <1>1, MayUse
<1>3. v # NotAnswered /\ v.k # "hhdm"
  BY DEF NotAnswered
<1>4. \/ Wanted = <<>> /\ step' = "fb" /\ answers' = answers
      \/ Wanted # <<>> /\ step' = "panic" /\ answers' = answers
      \/ Wanted # <<>> /\ ~lost /\ step' = "fb" /\ answers' = [answers EXCEPT ![get_request("modules")] = v]
  BY <1>2 DEF Modules, Go, Panic, Answer
<1> HIDE DEF v
<1>5. Wanted # <<>> <=> Available("modules")
  BY DEF Available
<1>6. Wanted # <<>> => get_request("modules") # 0
  BY DEF Wanted
<1>7. get_request("modules") # 0 => ~Ignored(get_request("modules"))
  <2>1. Found
    BY <1>1, Ranks DEF LimInv, Past
  <2> QED
    BY <1>1, <2>1 DEF Found, Ignored
<1>8. "fb" \in Steps /\ Rank("fb") = 19
  BY Ranks DEF Steps, Features
<1>9. CASE Wanted = <<>> /\ step' = "fb" /\ answers' = answers
  <2>1. Answers(Yes)
    BY <1>1, <1>5, <1>9 DEF Answers
  <2>2. \A n \in DOMAIN Wanted : Wanted[n].required => Wanted[n].name \in mach.files
    BY <1>9
  <2> QED
    BY <1>1, <1>8, <1>9, <2>1, <2>2, Values, LaterStep
<1>10. CASE Wanted # <<>> /\ step' = "panic" /\ answers' = answers
  BY <1>1, <1>10, PanicStep DEF Rest
<1>11. CASE Wanted # <<>> /\ ~lost /\ step' = "fb" /\ answers' = [answers EXCEPT ![get_request("modules")] = v]
  <2>1. Answers(v)
    BY <1>1, <1>5, <1>6, <1>7, <1>11 DEF Answers
  <2>2. \A n \in DOMAIN Wanted : Wanted[n].required => Wanted[n].name \in mach.files
    BY <1>11
  <2> QED
    BY <1>1, <1>3, <1>8, <1>11, <2>1, <2>2, LaterStep
<1> QED
  BY <1>4, <1>9, <1>10, <1>11

LEMMA ExitStep == ASSUME LimInv, ExitBootServices PROVE LimInv'
<1>1. step = "exit" /\ step \in Steps /\ step \notin Features /\ Rank(step) = 22
  BY Ranks DEF ExitBootServices, Steps, Features
<1>2. step' = "efi_mmap" /\ step' \in Steps /\ Rank(step') = 23
  BY Ranks DEF ExitBootServices, Go, Steps, Features
<1>3. Answers(Yes)
  BY <1>1 DEF Answers, ExitBootServices
<1> QED
  BY <1>1, <1>2, <1>3, Values, LaterStep DEF ExitBootServices

LEMMA PagemapStep == ASSUME LimInv, Pagemap PROVE LimInv'
<1>1. step = "pagemap" /\ step \in Steps /\ step \notin Features /\ Rank(step) = 24
  BY Ranks DEF Pagemap, Steps, Features
<1>2. open = TRUE /\ mach.uefi # TRUE
  <2>0. Rank(step) <= 26
    BY <1>1
  <2>1. open = TRUE
    BY <1>1, <2>0, StillOpen, Zenon
  <2>2. mach.uefi # TRUE
    BY <1>1 DEF LimInv, NotUefi
  <2> QED
    BY <2>1, <2>2
<1>3. step' = "mp" /\ step' \in Steps /\ Rank(step') = 25 /\ open' = open
  <2>1. AfterRaw = open /\ ~RawRefused
    BY <1>2 DEF AfterRaw, RawRefused
  <2>2. step' = "mp" /\ open' = open
    BY <1>2, <2>1 DEF Pagemap, Go
  <2> QED
    BY <2>2, Ranks DEF Steps, Features
<1>4. Answers(Yes)
  BY <1>1 DEF Answers, Pagemap
<1> QED
  BY <1>1, <1>3, <1>4, Values, LaterStep DEF Pagemap

LEMMA MemmapStep == ASSUME LimInv, Memmap PROVE LimInv'
<1>1. step = "memmap" /\ step \in Steps /\ step \in Features /\ Rank(step) = 26 /\ Rest /\ UNCHANGED <<offset, services>>
  BY Ranks DEF Memmap, Steps, Features
<1>2. Uses({"alloc"})
  BY <1>1, MayUse
<1>3. step' = "spinup" /\ step' \in Steps /\ Rank(step') = 27
  BY <1>2, Ranks DEF Memmap, Go, Steps
<1>4. Available("memmap")
  BY DEF Available
<1>5. get_request("memmap") # 0 => ~Ignored(get_request("memmap"))
  <2>1. Found
    BY <1>1, Ranks DEF LimInv, Past
  <2> QED
    BY <1>1, <2>1 DEF Found, Ignored
<1>6. Answers(Yes)
  BY <1>1, <1>2, <1>4, <1>5 DEF Answers, Memmap, Answer
<1> QED
  BY <1>1, <1>3, <1>6, Values, LaterStep

LEMMA SpinupStep == ASSUME LimInv, Spinup PROVE LimInv'
<1>1. step = "spinup" /\ step \in Steps /\ step \notin Features /\ Rank(step) = 27
  BY Ranks DEF Spinup, Steps, Features
<1>2. step' = "kernel" /\ step' \in Steps /\ Rank(step') = 28
  BY Ranks DEF Spinup, Go, Steps
<1>3. Answers(Yes)
  BY <1>1 DEF Answers, Spinup
<1> QED
  BY <1>1, <1>2, <1>3, Values, LaterStep DEF Spinup

-----------------------------------------------------------------------------
(* The theorems.                                                            *)

LEMMA LimStart == LimineInit => LimInv
<1> SUFFICES ASSUME LimineInit PROVE LimInv
  OBVIOUS
<1>1. PICK b \in Boots : image = b.image /\ mach = b.mach
  BY DEF LimineInit, LimineFrom
<1>2. /\ step = "open" /\ tagno = 1 /\ baserev = 0 /\ revtags = <<0, 0>> /\ requests = <<>> /\ limits = <<0, 1>>
      /\ mode = 0 /\ open = TRUE /\ services = TRUE /\ answers = [i \in DOMAIN image.tags |-> NotAnswered]
  BY DEF LimineInit, LimineFrom
<1>3. Len(b.image.tags) \in Nat
  BY LimineInputs
<1>4. LimTypes
  BY <1>1, <1>2, <1>3 DEF LimTypes, Steps
<1>5. step \in Steps /\ Rank(step) = 0 /\ step # "panic"
  BY <1>2, Ranks DEF Steps
<1>6. Answered
  BY <1>2, <1>5, Unanswered
<1>7. Searching
  BY <1>2 DEF Searching
<1>8. \A i \in DOMAIN answers : answers[i].k # "hhdm"
  BY <1>2 DEF NotAnswered
<1>9. ~Past("revision") /\ ~Past("requests") /\ ~Past("supported") /\ ~Past("paging") /\ ~Past("modules")
  BY <1>5, Ranks DEF Past
<1> QED
  BY <1>2, <1>4, <1>6, <1>7, <1>8, <1>9 DEF LimInv, NotUefi

\* Every step of limine_load keeps the invariant.
LEMMA LimNext == LimInv /\ [LimineNext]_limvars => LimInv'
<1> SUFFICES ASSUME LimInv, [LimineNext]_limvars PROVE LimInv'
  OBVIOUS
<1>1. CASE UNCHANGED limvars
  <2>1. UNCHANGED <<image, mach, step, tagno, baserev, revtags, requests, limits, mode, offset, open, services, answers>>
    BY <1>1 DEF limvars
  <2>2. \A id : Past(id)' <=> Past(id)
    BY <2>1 DEF Past
  <2>3. Answered' <=> Answered
    BY <2>1, <2>2, Frozen DEF Answered
  <2>4. LimTypes' /\ (ModesFit' <=> ModesFit) /\ (ModeAgreed' <=> ModeAgreed)
    <3>1. LimTypes' /\ (ModesFit' <=> ModesFit)
      BY <2>1 DEF LimInv, LimTypes, ModesFit
    <3>2. ModeAgreed' <=> ModeAgreed
      BY <2>1 DEF ModeAgreed, Ignored, Tag, get_request
    <3> QED
      BY <3>1, <3>2
  <2>5. (Searching' <=> Searching) /\ (NotUefi' <=> NotUefi)
    BY <2>1, Frozen DEF Searching, NoEnd, Live, Tells, Listed, Tag, NotUefi
  <2> QED
    BY <2>1, <2>2, <2>3, <2>4, <2>5, Frozen DEF LimInv
<1>2. CASE LimineNext
  BY <1>2, LoadStep, BaseRevisionStep, LoadRequestsStep, SupportedStep, PagingStep, ExecutableFileStep, ExecutableStep, TablesStep,
     StackStep, ModulesStep, FramebufferStep, WrapUpStep, ExitStep, EfiMemmapStep, PagemapStep, MpStep, MemmapStep, SpinupStep
     DEF LimineNext
<1> QED
  BY <1>1, <1>2

\* limine_load of protos/limine.c keeps its invariant: the loops have found
\* the revision and the requests that count so far, a mode is agreed within
\* what all sides can do, and the answers so far are those of the features so
\* far, while allocator and firmware are there as long as they are used.
THEOREM LimineInvariant == LimineSpec => []LimInv
<1> QED
  BY LimStart, LimNext, PTL DEF LimineSpec

LEMMA LimSafe == LimInv => RequestsAnswered
<1> SUFFICES ASSUME LimInv PROVE RequestsAnswered
  OBVIOUS
<1>1. step # "misuse"
  BY DEF LimInv, LimTypes, Steps, Features
<1>2. ASSUME step = "kernel"
      PROVE  /\ \A i \in DOMAIN image.tags :
                  (answers[i] # NotAnswered) <=> Asked(i) /\ Tag(i).id \in Features /\ Available(Tag(i).id) /\ ~Ignored(i)
             /\ \A n \in DOMAIN Wanted : Wanted[n].required => Wanted[n].name \in mach.files
             /\ RevisionTold /\ ModeAgreed
             /\ \A i \in DOMAIN answers : answers[i].k = "hhdm" => answers[i].v = "set"
  <2>1. Rank(step) = 28
    BY <1>2, Ranks
  <2>2. \A id \in Features : Past(id)
    BY <2>1, FeatureRanks DEF Past
  <2>3. Past("revision") /\ Past("requests") /\ Past("paging") /\ Past("modules")
    BY <2>1, Ranks DEF Past
  <2>4. Found /\ Answered /\ RevisionTold /\ ModeAgreed /\ LimTypes
    BY <1>2, <2>3 DEF LimInv
  <2>5. 0 \notin DOMAIN image.tags
    BY <2>4, Tags
  <2>6. ASSUME NEW i \in DOMAIN image.tags
        PROVE  (answers[i] # NotAnswered) <=> Asked(i) /\ Tag(i).id \in Features /\ Available(Tag(i).id) /\ ~Ignored(i)
    <3>1. (answers[i] # NotAnswered) <=> \E id \in Features : get_request(id) = i /\ Available(id) /\ ~Ignored(i)
      BY <2>2, <2>4 DEF Answered
    <3>2. \A id \in Features : get_request(id) = i => Asked(i) /\ Tag(i).id = id
      BY <2>4, <2>5 DEF Found
    <3>3. Asked(i) => get_request(Tag(i).id) = i
      BY <2>4 DEF Found
    <3> QED
      BY <3>1, <3>2, <3>3
  <2> QED
    BY <1>2, <2>3, <2>4, <2>6 DEF LimInv
<1> QED
  BY <1>1, <1>2 DEF RequestsAnswered

\* For every image, machine and configuration, once the executable runs (the
\* end of limine_load in protos/limine.c) its requests have the answers they
\* should have, and no step used what was closed before it.
THEOREM LimineAnswers == LimineSpec => []RequestsAnswered
<1> QED
  BY LimineInvariant, LimSafe, PTL
=============================================================================
