------------------------------- MODULE MCBoot -------------------------------
(***************************************************************************)
(* The parts of the boot loader for TLC.  They hand each other values (a    *)
(* file, an entry, a map) and share no state: a behaviour of this module is *)
(* one of a part, chosen at the start, on every input of the part; the      *)
(* other parts stay in one of their initial states.                         *)
(***************************************************************************)
EXTENDS BootMem, Vmm, LimineProto, BootMenu, BootDisk, BootFile, BootConfig

VARIABLE part

-----------------------------------------------------------------------------
(* Memory map.                                                              *)
E1(b, t, y) == [base |-> b, top |-> t, type |-> y]
MCBiosMaps ==
  {<<E1(0, 15, "usable"), E1(15, 20, "reserved"), E1(20, 44, "usable")>>,
   <<E1(0, 17, "usable"), E1(18, 20, "reserved"), E1(20, 34, "usable"), E1(33, 37, "acpi"), E1(36, 51, "usable")>>,
   <<E1(20, 31, "usable"), E1(0, 13, "usable"), E1(24, 26, "reserved")>>,
   <<E1(0, 15, "usable"), E1(15, 38, "reserved"), E1(21, 29, "usable"), E1(38, 44, "usable")>>}
MCUefiMaps ==
  {<<E1(0, 6, "conventional"), E1(6, 10, "boot"), E1(10, 20, "reserved"), E1(20, 40, "conventional"), E1(40, 44, "loader")>>,
   <<E1(0, 4, "boot"), E1(4, 20, "conventional"), E1(20, 24, "acpi"), E1(24, 36, "conventional"), E1(36, 46, "conventional")>>}
MCImage == <<40, 44>>

-----------------------------------------------------------------------------
(* Paging.                                                                  *)
M(b, t, y) == [base |-> b, top |-> t, type |-> y]
MCMemMaps == {<<M(0, 3, "usable"), M(3, 4, "reserved"), M(5, 7, "fb"), M(8, 12, "usable")>>,
              <<M(0, 8, "usable"), M(8, 13, "usable"), M(14, 15, "fb")>>}
Kr(b, n, fl) == [base |-> b, n |-> n, fl |-> fl]
Kn(v, p, rs) == [vbase |-> v, pbase |-> p, ranges |-> rs]
MCKernels == {Kn(32, 4, <<Kr(32, 5, "w"), Kr(37, 2, "x")>>), Kn(33, 2, <<Kr(35, 2, "x"), Kr(33, 3, "w")>>),
              Kn(3, 2, <<Kr(33, 1, "x"), Kr(3, 1, "w")>>)}

-----------------------------------------------------------------------------
(* Boot protocol.                                                           *)
T(k) == [k |-> k]
Rv(n) == [k |-> "rev", n |-> n]
Rq(id) == [k |-> "req", id |-> id, arg |-> 0]
Pg(r, m, a, b) == [k |-> "req", id |-> "paging", arg |-> [rev |-> r, mode |-> m, min |-> a, max |-> b]]
Md(r, s) == [k |-> "req", id |-> "modules", arg |-> [rev |-> r, internal |-> s]]
Mf(n, r) == [name |-> n, required |-> r]
Paging == {Pg(r, m, a, b) : r \in {0, 1}, m \in {0, 1}, a \in {0, 1}, b \in {0, 1}}
AllIds == <<"entry", "info", "cmdline", "firmware", "address", "hhdm", "rsdp", "smbios", "efi_st", "dtb", "stack", "exec_file", "fb", "date", "perf", "efi_mmap", "mp", "memmap">>
Im(e, s, t) == [elf |-> e, section |-> s, tags |-> t]
Few == {T("start"), T("end"), Rv(0), Rv(3), Rv(9), Rq("hhdm"), Rq("memmap")}
MarkedImages == {Im(TRUE, NoSection, t) : t \in UNION {[1 .. n -> Few] : n \in 1 .. 4}}
Listing == {Im(e, <<1>>, <<Rq("hhdm"), Rv(r), Rq("memmap")>>) : e \in BOOLEAN, r \in {0, 2}}
Asking(more) ==
  {Im(FALSE, NoSection, <<Rv(r)>> \o [i \in 1 .. 18 |-> Rq(AllIds[i])] \o <<p, Md(v, <<Mf("a", TRUE), Mf("b", FALSE)>>)>> \o more) :
     r \in {1, 3, 4}, p \in Paging, v \in {0, 1}}
Mem(b, t, y) == [base |-> b, top |-> t, type |-> y]
Mc(full, cpu, span, lo, hi, mods) ==
  [kernel |-> TRUE, uefi |-> FALSE, cpumax |-> cpu, phytop |-> 25, usermin |-> lo, usermax |-> hi,
   memory |-> <<Mem(0, span, "usable"), Mem(span, span + 9, "reserved")>>,
   rsdp |-> full, smbios |-> full, dtb |-> ~full, fbs |-> IF full THEN 1 ELSE 0, clock |-> full, cpus |-> IF full THEN 2 ELSE 0,
   modules |-> mods, files |-> {"a", "c"}]
Plain == Mc(TRUE, 1, 2, 0, 1, <<Mf("c", TRUE)>>)
Various == {Mc(u, c, n, lo, hi, <<>>) : u \in BOOLEAN, c \in {0, 1}, n \in {2, 9, 20}, lo \in {0, 1}, hi \in {0, 1}}
Pairs(is, ms) == {[image |-> i, mach |-> m] : i \in is, m \in ms}
MCBoots ==
  Pairs(MarkedImages \cup Listing \cup Asking(<<Rq("one too many")>>), {Plain})
  \cup Pairs({Im(TRUE, <<2, 3, 4>>, <<Rq("memmap"), Rq("hhdm"), Rq("hhdm"), Rq("later")>>), Im(FALSE, NoSection, <<Rq("later"), Rq("mp")>>)}, {Plain})
  \cup Pairs(Asking(<<>>), Various \cup {Plain, [Plain EXCEPT !.modules = <<Mf("d", TRUE)>>], [Plain EXCEPT !.kernel = FALSE], [Plain EXCEPT !.uefi = TRUE]})
MCModeTop == (0 :> 8) @@ (1 :> 22)

-----------------------------------------------------------------------------
(* Menu.                                                                    *)
En(d, p, o) == [depth |-> d, plus |-> p, other |-> o]
Cf(es, d, t, ed) == [entries |-> es, default |-> d, timeout |-> t, editor |-> ed]
Forests == {<<En(1, TRUE, FALSE), En(2, FALSE, FALSE), En(2, FALSE, TRUE), En(1, FALSE, FALSE)>>,
            <<En(2, FALSE, FALSE), En(1, FALSE, FALSE), En(2, TRUE, FALSE), En(3, FALSE, FALSE), En(1, FALSE, TRUE)>>,
            <<En(1, FALSE, FALSE), En(3, FALSE, FALSE)>>, <<>>, <<En(1, FALSE, TRUE)>>}
MCConfigs == {Cf(f, d, t, ed) : f \in Forests, d \in {0, 2}, t \in {-1, 0, 2}, ed \in BOOLEAN}
MCOldText == <<"n", "c", "n">>

-----------------------------------------------------------------------------
(* Disks.                                                                   *)
Pt(f, c, t) == [first |-> f, count |-> c, type |-> t]
Lg(x, f, c, t) == [next |-> x, first |-> f, count |-> c, type |-> t]
Dk(ss, g, t, c, data, o, b) == [ss |-> ss, data |-> data, gpt |-> g, table |-> t, chain |-> c, optical |-> o, removable |-> o, bad |-> b]
Empty0 == Pt(0, 0, 0)
Gpt(data, b) == Dk(1, TRUE, <<Pt(1, 4, 1), Empty0, Pt(5, 5, 1)>>, <<>>, data, FALSE, b)
Mbr(data) == Dk(1, FALSE, <<Pt(1, 4, 1), Pt(5, 13, 5), Empty0, Empty0>>, <<Lg(5, 1, 4, 1), Lg(10, 1, 4, 1), Lg(0, 1, 1, 0)>>, data, FALSE, {})
Wide(data) == Dk(2, TRUE, <<Pt(2, 4, 1), Pt(7, 3, 1)>>, <<>>, data, FALSE, {})
Cd == Dk(4, FALSE, <<>>, <<>>, <<51, 52, 53>>, TRUE, {})
MCJunk == {Empty0, Pt(0, 2, 1)}
On(b, d) == [bda |-> b, disks |-> d]
Plain0 == Gpt([i \in 1 .. 10 |-> i], {})
MCFirmware ==
  {On(-1, <<Gpt([i \in 1 .. 10 |-> i], b), Cd>>) : b \in {{}, {3}, {0}, {5, 8}}}
  \cup {On(-1, <<Gpt(<<1, 8, 9, 8, 9, 8, 9, 8, 9, 2>>, {}), Wide(<<11, 12, 13, 14, 15>>)>>)}
  \cup {On(-1, <<Cd, Mbr([i \in 1 .. 18 |-> i])>>), On(-1, <<Mbr(<<1, 8, 9, 8, 9, 5, 8, 9, 8, 9, 7, 8, 9, 8, 9, 6, 4, 3>>)>>)}
  \cup {On(b, <<[Plain0 EXCEPT !.removable = TRUE], Plain0, Cd, Gpt([i \in 1 .. 10 |-> i], {3})>>) : b \in 1 .. 2}

-----------------------------------------------------------------------------
(* Files.                                                                   *)
Nm(l, u, s) == [long |-> l, up |-> u, short |-> s, rr |-> TRUE]
boot  == Nm(<<"boot">>, <<"BOOT">>, "BOOT")
Boot  == Nm(<<"Boot">>, <<"BOOT">>, "BOOT")
cfg   == Nm(<<"cfg">>, <<"CFG">>, "CFG")
long  == Nm(<<"a-very-long-n", "ame">>, <<"A-VERY-LONG-N", "AME">>, "")
full  == Nm(<<"thirteen-char">>, <<"THIRTEEN-CHAR">>, "")
Only(s) == [Nm(<<>>, <<>>, s) EXCEPT !.short = s]
Lf(q, l, p, u, f) == [k |-> "lfn", seq |-> q, last |-> l, piece |-> p, up |-> u, full |-> f]
Sf(n, f, z) == [k |-> "file", name |-> n, first |-> f, size |-> z]
Lb(n) == [k |-> "label", name |-> n]
Dead == [k |-> "dead"]
D(n) == [k |-> "data", v |-> n]
Long(cl, size) == <<Lf(2, TRUE, "ame", "AME", FALSE), Lf(1, FALSE, "a-very-long-n", "A-VERY-LONG-N", TRUE), Sf("AVERYL~1", cl, size)>>
Full(cl, size) == <<Lf(1, TRUE, "thirteen-char", "THIRTEEN-CHAR", TRUE), Sf("THIRTE~1", cl, size)>>
BootF(cl, size) == <<Lf(1, TRUE, "boot", "BOOT", FALSE), Sf("BOOT", cl, size)>>
\* Two cells to a sector of 512 bytes.
Lay(at0, cells) == [l \in at0 .. at0 + (Len(cells) - 1) \div 2 |-> SubSeq(cells \o <<NoEntry>>, 2 * (l - at0) + 1, 2 * (l - at0) + 2)]
Nibbles(fat, top) == [w \in 0 .. 3 * top + 3 |-> LET c == w \div 3 IN ((IF c \in DOMAIN fat THEN fat[c] ELSE 0) \div (16 ^ (w % 3))) % 16]
Fat(sects, spc, rootents, spf16, rootcl, fat, sect) ==
  [kind |-> "fat", sig |-> TRUE, spc |-> spc, bps |-> 512, sects |-> sects, reserved |-> 1, fats |-> 2, spf16 |-> spf16, spf32 |-> 1,
   rootents |-> rootents, rootcl |-> rootcl, fat |-> fat, nibble |-> Nibbles(fat, 9), sect |-> sect]
F(p, c) == [path |-> p, found |-> TRUE, size |-> Len(c), cells |-> c]
\* The root: a label, a deleted entry, a long name, a directory (cluster 3, then 6), a short name.
RootCells(f) == <<Lb("SYS"), Dead>> \o Long(4, 3) \o BootF(3, 0) \o <<Sf("CFG", f, 1)>>
DirCells0 == <<Dead, Dead>> \o Full(7, 1) \o <<Sf("CFG", 0, 0), NoEntry>>
FatTree == {F(<<long>>, <<D(1), D(2), D(3)>>), F(<<Only("AVERYL~1")>>, <<D(1), D(2), D(3)>>), F(<<Only("CFG")>>, <<D(5)>>), F(<<boot, full>>, <<D(4)>>), F(<<boot, Only("CFG")>>, <<>>), F(<<boot>>, <<>>)}
\* Clusters of one sector: 3 -> 6 the directory, 4 -> 9 a file.
Small(sects, eoc, start) ==
  Fat(sects, 1, 8, 1, 0, (3 :> 6) @@ (6 :> 8) @@ (8 :> eoc) @@ (4 :> 9) @@ (9 :> eoc) @@ (7 :> eoc) @@ (5 :> eoc),
      Lay(3, RootCells(5)) @@ (start + 1 :> <<Dead, Dead>>) @@ (start + 4 :> Full(7, 1)) @@ (start + 6 :> <<Sf("CFG", 0, 0), NoEntry>>)
        @@ (start + 2 :> <<D(1), D(2)>>) @@ (start + 7 :> <<D(3), D(9)>>) @@ (start + 5 :> <<D(4), D(9)>>) @@ (start + 3 :> <<D(5), D(9)>>))
\* FAT32 with clusters of two sectors; the root is 2 -> 5.
Large ==
  Fat(150000, 2, 0, 0, 2, (2 :> 5) @@ (5 :> 268435455) @@ (3 :> 6) @@ (6 :> 268435448 + 268435456) @@ (4 :> 268435455) @@ (7 :> 268435455) @@ (8 :> 268435455),
      Lay(3, SubSeq(RootCells(8), 1, 4)) @@ Lay(9, SubSeq(RootCells(8), 5, 8)) @@ Lay(5, SubSeq(DirCells0, 1, 4)) @@ Lay(11, SubSeq(DirCells0, 5, 6))
        @@ Lay(7, <<D(1), D(2), D(3)>>) @@ Lay(13, <<D(4)>>) @@ Lay(15, <<D(5)>>))
En0(n, rr, len, cl, size) == [k |-> "entry", long |-> n.long, up |-> n.up, rr |-> rr, len |-> len, first |-> cl, size |-> size]
Pad == [k |-> "pad"]
Iso(rr) ==
  [kind |-> "iso", sig |-> TRUE, desc |-> <<[type |-> "boot", first |-> 0, size |-> 0], [type |-> "primary", first |-> 20, size |-> 8], [type |-> "terminator", first |-> 0, size |-> 0]>>,
   extent |-> (20 :> <<En0(cfg, rr, 1, 30, 2), En0(full, rr, 2, 31, 1), Pad, Pad, En0(boot, rr, 1, 21, 4), Pad, Pad, Pad>>)
      @@ (21 :> <<En0(long, rr, 3, 32, 1), Pad, Pad, Pad>>) @@ (30 :> <<D(1), D(2)>>) @@ (31 :> <<D(3)>>) @@ (32 :> <<D(4)>>)]
IsoName(n, rr) == [n EXCEPT !.short = "", !.rr = rr]
IsoTree(rr) == {F(<<IsoName(cfg, rr)>>, <<D(1), D(2)>>), F(<<IsoName(full, rr)>>, <<D(3)>>), F(<<IsoName(boot, rr), IsoName(long, rr)>>, <<D(4)>>),
                F(<<IsoName(boot, rr)>>, <<En0(long, rr, 3, 32, 1), Pad, Pad, Pad>>)}
V(o, i, p, g, pg, fs, t) == [optical |-> o, index |-> i, part |-> p, guid |-> g, partguid |-> pg, fs |-> fs, tree |-> t]
Pxe == [kind |-> "pxe", sig |-> FALSE, spc |-> 1, bps |-> 512, sects |-> 1, reserved |-> 0, fats |-> 0, spf16 |-> 0, spf32 |-> 0, rootents |-> 0]
NoFs == [Pxe EXCEPT !.kind = "none"]
MCVols == <<V(FALSE, 1, 0, "none", "none", NoFs, {}), V(FALSE, 1, 1, "none", "g1", Small(100, 4095, 7), FatTree), V(FALSE, 1, 2, "none", "g2", Small(5000, 65535, 7), FatTree),
            V(FALSE, 2, 1, "none", "g3", Large, FatTree), V(TRUE, 1, 0, "none", "none", Iso(TRUE), IsoTree(TRUE)), V(TRUE, 2, 0, "none", "none", Iso(FALSE), IsoTree(FALSE)),
            V(FALSE, 3, 0, "none", "none", Pxe, {})>>
Sizes3 == {<<D(1), D(2), D(3)>>, <<D(4)>>}
U(r, t, p, h) == [res |-> r, root |-> t, path |-> p, hash |-> h]
Of(c) == [k |-> "of", cells |-> c]
Bad == [k |-> "bad", cells |-> <<>>]
Paths == {<<boot>>, <<Boot>>, <<cfg>>, <<long>>, <<full>>, <<boot, full>>, <<Boot, cfg>>, <<boot, long>>, <<[long EXCEPT !.long = <<"a-very-long-n">>, !.up = <<"A-VERY-LONG-N">>]>>,
          <<Nm(<<"averyl~1">>, <<"AVERYL~1">>, "AVERYL~1")>>}
Locals == {U("hdd", <<d, p>>, q, NoHash) : d \in 1 .. 2, p \in 0 .. 2, q \in Paths} \cup {U("odd", <<d, 0>>, q, NoHash) : d \in 1 .. 2, q \in Paths}
Others ==
  {U("guid", <<"g9", "g3">>, <<long>>, NoHash), U("guid", <<"g1", "g3">>, <<cfg>>, NoHash), U("fslabel", <<"SYS">>, <<long>>, NoHash), U("fslabel", <<"ELSE">>, <<long>>, NoHash),
   U("boot", <<>>, <<long>>, NoHash), U("boot", <<2>>, <<long>>, NoHash), U("hdd", <<0, 0>>, <<cfg>>, NoHash), U("usb", <<1, 1>>, <<cfg>>, NoHash), U("hdd", <<1, 1>>, <<cfg>>, Bad),
   U("tftp", <<>>, <<long>>, NoHash), U("tftp", <<>>, <<full>>, NoHash)}
  \cup {U(r, t, <<long>>, Of(c)) : r \in {"hdd"}, t \in {<<2, 1>>}, c \in Sizes3} \cup {U("boot", <<>>, <<long>>, Of(c)) : c \in Sizes3}
MCServer == {F(<<long>>, <<D(1), D(2), D(3)>>)}
MCUris == Locals \cup Others
MCSystems == {[boot |-> b, uefi |-> e, nocase |-> n, strict |-> s] : b \in {2, 7}, e \in BOOLEAN, n \in BOOLEAN, s \in BOOLEAN}

-----------------------------------------------------------------------------
(* Configuration.                                                           *)
Ch(s) == [m |-> FALSE, s |-> s]
Mu(s) == [m |-> TRUE, s |-> s]
Ln(k, key, val) == [k |-> k, key |-> key, val |-> val, lead |-> 0, trail |-> 0, cr |-> FALSE]
Path(v) == Ln("opt", "path", v)
Args(v) == Ln("opt", "args", v)
Title == Ln("entry", "1", <<>>)
Def(s, v) == Ln("macro", s, v)
Variants(l) == {l, [l EXCEPT !.lead = 1, !.trail = 2], [l EXCEPT !.trail = 1, !.cr = TRUE], [l EXCEPT !.val = <<>>, !.trail = 2, !.cr = TRUE]}
A1 == Path(<<Ch("a"), Ch("b")>>)
Items == {A1, Args(<<Mu("X")>>), Args(<<Ch("c"), Mu("ARCH")>>), Title, Def("X", <<Ch("d"), Mu("Y")>>), Def("X", <<Ch("e")>>), [Def("X", <<Ch("e")>>) EXCEPT !.trail = 1, !.cr = TRUE], Def("X", [i \in 1 .. 30 |-> Ch("f")])}
Texts == {[lines |-> <<a, b, c, d, e>>, nl |-> TRUE] : a \in Items, b \in Items, c \in {Title, A1, Args(<<Mu("X")>>)}, d \in Items, e \in {A1, Args(<<Mu("X")>>)}}
Other == {[lines |-> <<a, Ln("text", "", <<Ch("t")>>), b>>, nl |-> n] : a \in Variants(A1), b \in Variants(A1) \cup Variants(Args(<<Ch("g")>>)) \cup {Args(<<Mu("unclosed")>>)}, n \in BOOLEAN}
Disk1(t) == "/limine.conf" :> t
Src(d, s, c) == [disk |-> d, smbios |-> s, sum |-> c, builtin |-> "ARCH" :> <<Ch("x")>>]
Oem(t, y) == [type |-> t, config |-> y # NoText, text |-> y]
Plain1 == [lines |-> <<A1>>, nl |-> TRUE]
MCSources ==
  {Src(Disk1(t), <<>>, "") : t \in Texts \cup Other}
  \cup {Src(Disk1(Plain1) @@ ("/boot/limine.conf" :> t), <<Oem(1, NoText)>>, c) : t \in Other, c \in {"", "right", "wrong"}}
  \cup {Src(Disk1(Plain1), <<Oem(11, NoText), Oem(11, t), Oem(127, NoText)>>, c) : t \in Other, c \in {"", "right"}}
  \cup {Src(<<>>, <<Oem(127, NoText), Oem(11, t)>>, "") : t \in Other}
MCSearch == <<"/boot/limine/limine.conf", "/boot/limine.conf", "/limine/limine.conf", "/limine.conf">>

-----------------------------------------------------------------------------
(* The parts together.                                                      *)
\* One input for each part that does not run.
AMap      == CHOOSE x \in FirmwareMaps : TRUE
ABoot     == CHOOSE x \in Boots : TRUE
AConfig   == CHOOSE x \in Configs : TRUE
AFirmware == CHOOSE x \in Firmware : TRUE
ASystem   == CHOOSE x \in Systems : TRUE
ASource   == CHOOSE x \in Sources : TRUE
Inputs(p, all, one) == IF part = p THEN all ELSE {one}

bootvars == <<part, memvars, vmmvars, limvars, menuvars, dvars, bfvars, cfvars>>

BootInit ==
  /\ part \in {"mem", "vmm", "proto", "menu", "disk", "file", "config"}
  /\ BootMemFrom(Inputs("mem", FirmwareMaps, AMap))
  /\ VmmFrom(Inputs("vmm", BOOLEAN, FALSE))
  /\ LimineFrom(Inputs("proto", Boots, ABoot))
  /\ MenuFrom(Inputs("menu", Configs, AConfig))
  /\ BootDiskFrom(Inputs("disk", Firmware, AFirmware))
  /\ BootFileFrom(Inputs("file", Systems, ASystem))
  /\ ConfigFrom(Inputs("config", Sources, ASource))

MemPart == part = "mem" /\ BootMemNext /\ UNCHANGED <<part, vmmvars, limvars, menuvars, dvars, bfvars, cfvars>>
VmmPart == part = "vmm" /\ VmmNext /\ UNCHANGED <<part, memvars, limvars, menuvars, dvars, bfvars, cfvars>>
ProtoPart == part = "proto" /\ LimineNext /\ UNCHANGED <<part, memvars, vmmvars, menuvars, dvars, bfvars, cfvars>>
MenuPart == part = "menu" /\ MenuNext /\ UNCHANGED <<part, memvars, vmmvars, limvars, dvars, bfvars, cfvars>>
DiskPart == part = "disk" /\ BootDiskNext /\ UNCHANGED <<part, memvars, vmmvars, limvars, menuvars, bfvars, cfvars>>
FilePart == part = "file" /\ BootFileNext /\ UNCHANGED <<part, memvars, vmmvars, limvars, menuvars, dvars, cfvars>>
ConfigPart == part = "config" /\ ConfigNext /\ UNCHANGED <<part, memvars, vmmvars, limvars, menuvars, dvars, bfvars>>

BootNext == MemPart \/ VmmPart \/ ProtoPart \/ MenuPart \/ DiskPart \/ FilePart \/ ConfigPart
BootSpec == BootInit /\ [][BootNext]_bootvars
=============================================================================
