---------------------------- MODULE LimineProto -----------------------------
(***************************************************************************)
(* The Limine boot protocol, limine_load of protos/limine.c, x86: the       *)
(* executable's image is searched for the base revision and the requests,   *)
(* tag by tag, a paging mode is agreed on, the requests are answered one    *)
(* feature after the other, the memory map is closed and the executable     *)
(* entered.                                                                 *)
(*                                                                          *)
(* An image is a sequence of tags at 8-byte steps: markers, base revisions  *)
(* and requests.  The machine is a record of what the loader finds: memory, *)
(* CPU, tables, files and the configuration's limits.  What the loader      *)
(* writes into a request's response field is answers[i].                    *)
(***************************************************************************)
EXTENDS Integers, Sequences, Functions

CONSTANTS
  Boots,         \* [image, mach]: an image is [elf, section, tags], where section
                 \* is NoSection or the indexes of the tags it lists
  MaxRequests,   \* MAX_REQUESTS
  ModeTop,       \* ModeTop[m]: the first address the half of mode m cannot map
  Gig            \* 4 GiB, in units of the direct map's alignment

ASSUME LimineAssumption == MaxRequests \in Nat /\ ModeTop[0] < ModeTop[1]

SUPPORTED_BASE_REVISION == 4
NoSection == <<0>>
NotAnswered == [k |-> "none"]
PagingArg == [rev : Nat, mode : Nat, min : Nat, max : Nat]

\* What an image and a machine are made of.  A section lists requests of its
\* image.
ASSUME LimineInputs ==
  \A b \in Boots :
    /\ DOMAIN b.image.tags = 1 .. Len(b.image.tags) /\ Len(b.image.tags) \in Nat
    /\ \A i \in DOMAIN b.image.tags :
         /\ b.image.tags[i].k \in {"start", "end", "rev", "req"}
         /\ b.image.tags[i].k = "rev" => b.image.tags[i].n \in Nat
         /\ b.image.tags[i].k = "req" /\ b.image.tags[i].id = "paging" => b.image.tags[i].arg \in PagingArg
    /\ b.image.section \in Seq(Nat)
    /\ b.image.section # NoSection =>
         \A n \in DOMAIN b.image.section :
           b.image.section[n] \in DOMAIN b.image.tags /\ b.image.tags[b.image.section[n]].k = "req"
    /\ b.mach.cpumax \in {0, 1} /\ b.mach.usermin \in {0, 1} /\ b.mach.usermax \in {0, 1}

VARIABLES image, mach, step, tagno, baserev, revtags, requests, limits, mode, offset, open, services, answers
limvars == <<image, mach, step, tagno, baserev, revtags, requests, limits, mode, offset, open, services, answers>>

LimineFrom(boots) ==
  /\ \E b \in boots : image = b.image /\ mach = b.mach
  /\ step = "open" /\ tagno = 1
  /\ baserev = 0 /\ revtags = <<0, 0>> /\ requests = <<>> /\ limits = <<0, 1>>
  /\ mode = 0 /\ offset = "unset" /\ open = TRUE /\ services = TRUE
  /\ answers = [i \in DOMAIN image.tags |-> NotAnswered]
LimineInit == LimineFrom(Boots)

Tag(i) == image.tags[i]
Panic == step' = "panic"
Go(s) == step' = s

----------------------------------------------------------------------------
(* The search of the image: two loops over its tags, up to an end marker.   *)

Unsearched == UNCHANGED <<image, mach, limits, mode, offset, services, answers>>
Seen(k) == tagno <= Len(image.tags) /\ Tag(tagno).k = k
Searched == tagno > Len(image.tags) \/ Seen("end")
Onward == tagno' = tagno + 1 /\ UNCHANGED step

\* get_raw_memmap: the UEFI build panics while the firmware's services last,
\* and after them closes the allocator (pmm_reclaim_uefi_mem).
RawRefused == mach.uefi = TRUE /\ services = TRUE
AfterRaw == IF mach.uefi = TRUE THEN FALSE ELSE open

\* The raw map is asked for, then the executable is opened, read and loaded.
Load ==
  /\ step = "open"
  /\ IF ~RawRefused /\ mach.kernel THEN Go("revision") /\ open' = AfterRaw ELSE Panic /\ UNCHANGED open
  /\ Unsearched /\ UNCHANGED <<tagno, baserev, revtags, requests>>

\* The first loop: the revision, and the tags to write p[1] and p[2] of (0
\* for none).
RevisionStart == Seen("start") /\ Onward /\ baserev' = 0 /\ revtags' = <<0, 0>>
RevisionTag ==
  /\ Seen("rev")
  /\ IF baserev # 0 THEN Panic /\ UNCHANGED <<tagno, baserev, revtags>>
     ELSE /\ Onward
          /\ IF Tag(tagno).n <= SUPPORTED_BASE_REVISION
             THEN baserev' = Tag(tagno).n /\ revtags' = <<tagno, tagno>>
             ELSE baserev' = SUPPORTED_BASE_REVISION /\ revtags' = <<tagno, revtags[2]>>
RevisionPass == Seen("req") /\ Onward /\ UNCHANGED <<baserev, revtags>>
RevisionEnd == Searched /\ tagno' = 1 /\ Go("requests") /\ UNCHANGED <<baserev, revtags>>
BaseRevision ==
  /\ step = "revision" /\ (RevisionStart \/ RevisionTag \/ RevisionPass \/ RevisionEnd)
  /\ Unsearched /\ UNCHANGED <<requests, open>>

\* get_request: the first request with this id, 0 when there is none.
get_request(id) ==
  LET hits == {n \in DOMAIN requests : Tag(requests[n]).id = id}
  IN  IF hits = {} THEN 0 ELSE requests[CHOOSE n \in hits : \A m \in hits : n <= m]

\* Revision 0 may list its requests in a section, which is taken as it is.
Listed == baserev = 0 /\ image.elf = TRUE /\ image.section # NoSection
RequestSection == Listed /\ requests' = image.section /\ Go("supported") /\ UNCHANGED tagno

\* Mutant: requests before the start marker stay.
StartKeeps == Seen("start") /\ Onward /\ UNCHANGED requests

\* Else the second loop.
RequestStart == Seen("start") /\ Onward /\ requests' = <<>>
RequestTag ==
  /\ Seen("req")
  /\ IF Len(requests) = MaxRequests \/ get_request(Tag(tagno).id) # 0
     THEN Panic /\ UNCHANGED <<tagno, requests>>
     ELSE Onward /\ requests' = Append(requests, tagno)
RequestPass == Seen("rev") /\ Onward /\ UNCHANGED requests
RequestEnd == Searched /\ Go("supported") /\ UNCHANGED <<tagno, requests>>
LoadRequests ==
  /\ step = "requests"
  /\ \/ RequestSection
     \/ ~Listed /\ (RequestStart \/ RequestTag \/ RequestPass \/ RequestEnd)
  /\ Unsearched /\ UNCHANGED <<baserev, revtags, open>>

----------------------------------------------------------------------------
(* The paging mode.                                                         *)

\* The types of memory that revision rev leaves out of the direct map.
NotDirect(rev, t) ==
  \/ (rev \in {1, 2} \/ rev >= 4) /\ t = "reserved"
  \/ rev = 3 /\ t \notin {"usable", "loader", "kernel", "fb", "efi"}

\* The top of the direct map of memory map m.
get_hhdm_span_top(m, rev) ==
  LET tops == {m[i].top : i \in {j \in DOMAIN m :
                 /\ ~NotDirect(rev, m[j].type)
                 /\ (IF rev < 3 /\ m[j].base < Gig THEN Gig ELSE m[j].base) < m[j].top}}
      low  == IF rev >= 3 THEN 0 ELSE Gig
  IN  CHOOSE t \in tops \cup {low} : \A u \in tops \cup {low} : u <= t

\* The lowest mode of machine c whose half holds the direct map; 2 when none does.
Needed(c, rev) ==
  LET span == get_hhdm_span_top(c.memory, rev)
  IN  IF span < ModeTop[0] THEN 0 ELSE IF c.cpumax = 1 /\ span < ModeTop[1] THEN 1 ELSE 2

\* What the machine and the configuration allow.
SupportedModes ==
  LET span == get_hhdm_span_top(mach.memory, baserev)
      low  == Needed(mach, baserev)
      lo   == IF mach.usermin > low THEN mach.usermin ELSE low
      hi   == IF mach.usermax < mach.cpumax THEN mach.usermax ELSE mach.cpumax
  IN  /\ step = "supported"
      /\ IF \/ RawRefused \/ span > mach.phytop \/ low = 2 \/ mach.usermax < mach.usermin
            \/ mach.usermax < mach.cpumax /\ mach.usermax < low
            \/ mach.usermin > low /\ mach.usermin > hi
         THEN Panic /\ UNCHANGED <<limits, open>>
         ELSE Go("paging") /\ limits' = <<lo, hi>> /\ open' = AfterRaw
      /\ UNCHANGED <<image, mach, tagno, baserev, revtags, requests, mode, offset, services, answers>>

\* The largest mode the executable can do.
Most(q) == IF q.rev >= 1 THEN (IF q.max = 0 \/ q.max < q.min THEN q.min ELSE q.max) ELSE q.mode

\* The executable's smallest and largest mode, and the mode it gets; -1 when
\* the loader gives up.
Agreed(q, lo, hi) ==
  LET kmin == IF q.rev >= 1 THEN q.min ELSE 0
      kmax == Most(q)
      low  == IF lo > kmax THEN kmax ELSE lo
      high == IF hi < low THEN low ELSE hi
      up   == IF q.mode > high THEN high ELSE q.mode
      m    == IF up < low THEN low ELSE up
      cut  == IF m > kmax THEN kmax ELSE m
  IN  <<kmin, kmax, IF kmax < kmin \/ (cut < kmin /\ kmin > high) THEN -1 ELSE IF cut < kmin THEN kmin ELSE cut>>

Answer(i, v) == answers' = [answers EXCEPT ![i] = v]
Yes == [k |-> "yes"]

\* The request, if it says anything; without it the lowest mode is taken.
PagingMode ==
  LET i == get_request("paging")
      q == Tag(i).arg
      a == Agreed(q, limits[1], limits[2])
  IN  /\ step = "paging"
      /\ IF i = 0 \/ (q.rev = 0 /\ q.mode = 0 /\ q.min = 0 /\ q.max = 0)
         THEN mode' = 0 /\ offset' = "set" /\ Go("file") /\ UNCHANGED answers
         ELSE IF a[3] = -1 THEN Panic /\ UNCHANGED <<mode, offset, answers>>
         ELSE mode' = a[3] /\ offset' = "set" /\ Go("file") /\ Answer(i, [k |-> "mode", v |-> a[3]])
      /\ UNCHANGED <<image, mach, tagno, baserev, revtags, requests, limits, open, services>>

----------------------------------------------------------------------------
(* The features.  Steps use the allocator, which get_memmap closes (and the *)
(* UEFI build's get_raw_memmap), and the firmware's services, which end     *)
(* with efi_exit_boot_services.                                             *)

Uses(what) == (("alloc" \in what => open) /\ ("services" \in what => services))
Rest == UNCHANGED <<image, mach, tagno, baserev, revtags, requests, limits, mode>>

\* A feature: the step s answers request id when it is there and has, and
\* the step after it is t.
Feature(s, id, has, v, what, t) ==
  LET i == get_request(id)
  IN  /\ step = s
      /\ IF i = 0 \/ ~has THEN Go(t) /\ UNCHANGED answers
         ELSE IF Uses(what) THEN Go(t) /\ Answer(i, v) ELSE Go("misuse") /\ UNCHANGED answers
      /\ Rest /\ UNCHANGED <<offset, open, services>>

\* get_file of the executable: its path, its place and the file itself.
ExecutableFile ==
  /\ step = "file" /\ IF Uses({"alloc", "services"}) THEN Go("entry") ELSE Go("misuse")
  /\ Rest /\ UNCHANGED <<offset, open, services, answers>>

Executable ==
  \/ Feature("entry", "entry", TRUE, Yes, {"alloc"}, "info")
  \/ Feature("info", "info", TRUE, Yes, {"alloc"}, "cmdline")
  \/ Feature("cmdline", "cmdline", TRUE, Yes, {"alloc"}, "firmware")
  \/ Feature("firmware", "firmware", TRUE, [k |-> "fw", v |-> mach.uefi], {"alloc"}, "address")
  \/ Feature("address", "address", TRUE, Yes, {"alloc"}, "hhdm")
  \/ Feature("hhdm", "hhdm", TRUE, [k |-> "hhdm", v |-> offset], {"alloc"}, "rsdp")

\* Addresses of tables are in the direct map only when the revision maps them.
At(virt) == [k |-> IF virt THEN "virt" ELSE "phys"]
Tables ==
  \/ Feature("rsdp", "rsdp", mach.rsdp, At(baserev <= 2 \/ baserev >= 4), {"alloc"}, "smbios")
  \/ Feature("smbios", "smbios", mach.smbios, At(baserev <= 2), {"alloc"}, "efi_st")
  \/ Feature("efi_st", "efi_st", mach.uefi, At(baserev <= 2), {"alloc"}, "dtb")
  \/ Feature("dtb", "dtb", mach.dtb, Yes, {"alloc"}, "stack")

Stack ==
  \/ Feature("stack", "stack", TRUE, Yes, {"alloc"}, "exec_file")
  \/ Feature("exec_file", "exec_file", TRUE, Yes, {"alloc"}, "modules")

\* The executable's own modules, then the configuration's; one that is
\* missing ends the boot unless it is marked as not required.
Wanted == IF get_request("modules") = 0 THEN <<>>
          ELSE (IF Tag(get_request("modules")).arg.rev >= 1 THEN Tag(get_request("modules")).arg.internal ELSE <<>>) \o mach.modules
Modules ==
  LET i == get_request("modules")
      there(m) == m.name \in mach.files
      lost == \E n \in DOMAIN Wanted : Wanted[n].required /\ ~there(Wanted[n])
      got  == SelectSeq(Wanted, there)
  IN  /\ step = "modules"
      /\ IF Wanted = <<>> THEN Go("fb") /\ UNCHANGED answers
         ELSE IF ~Uses({"alloc", "services"}) THEN Go("misuse") /\ UNCHANGED answers
         ELSE IF lost THEN Panic /\ UNCHANGED answers
         ELSE Go("fb") /\ Answer(i, [k |-> "modules", v |-> [n \in DOMAIN got |-> got[n].name]])
      /\ Rest /\ UNCHANGED <<offset, open, services>>

Framebuffer == Feature("fb", "fb", mach.fbs > 0, [k |-> "fbs", v |-> mach.fbs], {"alloc", "services"}, "date")

\* The time, the descriptor table, the stack and the timings.
WrapUp ==
  \/ Feature("date", "date", TRUE, Yes, {"alloc", "services"}, "perf")
  \/ Feature("perf", "perf", mach.clock, Yes, {"alloc", "services"}, "exit")

\* efi_exit_boot_services of the UEFI build.
ExitBootServices ==
  /\ step = "exit" /\ services' = ~mach.uefi /\ Go("efi_mmap")
  /\ Rest /\ UNCHANGED <<offset, open, answers>>
EfiMemmap == Feature("efi_mmap", "efi_mmap", mach.uefi, Yes, {"alloc"}, "pagemap")

\* The map is cleaned up by the revision's rules and the page tables built:
\* the raw map first, then tables and a copy of the map are allocated.
Pagemap ==
  /\ step = "pagemap"
  /\ IF RawRefused THEN Panic /\ UNCHANGED open
     ELSE open' = AfterRaw /\ IF AfterRaw THEN Go("mp") ELSE Go("misuse")
  /\ Rest /\ UNCHANGED <<offset, services, answers>>

\* init_smp, and a stack for every processor but the first.
Mp == Feature("mp", "mp", mach.cpus > 0, [k |-> "cpus", v |-> mach.cpus], {"alloc"}, "memmap")

\* get_memmap closes the allocator, whether the map is asked for or not.
Memmap ==
  LET i == get_request("memmap")
  IN  /\ step = "memmap"
      /\ IF i # 0 /\ ~Uses({"alloc"}) THEN Go("misuse") /\ UNCHANGED <<answers, open>>
         ELSE /\ open' = FALSE /\ Go("spinup")
              /\ IF i # 0 THEN Answer(i, Yes) ELSE UNCHANGED answers
      /\ Rest /\ UNCHANGED <<offset, services>>

Spinup ==
  /\ step = "spinup" /\ Go("kernel")
  /\ Rest /\ UNCHANGED <<offset, open, services, answers>>

LimineNext ==
  \/ Load \/ BaseRevision \/ LoadRequests \/ SupportedModes \/ PagingMode \/ ExecutableFile \/ Executable
  \/ Tables \/ Stack \/ Modules \/ Framebuffer \/ WrapUp \/ ExitBootServices \/ EfiMemmap \/ Pagemap \/ Mp
  \/ Memmap \/ Spinup
LimineSpec == LimineInit /\ [][LimineNext]_limvars

----------------------------------------------------------------------------
(* Properties.                                                              *)

\* The tags that count: those before any end marker with no start marker
\* behind them, or one that is itself behind an end marker.
Counted ==
  {i \in DOMAIN image.tags :
     /\ \A j \in 1 .. i : Tag(j).k # "end"
     /\ \A j \in i .. Len(image.tags) : Tag(j).k = "start" => \E e \in 1 .. j : Tag(e).k = "end"}
\* The requests that count: of a section the first with its id.
Asked(i) ==
  /\ Tag(i).k = "req"
  /\ IF Listed THEN \E n \in DOMAIN image.section :
                      image.section[n] = i /\ \A m \in 1 .. n - 1 : Tag(image.section[m]).id # Tag(i).id
     ELSE i \in Counted

\* What the loader knows, and what it has for a request.
Features == {"paging", "entry", "info", "cmdline", "firmware", "address", "hhdm", "rsdp", "smbios", "efi_st", "dtb", "stack",
             "exec_file", "modules", "fb", "date", "perf", "efi_mmap", "mp", "memmap"}
Available(id) ==
  /\ id = "rsdp" => mach.rsdp
  /\ id = "smbios" => mach.smbios
  /\ id = "dtb" => mach.dtb
  /\ id \in {"efi_st", "efi_mmap"} => mach.uefi
  /\ id = "fb" => mach.fbs > 0
  /\ id = "mp" => mach.cpus > 0
  /\ id = "perf" => mach.clock
  /\ id = "modules" => Wanted # <<>>
Ignored(i) == Tag(i).id = "paging" /\ Tag(i).arg = [rev |-> 0, mode |-> 0, min |-> 0, max |-> 0]

\* It has been told the revision in force, and as supported only when it is.
Tells(revs) ==
  LET good == {i \in revs : Tag(i).n <= SUPPORTED_BASE_REVISION}
  IN  /\ (revs = {} => baserev = 0 /\ revtags = <<0, 0>>)
      /\ (revs # {} => revtags[1] \in revs /\ baserev <= Tag(revtags[1]).n)
      /\ (revtags[2] # 0 => revtags[2] \in good /\ (revtags[1] = revtags[2] => baserev = Tag(revtags[2]).n))
      /\ (revs = good /\ revs # {} => revtags[2] # 0)
RevisionTold == Tells({i \in Counted : Tag(i).k = "rev"})

\* It runs in a mode that the processor has and the configuration does not
\* forbid and, if it asked, between the least and the most it can do, and no
\* lower than the direct map or the configuration's MIN_PAGING_MODE calls for
\* unless it cannot do as much itself.  Without a request the mode is the
\* lowest, whatever those two call for.
ModeAgreed ==
  LET i == get_request("paging")
      q == Tag(i).arg
  IN  /\ mode <= mach.cpumax /\ mode <= mach.usermax
      /\ i # 0 /\ ~Ignored(i) =>
           /\ mode <= Most(q) /\ (q.rev >= 1 => mode >= q.min)
           /\ mode < mach.usermin => Most(q) < mach.usermin
           /\ mode < Needed(mach, baserev) => Most(q) < Needed(mach, baserev)

\* Once the executable runs: its requests that the loader knows and no others
\* are answered, each when the loader has what is asked for; it has been told
\* the revision; no module it needs is missing, and the mode is agreed.  No step
\* before used the allocator after it was closed or the firmware after its end.
\* This is about the BIOS build: with UEFI get_raw_memmap panics in the first
\* step (limine.c:442, pmm.s2.c:571), and no executable runs.
RequestsAnswered ==
  /\ step # "misuse"
  /\ step = "kernel" =>
       /\ \A i \in DOMAIN image.tags :
            (answers[i] # NotAnswered) <=> Asked(i) /\ Tag(i).id \in Features /\ Available(Tag(i).id) /\ ~Ignored(i)
       /\ \A n \in DOMAIN Wanted : Wanted[n].required => Wanted[n].name \in mach.files
       /\ RevisionTold /\ ModeAgreed
       /\ \A i \in DOMAIN answers : answers[i].k = "hhdm" => answers[i].v = "set"
=============================================================================
