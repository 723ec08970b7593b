--------------------------------- MODULE Smp --------------------------------
(***************************************************************************)
(* Starting the other processors: sys/smp.c with its trampolines, the       *)
(* local APIC of sys/lapic.c, mm/mtrr.c and the harts of sys/cpu_riscv.c.   *)
(* The boot processor fills in one block of parameters (passed_info),       *)
(* starts one processor with it, waits a bounded time for its flag, and     *)
(* goes on to the next with the same block.  A processor that is slow reads *)
(* the block when it is about another one.                                  *)
(*                                                                          *)
(* A machine is the list of processors its tables give.  Addresses are the  *)
(* numbers of the places in the array of limine_mp_info.                    *)
(***************************************************************************)
EXTENDS Integers, Sequences, FiniteSets

CONSTANTS
  Machines,     \* [arch, table, bsp, kernelX2, cpuX2, biosX2]; table: a sequence of [id, kind, ok, isa, how]
  Ids,          \* processors
  LapicIds,     \* how many ids the 8 bits of a local APIC hold
  MaxPolls

VARIABLES
  mach, bp,           \* the machine; where the boot processor is
  x2apic, harts, row, \* the mode used, hart_list, the entry looked at
  info, cpu_count,    \* ret[]: the ids written; *cpu_count
  tpl,                \* passed_info: [flag, slot, whole, adds]
  polls, mtrrs,       \* polls so far; saved_mtrrs is set
  ap, place, synced,  \* per processor: its state, the place it waits on, its MTRRs are the boot processor's
  late                \* history: a processor ran when it was no longer waited for

smpvars == <<mach, bp, x2apic, harts, row, info, cpu_count, tpl, polls, mtrrs, ap, place, synced, late>>
bpvars  == <<mach, x2apic, harts, info, cpu_count, polls, mtrrs>>
apvars  == <<ap, place, synced, late>>

X86 == mach.arch = "x86"
Nowhere == -1

----------------------------------------------------------------------------
(* What is in the tables.                                                   *)

\* init_riscv: the harts in the order of hart_list, newest first, without
\* those that have no instruction set string (RHCT must know the ones of
\* ACPI); one whose string is not the boot processor's is a coprocessor.
ListedAcpi(e) == e.kind = 24 /\ e.ok /\ e.isa # ""
ListedNode(e) == e.kind = 25 /\ e.ok /\ e.isa # ""
HartList(t) == SelectSeq([n \in DOMAIN t |-> t[Len(t) + 1 - n]], LAMBDA e : ListedAcpi(e) \/ ListedNode(e))
Unknown(t) == \E n \in DOMAIN t : t[n].kind = 24 /\ t[n].ok /\ t[n].how = "norhct"
Coproc(e, t) == \E b \in DOMAIN t : t[b].id = mach.bsp /\ t[b].isa # e.isa

\* The entries that are counted, and later tried: a local APIC that is enabled
\* or can be, an x2APIC only in that mode; a GIC interface, a cpu node and a
\* hart that can be used.
LapicUsable(e, x2) == e.ok /\ (e.kind = 0 \/ x2)
GiccUsable(e) == e.ok
NodeUsable(e) == e.ok
HartUsable(e) == ~Coproc(e, harts)
Startable(e, x2) ==
  CASE mach.arch = "x86"   -> LapicUsable(e, x2)
    [] mach.arch = "acpi"  -> GiccUsable(e)
    [] mach.arch = "dtb"   -> NodeUsable(e)
    [] mach.arch = "riscv" -> HartUsable(e)
MaxCpus(x2) == Cardinality({n \in DOMAIN harts : Startable(harts[n], x2)})

\* The id of the boot processor as the entry has it: eight bits of it in an
\* entry for a local APIC.
IsBsp(e) == e.id = IF X86 /\ e.kind = 0 THEN mach.bsp % LapicIds ELSE mach.bsp
Cur == harts[row]

\* The firmware's tables, and the list made of them, name each processor once.
Entry == [id : Ids, kind : Nat, ok : BOOLEAN, isa : STRING, how : STRING]
Roster(t) == t \in Seq(Entry) /\ \A i, j \in 1 .. Len(t) : t[i].id = t[j].id => i = j
ASSUME SmpAssumption ==
  /\ LapicIds \in Nat \ {0} /\ MaxPolls \in Nat \ {0}
  /\ \A m \in Machines : m.arch \in {"x86", "acpi", "dtb", "riscv"} /\ Roster(m.table) /\ Roster(HartList(m.table))

----------------------------------------------------------------------------
(* The boot processor.                                                      *)

SmpFrom(machines) ==
  /\ mach \in machines /\ bp = "begin" /\ x2apic = FALSE /\ harts = <<>> /\ row = 1
  /\ info = <<>> /\ cpu_count = 0 /\ tpl = [flag |-> FALSE, slot |-> 0, whole |-> TRUE, adds |-> 0]
  /\ polls = 0 /\ mtrrs = FALSE
  /\ ap = [c \in Ids |-> "off"] /\ place = [c \in Ids |-> Nowhere] /\ synced = [c \in Ids |-> FALSE] /\ late = FALSE
SmpInit == SmpFrom(Machines)

\* x86: a machine already in x2APIC mode needs a kernel for it.
ReadMadt ==
  /\ bp = "begin" /\ X86 /\ harts' = mach.table
  /\ x2apic' = (mach.kernelX2 /\ mach.cpuX2)
  /\ bp' = IF mach.biosX2 /\ ~mach.kernelX2 THEN "panic" ELSE "count"
  /\ UNCHANGED <<mach, row, info, cpu_count, tpl, polls, mtrrs, apvars>>
\* arm: the processors of ACPI, or of the device tree where there is no ACPI.
ReadArm ==
  /\ bp = "begin" /\ mach.arch \in {"acpi", "dtb"} /\ harts' = mach.table /\ bp' = "count"
  /\ UNCHANGED <<mach, x2apic, row, info, cpu_count, tpl, polls, mtrrs, apvars>>
\* riscv: the boot hart must be among them.
init_riscv ==
  /\ bp = "begin" /\ mach.arch = "riscv" /\ harts' = HartList(mach.table)
  /\ bp' = IF ~Unknown(mach.table) /\ \E n \in DOMAIN harts' : harts'[n].id = mach.bsp THEN "count" ELSE "panic"
  /\ UNCHANGED <<mach, x2apic, row, info, cpu_count, tpl, polls, mtrrs, apvars>>

\* The array is allocated for as many as can be started; the MTRRs are saved.
CountCpus ==
  /\ bp = "count"
  /\ info' = [n \in 1 .. MaxCpus(x2apic) |-> Nowhere]
  /\ bp' = IF X86 /\ MaxCpus(x2apic) = 0 THEN "none" ELSE "entry"
  /\ mtrrs' = (X86 /\ MaxCpus(x2apic) # 0)
  /\ UNCHANGED <<mach, x2apic, harts, row, cpu_count, tpl, polls, apvars>>

SkipCpu ==
  /\ bp = "entry" /\ row <= Len(harts) /\ ~Startable(Cur, x2apic)
  /\ row' = row + 1 /\ UNCHANGED <<bpvars, bp, tpl, apvars>>

\* The next place gets the id; the boot processor's entry is only counted.
CountBsp ==
  /\ bp = "entry" /\ row <= Len(harts) /\ Startable(Cur, x2apic) /\ IsBsp(Cur)
  /\ info' = [info EXCEPT ![cpu_count + 1] = Cur.id] /\ cpu_count' = cpu_count + 1 /\ row' = row + 1
  /\ UNCHANGED <<mach, bp, x2apic, harts, tpl, polls, mtrrs, apvars>>

\* Mutant: the block is filled in with the place of the entry in the table.
FillAtEntry == tpl' = [flag |-> FALSE, slot |-> row, whole |-> TRUE, adds |-> 0] /\ polls' = 0

\* smp_start_ap: the block is about the processor that is started next.
Fill == tpl' = [flag |-> FALSE, slot |-> cpu_count + 1, whole |-> TRUE, adds |-> 0] /\ polls' = 0
Candidate ==
  /\ bp = "entry" /\ row <= Len(harts) /\ Startable(Cur, x2apic) /\ ~IsBsp(Cur)
  /\ info' = [info EXCEPT ![cpu_count + 1] = Cur.id]
  /\ UNCHANGED <<mach, x2apic, harts, cpu_count, mtrrs, apvars>>
PrepareLapic == X86 /\ Candidate /\ Fill /\ bp' = "init" /\ UNCHANGED row
\* The ACPI parking protocol is the end.
PrepareGicc ==
  /\ mach.arch = "acpi" /\ Candidate /\ Fill /\ bp' = (IF Cur.how = "park" THEN "panic" ELSE "start") /\ UNCHANGED row
\* A node without a method is passed over, with its id already in the place.
PrepareNode ==
  /\ mach.arch = "dtb" /\ Candidate
  /\ IF Cur.how = "missing" THEN bp' = "entry" /\ row' = row + 1 /\ UNCHANGED <<tpl, polls>>
     ELSE Fill /\ bp' = "start" /\ UNCHANGED row
PrepareHart == mach.arch = "riscv" /\ Candidate /\ Fill /\ bp' = "start" /\ UNCHANGED row

\* x86: INIT stops the processor where it is, the start-up message starts it.
SendInit ==
  /\ bp = "init" /\ bp' = "sipi"
  /\ ap' = [ap EXCEPT ![Cur.id] = "reset"] /\ place' = [place EXCEPT ![Cur.id] = Nowhere]
  /\ UNCHANGED <<bpvars, row, tpl, synced, late>>
Started == ap' = [ap EXCEPT ![Cur.id] = IF @ \in {"off", "reset"} THEN "go" ELSE @] /\ bp' = "poll" /\ UNCHANGED <<bpvars, row, tpl, place, synced, late>>
SendStartup == bp = "sipi" /\ Started
\* The release address, a call of PSCI, a call of SBI; a call may be refused.
Release  == bp = "start" /\ mach.arch \in {"acpi", "dtb"} /\ Cur.how = "spin" /\ Started
PsciCall == bp = "start" /\ mach.arch \in {"acpi", "dtb"} /\ Cur.how = "psci" /\ Started
SbiCall  == bp = "start" /\ mach.arch = "riscv" /\ Started
Refused ==
  /\ bp = "start" /\ Cur.how # "spin"
  /\ bp' = "entry" /\ row' = row + 1 /\ UNCHANGED <<bpvars, tpl, apvars>>

Answered ==
  /\ bp = "poll" /\ tpl.flag
  /\ cpu_count' = cpu_count + 1 /\ row' = row + 1 /\ bp' = "entry"
  /\ UNCHANGED <<mach, x2apic, harts, info, tpl, polls, mtrrs, apvars>>
\* Mutant: the polls are not counted.
PollForever ==
  /\ bp = "poll" /\ ~tpl.flag
  /\ UNCHANGED <<mach, bp, x2apic, harts, row, info, cpu_count, tpl, polls, mtrrs, apvars>>

PollFlag ==
  /\ bp = "poll" /\ ~tpl.flag /\ polls < MaxPolls /\ polls' = polls + 1
  /\ UNCHANGED <<mach, bp, x2apic, harts, row, info, cpu_count, tpl, mtrrs, apvars>>
GiveUpOn ==
  /\ bp = "poll" /\ ~tpl.flag /\ polls = MaxPolls
  /\ row' = row + 1 /\ bp' = "entry" /\ UNCHANGED <<bpvars, tpl, apvars>>

SmpFinish ==
  /\ bp = "entry" /\ row > Len(harts)
  /\ bp' = IF X86 /\ cpu_count = 0 THEN "none" ELSE "done"
  /\ UNCHANGED <<bpvars, row, tpl, apvars>>

----------------------------------------------------------------------------
(* The trampoline, on processor c.                                          *)

Waited(c) == bp = "poll" /\ Cur.id = c

\* The descriptor table, the mode and the page map are loaded: a block that
\* another processor has written to sends this one astray.  The other
\* architectures take the place now.
ApLoad(c) ==
  /\ ap[c] = "go"
  /\ ap' = [ap EXCEPT ![c] = IF X86 /\ (tpl.adds # 0 \/ ~tpl.whole) THEN "lost" ELSE "loaded"]
  /\ place' = IF X86 THEN place ELSE [place EXCEPT ![c] = tpl.slot]
  /\ late' = (late \/ ~Waited(c)) /\ UNCHANGED <<bpvars, bp, row, tpl, synced>>

\* x86: the descriptor table's address is moved to the direct map, in the
\* block; the MTRRs are set; the place is read.
ApPlace(c) ==
  /\ X86 /\ ap[c] = "loaded" /\ place[c] = Nowhere
  /\ tpl' = [tpl EXCEPT !.adds = @ + 1]
  /\ ap' = [ap EXCEPT ![c] = IF tpl.adds # 0 THEN "lost" ELSE @]
  /\ place' = IF tpl.adds # 0 THEN place ELSE [place EXCEPT ![c] = tpl.slot]
  /\ synced' = [synced EXCEPT ![c] = mtrrs]
  /\ late' = (late \/ ~Waited(c)) /\ UNCHANGED <<bpvars, bp, row>>

\* The flag; on x86 the four bytes written are the flag's, the mode's and two
\* of the page map's.
ApFlag(c) ==
  /\ ap[c] = "loaded" /\ place[c] # Nowhere
  /\ tpl' = [tpl EXCEPT !.flag = TRUE, !.whole = ~X86]
  /\ ap' = [ap EXCEPT ![c] = "parked"]
  /\ late' = (late \/ ~Waited(c)) /\ UNCHANGED <<bpvars, bp, row, place, synced>>

\* The kernel writes a goto_address; the processors waiting on it go.
KernelGo(k) ==
  /\ bp = "done" /\ k <= cpu_count
  /\ \E c \in Ids : ap[c] = "parked" /\ place[c] = k
  /\ ap' = [c \in Ids |-> IF ap[c] = "parked" /\ place[c] = k THEN "kernel" ELSE ap[c]]
  /\ UNCHANGED <<bpvars, bp, row, tpl, place, synced, late>>

BspNext == \/ ReadMadt \/ ReadArm \/ init_riscv \/ CountCpus \/ SkipCpu \/ CountBsp
           \/ PrepareLapic \/ PrepareGicc \/ PrepareNode \/ PrepareHart
           \/ SendInit \/ SendStartup \/ Release \/ PsciCall \/ SbiCall \/ Refused
           \/ Answered \/ PollFlag \/ GiveUpOn \/ SmpFinish
ApNext  == \E c \in Ids : ApLoad(c) \/ ApPlace(c) \/ ApFlag(c)
SmpNext == BspNext \/ ApNext \/ \E k \in DOMAIN info : KernelGo(k)
SmpSpec == SmpInit /\ [][SmpNext]_smpvars /\ WF_smpvars(BspNext)

----------------------------------------------------------------------------
(* Properties.                                                              *)

\* An entry that the boot processor takes for itself without being it.
Alias(k) == X86 /\ info[k] # mach.bsp /\ info[k] = mach.bsp % LapicIds

\* Every place handed to the kernel is inside the array, and the processor
\* that waits on it is the one whose id stands there, with the boot
\* processor's MTRRs; no other waits on it, and none on a place that is not
\* handed over.  This holds as long as no processor runs after it was given
\* up, and for ids the eight bits tell apart.
OwnPlace ==
  /\ cpu_count <= Len(info)
  /\ bp = "done" /\ ~late =>
       /\ \A k \in 1 .. cpu_count :
            \/ info[k] = mach.bsp \/ Alias(k)
            \/ \A c \in Ids : place[c] = k /\ ap[c] \in {"parked", "kernel"} <=> c = info[k]
       /\ \A c \in Ids : ap[c] \in {"parked", "kernel"} => place[c] \in 1 .. cpu_count /\ (X86 => synced[c])

\* Starting the processors ends, whatever they do: a dead or slow one is
\* given up after a bounded number of polls.
StartupEnds == <>(bp \in {"done", "none", "panic"})
=============================================================================
