----------------------------- MODULE MCDevices ------------------------------
(***************************************************************************)
(* What runs on the hardware, for TLC: the disk, the sound card, the        *)
(* interrupt controllers, the scheduler on the timer's interrupt, and the   *)
(* start of the other processors.  They share no state in the program       *)
(* either: a behaviour of this module is one of a part, chosen at the       *)
(* start; the other parts stay as they began.                               *)
(***************************************************************************)
EXTENDS Disk, Sound, Irq, MCTask, Smp

VARIABLE part

MCLba == 0 .. 2
File(ok, n, c, r) == [ok |-> ok, frames |-> n, ch |-> c, rate |-> r]
MCSounds == {File(FALSE, 1, 1, 48), File(TRUE, 2, 1, 48), File(TRUE, 5, 2, 48), File(TRUE, 4, 2, 24),
             File(TRUE, 0, 1, 48), File(TRUE, 30, 1, 48), File(TRUE, 3, 3, 48),
             File(TRUE, 3, 1, 0)}

-----------------------------------------------------------------------------
(* Processors, and the tables that name them.                               *)
Core(id, kind, ok, isa, how) == [id |-> id, kind |-> kind, ok |-> ok, isa |-> isa, how |-> how]
Lapic(id, ok)  == Core(id, 0, ok, "", "")
X2apic(id, ok) == Core(id, 9, ok, "", "")
Gicc(id, how)  == Core(id, 11, TRUE, "", how)
Hart(k, id, isa, how) == Core(id, k, TRUE, isa, how)
Machine(arch, t, bsp, k, c, b) == [arch |-> arch, table |-> t, bsp |-> bsp, kernelX2 |-> k, cpuX2 |-> c, biosX2 |-> b]
MCIds == 0 .. 4
MCMachines ==
  {Machine("x86", t, bsp, k, c, b) :
      t \in {<<Lapic(0, TRUE), Lapic(1, FALSE), Lapic(2, TRUE), X2apic(4, TRUE)>>, <<Lapic(1, TRUE), Lapic(0, TRUE), Lapic(2, TRUE)>>,
             <<X2apic(4, TRUE), X2apic(3, FALSE)>>},
      bsp \in {0, 4}, k \in BOOLEAN, c \in BOOLEAN, b \in BOOLEAN}
  \cup {Machine("acpi", <<Gicc(0, h), Gicc(1, h), Gicc(2, h)>>, 0, FALSE, FALSE, FALSE) : h \in {"psci", "park"}}
  \cup {Machine("dtb", t, 0, FALSE, FALSE, FALSE) :
      t \in {<<Gicc(0, "psci"), Gicc(1, "psci"), Gicc(2, "spin")>>, <<Gicc(1, "missing"), Gicc(0, "psci"), Gicc(2, "psci")>>}}
  \cup {Machine("riscv", t, 1, FALSE, FALSE, FALSE) :
      t \in {<<Hart(k, 0, "g", h), Hart(k, 1, "g", ""), Hart(k, 2, "m", ""), Hart(k, 4, "", ""), Hart(k, 3, "g", "")>> : k \in {24, 25}, h \in {"", "norhct"}}
            \cup {<<Hart(25, 0, "g", "")>>}}

-----------------------------------------------------------------------------
(* The parts together.                                                      *)
devvars == <<part, diskvars, soundvars, irqvars, vars, smpvars>>

DiskPart(A)  == part = "disk" /\ A /\ UNCHANGED <<part, soundvars, irqvars, vars, smpvars>>
SoundPart(A) == part = "sound" /\ A /\ UNCHANGED <<part, diskvars, irqvars, vars, smpvars>>
IrqPart(A)   == part = "irq" /\ A /\ UNCHANGED <<part, diskvars, soundvars, vars, smpvars>>
TaskPart(A)  == part = "task" /\ A /\ UNCHANGED <<part, diskvars, soundvars, irqvars, smpvars>>
SmpPart(A)   == part = "smp" /\ A /\ UNCHANGED <<part, diskvars, soundvars, irqvars, vars>>

AMachine == CHOOSE m \in Machines : TRUE
DevInit ==
  /\ part \in {"disk", "sound", "irq", "task", "smp"}
  /\ DiskInit /\ SoundInit /\ IrqInit /\ Init
  /\ SmpFrom(IF part = "smp" THEN Machines ELSE {AMachine})
DevNext == DiskPart(DiskNext) \/ SoundPart(SoundNext) \/ IrqPart(IrqNext) \/ TaskPart(Next) \/ SmpPart(SmpNext)

\* The fairness of the parts' own specifications.
DevSpec ==
  /\ DevInit /\ [][DevNext]_devvars
  /\ WF_devvars(DiskPart(Driver)) /\ WF_devvars(IrqPart(Cpu))
  /\ WF_devvars(SmpPart(BspNext))

-----------------------------------------------------------------------------
\* Whatever the hardware does, a call of the disk driver returns and every
\* interrupt is served.
DriversAnswer == CallReturns /\ IrqServed

\* As StartupEnds of Smp.tla, when it is the processors' start that runs.
ProcessorsStart == part = "smp" => StartupEnds
=============================================================================
