-------------------------------- MODULE Irq ---------------------------------
(***************************************************************************)
(* Interrupts and exceptions: the boot sequence of kmain from the IDT to    *)
(* sti, the dispatch of isr_common_handler with its acknowledgement, the    *)
(* two 8259 controllers (external) and the panic of an exception.           *)
(*                                                                          *)
(* A frame of the stack is a handler that has begun: its vector, the        *)
(* interrupt flag it returns to and its step.  Vectors below 32 are         *)
(* exceptions; 3 and 4 enter through trap gates and leave interrupts on.    *)
(***************************************************************************)
EXTENDS Integers, Sequences, FiniteSets, SequencesExt

CONSTANTS
  Lines,             \* interrupt lines that have a device
  Faults,            \* vectors of exceptions the kernel may raise
  MaxIrqs,           \* bound on the number of interrupts raised
  MaxFaults          \* bound on the number of exceptions

\* Line 2 is the slave's: no device has it.
ASSUME IrqAssumption == Lines \subseteq 0 .. 15 \ {2} /\ Faults \subseteq 0 .. 31 /\ {MaxIrqs, MaxFaults} \subseteq Nat

VARIABLES
  bootstep,  \* next step of the boot sequence
  masked,    \* lines the controllers hold back
  irr,       \* lines that ask
  inserv,    \* lines in service, not yet acknowledged; 2 is the slave's
  iflag,     \* the interrupt flag of the processor
  stack,     \* handlers that have begun, the innermost last
  handlers,  \* lines with a registered handler
  nesting,   \* handling_exception
  panic,     \* g_panic_info.vector, -1 before the first panic
  triggered, \* g_panic_triggered
  shown,     \* the vector on the screen of super_panic, -1 for no screen
  first,     \* history: the first exception, -1 for none
  halted, raised, faults

screen  == <<panic, triggered, shown>>
irqvars == <<bootstep, masked, irr, inserv, iflag, stack, handlers, nesting, screen, first, halted, raised, faults>>

Traps == {3, 4}                                   \* IDT_FLAG_TRAPGATE

IrqInit ==
  /\ bootstep = "idt" /\ masked = 0 .. 15 /\ irr = {} /\ inserv = {} /\ iflag = FALSE /\ stack = <<>>
  /\ handlers = {} /\ nesting = FALSE /\ panic = -1 /\ triggered = FALSE /\ shown = -1 /\ first = -1
  /\ halted = FALSE /\ raised = 0 /\ faults = 0

Running == ~halted /\ stack = <<>>

\* kmain: isr_install clears the table before the drivers register.
BootStep(from, to) ==
  /\ Running /\ bootstep = from /\ bootstep' = to
  /\ UNCHANGED <<irr, inserv, stack, nesting, screen, first, halted, raised, faults>>
isr_install == BootStep("idt", "drivers") /\ handlers' = {} /\ UNCHANGED <<masked, iflag>>

\* pit_init, keyboard_init and mouse_init register their handlers.
RegisterHandlers == BootStep("drivers", "unmask") /\ handlers' = {0, 1, 12} /\ UNCHANGED <<masked, iflag>>

\* Mutant: the line of the slave stays masked.
UnmaskNoCascade == BootStep("unmask", "sti") /\ masked' = masked \ {0, 1, 12} /\ UNCHANGED <<handlers, iflag>>

Unmask == BootStep("unmask", "sti") /\ masked' = masked \ {0, 1, 2, 12} /\ UNCHANGED <<handlers, iflag>>
Sti == BootStep("sti", "run") /\ iflag' = TRUE /\ UNCHANGED <<masked, handlers>>

----------------------------------------------------------------------------
(* The controllers (external).                                              *)

Raise(l) ==
  /\ raised < MaxIrqs /\ l \notin irr
  /\ irr' = irr \cup {l} /\ raised' = raised + 1
  /\ UNCHANGED <<bootstep, masked, inserv, iflag, stack, handlers, nesting, screen, first, halted, faults>>

\* The order of the lines: 0, 1, then those of the slave in the place of 2.
Rank(l) == IF l < 2 THEN l ELSE IF l > 7 THEN l - 6 ELSE l + 8
Better(l, k) == Rank(l) < Rank(k)
Open(l) ==
  /\ l \in irr \ masked /\ (l > 7 => 2 \notin masked)
  /\ \A k \in inserv \ {2} : Better(l, k)
  /\ \A k \in irr \ masked : k = l \/ Better(l, k)

Gate(v) == [v |-> v, if |-> iflag, step |-> "enter"]
Deliver(l) ==
  /\ ~halted /\ iflag /\ Open(l)
  /\ irr' = irr \ {l} /\ inserv' = inserv \cup {l} \cup (IF l > 7 THEN {2} ELSE {})
  /\ stack' = Append(stack, Gate(32 + l)) /\ iflag' = FALSE
  /\ UNCHANGED <<bootstep, masked, handlers, nesting, screen, first, halted, raised, faults>>

\* An exception, in whatever runs: in a handler and in the panic too.
Fault(v) ==
  /\ ~halted /\ faults < MaxFaults /\ bootstep # "idt"
  /\ stack' = Append(stack, Gate(v)) /\ first' = (IF first = -1 THEN v ELSE first) /\ faults' = faults + 1
  /\ iflag' = (iflag /\ v \in Traps)
  /\ UNCHANGED <<bootstep, masked, irr, inserv, handlers, nesting, screen, halted, raised>>

----------------------------------------------------------------------------
(* isr_common_handler.                                                      *)

Top == stack[Len(stack)]
Step(p) == [stack EXCEPT ![Len(stack)].step = p]

\* An interrupt or exception while handling_exception is set is taken for a
\* second panic: panic_handle_s.
NestedPanic ==
  /\ ~halted /\ stack # <<>> /\ Top.step = "enter" /\ nesting /\ stack' = Step("record")
  /\ UNCHANGED <<bootstep, masked, irr, inserv, iflag, handlers, nesting, screen, first, halted, raised, faults>>

CallHandler ==
  /\ ~halted /\ stack # <<>> /\ Top.step = "enter" /\ ~nesting
  /\ stack' = Step(IF Top.v < 32 THEN "panic" ELSE "eoi")
  /\ UNCHANGED <<bootstep, masked, irr, inserv, iflag, handlers, nesting, screen, first, halted, raised, faults>>

\* The line of the highest rank in service, which a plain EOI clears.
Served(set) == IF set = {} THEN {} ELSE {CHOOSE l \in set : \A k \in set : k = l \/ Better(l, k)}

\* Mutant: the slave is not told.
EoiMaster(l) == inserv \ Served(inserv \cap ({0, 1, 2} \cup 3 .. 7))

pic_eoi(l) ==
  LET slave == IF l > 7 THEN Served({k \in inserv : k > 7}) ELSE {}
      rest  == inserv \ slave
  IN  rest \ Served(rest \cap 0 .. 7)

IrqReturn ==
  /\ ~halted /\ stack # <<>> /\ Top.step = "eoi"
  /\ inserv' = pic_eoi(Top.v - 32)
  /\ iflag' = Top.if /\ stack' = Front(stack)
  /\ UNCHANGED <<bootstep, masked, irr, handlers, nesting, screen, first, halted, raised, faults>>

PanicBegin ==
  /\ ~halted /\ stack # <<>> /\ Top.step = "panic" /\ nesting' = TRUE /\ stack' = Step("record")
  /\ UNCHANGED <<bootstep, masked, irr, inserv, iflag, handlers, screen, first, halted, raised, faults>>

\* panic_handle and panic_handle_s: the record is overwritten, the screen is
\* the first panic's, if there is a framebuffer and a font; then cli; hlt.
PanicRecord(can_draw) ==
  /\ ~halted /\ stack # <<>> /\ Top.step = "record"
  /\ panic' = Top.v /\ triggered' = TRUE
  /\ LET draw == ~triggered /\ can_draw IN
       /\ stack' = (IF draw THEN Step("draw") ELSE stack)
       /\ halted' = ~draw /\ iflag' = (iflag /\ draw)
  /\ UNCHANGED <<bootstep, masked, irr, inserv, handlers, nesting, shown, first, raised, faults>>

\* super_panic has drawn what the record holds.
PanicEnd ==
  /\ ~halted /\ stack # <<>> /\ Top.step = "draw"
  /\ shown' = panic /\ halted' = TRUE /\ iflag' = FALSE
  /\ UNCHANGED <<bootstep, masked, irr, inserv, stack, handlers, nesting, panic, triggered, first, raised, faults>>

Cpu == isr_install \/ RegisterHandlers \/ Unmask \/ Sti \/ NestedPanic \/ CallHandler \/ IrqReturn
       \/ PanicBegin \/ (\E can_draw \in BOOLEAN : PanicRecord(can_draw)) \/ PanicEnd
       \/ \E l \in Lines : Deliver(l)
IrqNext == Cpu \/ (\E l \in Lines : Raise(l)) \/ (\E v \in Faults : Fault(v))
IrqSpec == IrqInit /\ [][IrqNext]_irqvars /\ WF_irqvars(Cpu)

----------------------------------------------------------------------------
\* A line that was served is acknowledged on the controllers that hold it: with
\* no handler running nothing is left in service, which would block the line
\* and all after it for good.
AllAcknowledged == stack = <<>> => inserv = {}

\* Exceptions that another handler has come over before they were recorded.
Overtaken == {i \in 1 .. Len(stack) - 1 : stack[i].v < 32 /\ stack[i].step # "draw"}

\* A panic screen names the exception that came first, and so does the record
\* it was drawn from: an exception while the screen is drawn overwrites the
\* record (panic_handle_s) but draws no screen of its own.  Excepted is an
\* exception that is overtaken on its way from the gate to its record: by a
\* second exception, or, as the trap gates of breakpoint and overflow leave
\* interrupts on, by a timer tick once handling_exception is set.
PanicNamesFirst == shown # -1 /\ Overtaken = {} => shown = first /\ panic = first

\* No interrupt is served before its driver has registered (kmain's order).
ServedByDriver == \A i \in 1 .. Len(stack) : stack[i].v > 31 => stack[i].v - 32 \in handlers

\* The three together.
IrqSound == AllAcknowledged /\ PanicNamesFirst /\ ServedByDriver

\* Every interrupt a device raises is served, unless the kernel panics.
IrqServed == \A l \in Lines : l \in irr ~> (l \notin irr \/ halted)
=============================================================================
