------------------------------- MODULE Mouse -------------------------------
(***************************************************************************)
(* kernel/mouse.c and the use kmain's loop makes of it.  A PS/2 mouse sends *)
(* packets of three bytes, each with an interrupt; bytes can be lost        *)
(* between the controller and the handler.  The loop reads buttons and      *)
(* position with interrupts on and takes the left button's edges for        *)
(* clicks.                                                                  *)
(***************************************************************************)
EXTENDS Integers, Sequences

CONSTANTS
  screen_w, screen_h,
  Moves,           \* the movements a packet reports, each in -128 .. 127
  MaxDrops         \* bound: bytes lost

ASSUME MouseAssumption ==
  /\ {screen_w, screen_h} \subseteq Nat \ {0} /\ MaxDrops \in Nat
  /\ Moves \subseteq -128 .. 127

VARIABLES
  wire,            \* bytes of the packet that are still to come
  drops,           \* bytes that may still be lost
  mouse_cycle, mouse_bytes, mouse_x, mouse_y,
  prev_btn,        \* kmain: the buttons of the last round
  truth,           \* history: where the packets have taken the pointer
  edge, phantom    \* history: left button pressed since the last click;
                   \* a click without that

driver == <<mouse_cycle, mouse_bytes, mouse_x, mouse_y>>
mousevars == <<wire, drops, driver, prev_btn, truth, edge, phantom>>

Byte == 0 .. 255
Int8(b)   == IF b >= 128 THEN b - 256 ELSE b
Bit3(b)   == (b \div 8) % 2 = 1
Left(b)   == b % 2
ToByte(m) == m % 256

\* mouse_init.
MouseInit ==
  /\ wire = <<>> /\ drops = MaxDrops /\ mouse_cycle = 0 /\ mouse_bytes = <<0, 0, 0>>
  /\ mouse_x = screen_w \div 2 /\ mouse_y = screen_h \div 2
  /\ prev_btn = 0 /\ truth = <<mouse_x, mouse_y>> /\ edge = FALSE /\ phantom = FALSE

---------------------------------------------------------------------------

Clamp(v, size) == IF v < 0 THEN 0 ELSE IF v >= size THEN size - 1 ELSE v

\* The mouse reports a movement and the left button.
Packet(l, dx, dy) ==
  /\ wire = <<>>
  /\ wire' = <<8 + l + (IF dx < 0 THEN 16 ELSE 0) + (IF dy < 0 THEN 32 ELSE 0), ToByte(dx), ToByte(dy)>>
  /\ truth' = IF drops < MaxDrops THEN truth
              ELSE LET x == truth[1] + dx
                       y == truth[2] - dy
                   IN  <<IF x < 0 THEN 0 ELSE IF x >= screen_w THEN screen_w - 1 ELSE x,
                         IF y < 0 THEN 0 ELSE IF y >= screen_h THEN screen_h - 1 ELSE y>>
  /\ UNCHANGED <<drops, driver, prev_btn, edge, phantom>>

\* A byte does not reach the handler.
Drop ==
  /\ wire # <<>> /\ drops > 0 /\ drops' = drops - 1 /\ wire' = Tail(wire)
  /\ UNCHANGED <<driver, prev_btn, truth, edge, phantom>>

\* "Sync to packet start: first byte must have bit 3 set."
Accepts(b) == mouse_cycle # 0 \/ Bit3(b)

\* The third byte completes a packet.
Move(bytes) ==
  /\ mouse_x' = Clamp(mouse_x + Int8(bytes[2]), screen_w)
  /\ mouse_y' = Clamp(mouse_y - Int8(bytes[3]), screen_h)

mouse_irq_handler ==
  /\ wire # <<>> /\ wire' = Tail(wire)
  /\ LET data  == Head(wire)
         bytes == [mouse_bytes EXCEPT ![mouse_cycle + 1] = data]
     IN  IF Accepts(data)
         THEN /\ mouse_bytes' = bytes /\ mouse_cycle' = (mouse_cycle + 1) % 3
              /\ IF mouse_cycle = 2 THEN Move(bytes) ELSE UNCHANGED <<mouse_x, mouse_y>>
              /\ edge' = (edge \/ (mouse_cycle = 0 /\ Left(data) = 1 /\ Left(mouse_bytes[1]) = 0))
         ELSE UNCHANGED <<driver, edge>>
  /\ UNCHANGED <<drops, prev_btn, truth, phantom>>

\* Mutant: the buttons of the last round are not kept.
RoundForgets ==
  /\ prev_btn' = 0
  /\ IF Left(mouse_bytes[1]) = 1 /\ prev_btn = 0
       THEN edge' = FALSE /\ phantom' = (phantom \/ ~edge) ELSE UNCHANGED <<edge, phantom>>
  /\ UNCHANGED <<wire, drops, driver, truth>>

\* A round of kmain's loop: a click is left button now and not last time.
Round ==
  /\ prev_btn' = Left(mouse_bytes[1])
  /\ IF Left(mouse_bytes[1]) = 1 /\ prev_btn = 0
       THEN edge' = FALSE /\ phantom' = (phantom \/ ~edge) ELSE UNCHANGED <<edge, phantom>>
  /\ UNCHANGED <<wire, drops, driver, truth>>

MouseNext ==
  \/ \E l \in {0, 1}, dx, dy \in Moves : Packet(l, dx, dy)
  \/ Drop \/ mouse_irq_handler \/ Round

\* Interrupts are served.
MouseSpec == MouseInit /\ [][MouseNext]_mousevars /\ WF_mousevars(mouse_irq_handler)

---------------------------------------------------------------------------
\* The pointer is on the screen, whatever bytes are lost or taken for
\* others; the desktop indexes the framebuffer with it.
PointerOnScreen == mouse_x \in 0 .. screen_w - 1 /\ mouse_y \in 0 .. screen_h - 1

\* As long as no byte is lost, the pointer is where the movements of the
\* complete packets have taken it.
PointerTracks ==
  drops = MaxDrops /\ wire = <<>> => mouse_cycle = 0 /\ <<mouse_x, mouse_y>> = truth

\* The loop sees no click that the left button's byte has not made: each
\* press is at most one click, however rounds and interrupts interleave.
NoPhantomClick == ~phantom

\* The three together, for every loss of bytes and every interleaving.
MouseSound == PointerOnScreen /\ PointerTracks /\ NoPhantomClick

\* After a lost byte the driver falls into step again while packets keep
\* coming, if no movement byte can be taken for a first byte.
Resyncs ==
  (\A m \in Moves : ~Bit3(ToByte(m))) /\ []<>(wire = <<>>) /\ []<>(wire # <<>>)
    => []<>(wire = <<>> /\ mouse_cycle = 0)
=============================================================================
