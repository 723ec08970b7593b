---------------------------- MODULE InputProofs -----------------------------
(***************************************************************************)
(* The mouse and the keyboard for every screen, every set of keys, any      *)
(* number of lost bytes and any interleaving of the interrupt handlers with *)
(* kmain's loop.                                                            *)
(***************************************************************************)
EXTENDS Keyboard, Mouse, FiniteSetTheorems, SequenceTheorems, TLAPS

----------------------------------------------------------------------------
(* The mouse.  While no byte is lost, the bytes still on the wire are the   *)
(* ones the driver has not seen of the packet, so that the position the     *)
(* packet leads to can be told from the driver's and the wire's state.      *)

MouseTypes ==
  /\ wire \in Seq(Byte) /\ Len(wire) <= 3 /\ drops \in 0 .. MaxDrops
  /\ mouse_cycle \in 0 .. 2 /\ mouse_bytes \in [1 .. 3 -> Byte]
  /\ prev_btn \in {0, 1} /\ edge \in BOOLEAN /\ phantom \in BOOLEAN

\* Where a packet with these movement bytes takes the pointer.
Target(bx, by) == <<Clamp(mouse_x + Int8(bx), screen_w), Clamp(mouse_y - Int8(by), screen_h)>>

InStep ==
  drops = MaxDrops =>
    /\ Len(wire) = 0 => mouse_cycle = 0 /\ truth = <<mouse_x, mouse_y>>
    /\ Len(wire) = 3 => mouse_cycle = 0 /\ Bit3(wire[1]) /\ truth = Target(wire[2], wire[3])
    /\ Len(wire) = 2 => mouse_cycle = 1 /\ truth = Target(wire[1], wire[2])
    /\ Len(wire) = 1 => mouse_cycle = 2 /\ truth = Target(mouse_bytes[2], wire[1])

\* A press that the loop has not seen is an edge it may still take.
PressIsEdge == Left(mouse_bytes[1]) = 1 /\ prev_btn = 0 => edge

MouseInv == MouseTypes /\ PointerOnScreen /\ InStep /\ PressIsEdge /\ ~phantom

\* A coordinate that is clamped is on the screen.
LEMMA ClampRange ==
  ASSUME NEW v \in Int, NEW size \in Nat \ {0} PROVE Clamp(v, size) \in 0 .. size - 1
  BY DEF Clamp

\* The movement survives its encoding as a byte.
LEMMA MoveByte ==
  ASSUME NEW m \in -128 .. 127 PROVE ToByte(m) \in Byte /\ Int8(ToByte(m)) = m
  BY DEF ToByte, Byte, Int8

LEMMA ByteRange == ASSUME NEW b \in Byte PROVE Int8(b) \in Int /\ Left(b) \in {0, 1}
  BY DEF Int8, Byte, Left

LEMMA MouseStarts == MouseInit => MouseInv
<1> SUFFICES ASSUME MouseInit PROVE MouseInv
  OBVIOUS
<1> USE MouseAssumption
<1>1. MouseTypes
  <2>1. 0 \in Byte /\ <<0, 0, 0>> \in [1 .. 3 -> Byte]
    BY DEF Byte
  <2>2. wire \in Seq(Byte) /\ Len(wire) <= 3 /\ drops \in 0 .. MaxDrops /\ mouse_cycle \in 0 .. 2
    BY DEF MouseInit
  <2> QED
    BY <2>1, <2>2 DEF MouseInit, MouseTypes
<1>2. PointerOnScreen
  BY DEF MouseInit, PointerOnScreen
<1>3. InStep /\ PressIsEdge /\ ~phantom
  BY DEF MouseInit, InStep, PressIsEdge, Left
<1> QED
  BY <1>1, <1>2, <1>3 DEF MouseInv

\* The mouse sends a packet: the driver has to be at the start of one.
LEMMA PacketStep ==
  ASSUME MouseInv, NEW l \in {0, 1}, NEW dx \in Moves, NEW dy \in Moves, Packet(l, dx, dy)
  PROVE  MouseInv'
<1> USE MouseAssumption
<1> DEFINE b1 == 8 + l + (IF dx < 0 THEN 16 ELSE 0) + (IF dy < 0 THEN 32 ELSE 0)
<1>1. /\ dx \in -128 .. 127 /\ dy \in -128 .. 127
      /\ ToByte(dx) \in Byte /\ ToByte(dy) \in Byte /\ Int8(ToByte(dx)) = dx /\ Int8(ToByte(dy)) = dy
  BY MoveByte
<1>2. b1 \in Byte /\ Bit3(b1)
  BY <1>1 DEF Byte, Bit3
<1>3. wire' = <<b1, ToByte(dx), ToByte(dy)>> /\ UNCHANGED <<drops, driver, prev_btn, edge, phantom>>
  BY DEF Packet
<1> HIDE DEF b1
<1>4. MouseTypes'
  BY <1>1, <1>2, <1>3 DEF MouseInv, MouseTypes, driver
<1>5. PointerOnScreen' /\ PressIsEdge' /\ ~phantom'
  BY <1>3 DEF MouseInv, PointerOnScreen, PressIsEdge, driver
<1>6. InStep'
  <2> SUFFICES ASSUME drops' = MaxDrops PROVE mouse_cycle' = 0 /\ truth' = Target(wire[2], wire[3])'
    BY <1>2, <1>3 DEF InStep
  <2>1. mouse_cycle = 0 /\ truth = <<mouse_x, mouse_y>>
    BY <1>3 DEF MouseInv, InStep, Packet
  <2>2. truth' = <<Clamp(mouse_x + dx, screen_w), Clamp(mouse_y - dy, screen_h)>>
    BY <2>1, <1>3 DEF Packet, Clamp
  <2> QED
    BY <1>1, <1>3, <2>1, <2>2 DEF Target, driver
<1> QED
  BY <1>4, <1>5, <1>6 DEF MouseInv

\* A lost byte: from here on only the screen and the clicks are promised.
LEMMA DropStep == ASSUME MouseInv, Drop PROVE MouseInv'
<1> USE MouseAssumption
<1>1. MouseTypes' /\ drops' < MaxDrops
  BY DEF MouseInv, MouseTypes, Drop, driver
<1>2. PointerOnScreen' /\ PressIsEdge' /\ ~phantom'
  BY DEF MouseInv, Drop, PointerOnScreen, PressIsEdge, driver
<1> QED
  BY <1>1, <1>2 DEF MouseInv, InStep

LEMMA RoundStep == ASSUME MouseInv, Round PROVE MouseInv'
<1>1. Left(mouse_bytes[1]) \in {0, 1}
  BY ByteRange DEF MouseInv, MouseTypes
<1>2. MouseTypes'
  BY <1>1 DEF MouseInv, MouseTypes, Round, driver
<1>3. PointerOnScreen' /\ InStep'
  BY DEF MouseInv, Round, PointerOnScreen, InStep, Target, driver
<1>4. PressIsEdge' /\ ~phantom'
  BY <1>1 DEF MouseInv, MouseTypes, Round, PressIsEdge, driver
<1> QED
  BY <1>2, <1>3, <1>4 DEF MouseInv

\* A byte reaches the driver.
LEMMA HandlerStep == ASSUME MouseInv, mouse_irq_handler PROVE MouseInv'
<1> USE MouseAssumption
<1> DEFINE data  == Head(wire)
           bytes == [mouse_bytes EXCEPT ![mouse_cycle + 1] = data]
<1>1. /\ wire # <<>> /\ wire' = Tail(wire) /\ wire \in Seq(Byte) /\ data = wire[1] /\ data \in Byte
      /\ UNCHANGED <<drops, prev_btn, truth, phantom>>
  BY DEF mouse_irq_handler, MouseInv, MouseTypes
<1>t. /\ Len(wire) \in Nat \ {0} /\ Len(wire') = Len(wire) - 1
      /\ \A i \in 1 .. Len(wire') : wire'[i] = wire[i + 1]
  BY <1>1, HeadTailProperties, EmptySeq
<1>2. CASE ~Accepts(data)
  <2>1. UNCHANGED <<driver, edge>>
    BY <1>2 DEF mouse_irq_handler
  <2>2. MouseTypes' /\ PointerOnScreen' /\ PressIsEdge' /\ ~phantom'
    BY <1>1, <2>1 DEF MouseInv, MouseTypes, PointerOnScreen, PressIsEdge, driver
  <2>3. InStep'
    BY <1>1, <1>2, <2>1 DEF MouseInv, MouseTypes, InStep, Accepts
  <2> QED
    BY <2>2, <2>3 DEF MouseInv
<1>3. CASE Accepts(data)
  <2>1. /\ mouse_bytes' = bytes /\ mouse_cycle' = (mouse_cycle + 1) % 3
        /\ IF mouse_cycle = 2 THEN Move(bytes) ELSE UNCHANGED <<mouse_x, mouse_y>>
        /\ edge' = (edge \/ (mouse_cycle = 0 /\ Left(data) = 1 /\ Left(mouse_bytes[1]) = 0))
    BY <1>3 DEF mouse_irq_handler
  <2>2. /\ mouse_cycle \in 0 .. 2 /\ bytes \in [1 .. 3 -> Byte]
        /\ \A i \in 1 .. 3 : bytes[i] = IF i = mouse_cycle + 1 THEN data ELSE mouse_bytes[i]
    BY <1>1 DEF MouseInv, MouseTypes
  <2>c. mouse_cycle' = IF mouse_cycle = 2 THEN 0 ELSE mouse_cycle + 1
    BY <2>1, <2>2
  <2> HIDE DEF bytes, data
  <2>3. MouseTypes'
    BY <1>1, <2>1, <2>2 DEF MouseInv, MouseTypes
  <2>4. PointerOnScreen'
    <3>1. Int8(bytes[2]) \in Int /\ Int8(bytes[3]) \in Int
      BY <2>2, ByteRange
    <3>2. mouse_x + Int8(bytes[2]) \in Int /\ mouse_y - Int8(bytes[3]) \in Int
      BY <3>1 DEF MouseInv, PointerOnScreen
    <3> QED
      BY <2>1, <3>2, ClampRange DEF MouseInv, PointerOnScreen, Move
  <2>5. PressIsEdge' /\ ~phantom'
    <3>1. Left(bytes[1]) = IF mouse_cycle = 0 THEN Left(data) ELSE Left(mouse_bytes[1])
      BY <2>2
    <3>2. Left(mouse_bytes[1]) \in {0, 1}
      BY ByteRange DEF MouseInv, MouseTypes
    <3> QED
      BY <1>1, <2>1, <3>1, <3>2 DEF MouseInv, PressIsEdge
  <2>6. InStep'
    <3> SUFFICES ASSUME drops = MaxDrops PROVE InStep'
      BY <1>1 DEF InStep
    <3>0. truth' = truth /\ (mouse_cycle # 2 => mouse_x' = mouse_x /\ mouse_y' = mouse_y)
      BY <1>1, <2>1
    <3>1. CASE Len(wire) = 3
      <4>1. mouse_cycle = 0 /\ truth = Target(wire[2], wire[3])
        BY <3>1 DEF MouseInv, InStep
      <4>2. Len(wire') = 2 /\ wire'[1] = wire[2] /\ wire'[2] = wire[3]
        BY <1>t, <3>1
      <4>3. mouse_cycle' = 1
        BY <2>c, <4>1
      <4> QED
        BY <3>0, <4>1, <4>2, <4>3 DEF InStep, Target
    <3>2. CASE Len(wire) = 2
      <4>1. mouse_cycle = 1 /\ truth = Target(wire[1], wire[2])
        BY <3>2 DEF MouseInv, InStep
      <4>2. Len(wire') = 1 /\ wire'[1] = wire[2]
        BY <1>t, <3>2
      <4>3. mouse_cycle' = 2 /\ mouse_bytes'[2] = wire[1]
        BY <1>1, <2>c, <2>1, <2>2, <4>1
      <4> QED
        BY <3>0, <4>1, <4>2, <4>3 DEF InStep, Target
    <3>3. CASE Len(wire) = 1
      <4>1. mouse_cycle = 2 /\ truth = Target(mouse_bytes[2], wire[1])
        BY <3>3 DEF MouseInv, InStep
      <4>2. Len(wire') = 0
        BY <1>1, <3>3
      <4>3. mouse_cycle' = 0 /\ bytes[2] = mouse_bytes[2] /\ bytes[3] = wire[1] /\ Move(bytes)
        BY <1>1, <2>c, <2>1, <2>2, <4>1
      <4> QED
        BY <3>0, <4>1, <4>2, <4>3 DEF InStep, Target, Move
    <3>4. wire \in Seq(Byte) /\ Len(wire) \in 1 .. 3
      BY <1>1, <1>t DEF MouseInv, MouseTypes
    <3> QED
      BY <3>1, <3>2, <3>3, <3>4
  <2> QED
    BY <2>3, <2>4, <2>5, <2>6 DEF MouseInv
<1> QED
  BY <1>2, <1>3

LEMMA MouseInvariant == MouseSpec => []MouseInv
<1>1. MouseInv /\ [MouseNext]_mousevars => MouseInv'
  <2> SUFFICES ASSUME MouseInv, [MouseNext]_mousevars PROVE MouseInv'
    OBVIOUS
  <2>1. CASE UNCHANGED mousevars
    BY <2>1 DEF mousevars, driver, MouseInv, MouseTypes, PointerOnScreen, InStep, Target, PressIsEdge
  <2> QED
    BY <2>1, PacketStep, DropStep, RoundStep, HandlerStep DEF MouseNext
<1> QED
  BY <1>1, MouseStarts, PTL DEF MouseSpec

\* The pointer stays on the screen, follows the packets while none of their
\* bytes is lost, and no click is seen that the button has not made: for every
\* screen, every movement a packet can carry and any loss.
THEOREM MouseIsSound == MouseSpec => []MouseSound
<1>1. MouseInv => MouseSound
  BY DEF MouseInv, MouseTypes, InStep, MouseSound, PointerOnScreen, PointerTracks, NoPhantomClick
<1> QED
  BY <1>1, MouseInvariant, PTL

----------------------------------------------------------------------------
(* The keyboard.  Up to three codes are under way: the one the loop has     *)
(* read (sc), the one in the buffer (last_sc) and the one the keyboard      *)
(* still owes.  Undoing them one after the other leads from the keys that   *)
(* are down now back to the keys the kernel's modifier state is about.      *)

LastOwed    == owed[Len(owed)]
LastPending == has_sc /\ pc # "clear" /\ last_sc.kind = "key"
ScPending   == pc \in {"clear", "dispatch"} /\ sc.kind = "key"

OwedShape ==
  /\ owed \in Seq(Codes) /\ Len(owed) <= 2
  /\ owed # <<>> => LastOwed.kind = "key" /\ LastOwed.n = sent /\ sent > 0
  /\ Len(owed) = 2 => owed[1].kind = "E0"

\* The number of the last code that has reached the handler, or could have.
Arrived == IF owed = <<>> THEN sent ELSE sent - 1

Numbered ==
  /\ handled <= Arrived /\ g_shift_down <= handled
  /\ last_sc.kind = "key" => last_sc.n <= Arrived
  /\ sc.kind = "key" => sc.n <= Arrived

Ordered ==
  /\ pc \in {"read", "clear"} => has_sc
  /\ ScPending => sc.n > handled
  /\ LastPending => last_sc.n > handled /\ (ScPending => last_sc.n > sc.n)

\* The keys down, and the make codes, before a code was sent.
Makes        == [caps : {0, 1}, shifts : Int]
Before(c, D) == IF c.again THEN D ELSE IF c.up THEN D \cup {c.key} ELSE D \ {c.key}
Undo(c, v)   == [caps   |-> IF c.key \in Caps /\ ~c.up THEN 1 - v.caps ELSE v.caps,
                 shifts |-> IF c.key \in Shifts /\ c.again THEN v.shifts - 1 ELSE v.shifts]
Fits(c, D)   == (c.up <=> c.key \notin D) /\ (c.again => ~c.up)

DownBuf  == IF owed = <<>> THEN down ELSE Before(LastOwed, down)
DownRead == IF LastPending THEN Before(last_sc, DownBuf) ELSE DownBuf
DownSeen == IF ScPending THEN Before(sc, DownRead) ELSE DownRead
CapsBuf  == IF owed = <<>> THEN makes ELSE Undo(LastOwed, makes)
CapsRead == IF LastPending THEN Undo(last_sc, CapsBuf) ELSE CapsBuf
CapsSeen == IF ScPending THEN Undo(sc, CapsRead) ELSE CapsRead

\* The modifier state is the one of a keyboard with the keys D down that has
\* sent the make codes v.
Agree(D, v) ==
  /\ v.shifts \in Nat /\ g_shift_down = Cardinality(D \cap Shifts) + v.shifts /\ g_caps_on = v.caps
  /\ g_alt_down = 1 => D \cap Alts # {}
  /\ Cardinality(Alts) = 1 => (g_alt_down = 1 <=> D \cap Alts # {})

Chain ==
  ~lost =>
    /\ owed # <<>> => Fits(LastOwed, down)
    /\ LastPending => Fits(last_sc, DownBuf)
    /\ ScPending => Fits(sc, DownRead)
    /\ Agree(DownSeen, CapsSeen)

KbdInv == KbdTypeOK /\ OwedShape /\ lost \in BOOLEAN /\ makes \in Makes /\ Numbered /\ Ordered /\ Chain

LEMMA CodeFields ==
  ASSUME NEW c \in Codes
  PROVE  c.kind \in {"key", "E0"} /\ c.key \in Keys /\ c.up \in BOOLEAN /\ c.again \in BOOLEAN /\ c.n \in 0 .. MaxCodes
  BY DEF Codes

\* Undoing stays within the keys and the two states of Caps Lock.
LEMMA UndoTypes ==
  ASSUME NEW c \in Codes, NEW D \in SUBSET Keys, NEW v \in Makes
  PROVE  Before(c, D) \in SUBSET Keys /\ Undo(c, v) \in Makes
  BY CodeFields DEF Before, Undo, Makes

LEMMA ChainTypes ==
  ASSUME KbdInv
  PROVE  /\ DownBuf \in SUBSET Keys /\ DownRead \in SUBSET Keys /\ DownSeen \in SUBSET Keys
         /\ CapsBuf \in Makes /\ CapsRead \in Makes /\ CapsSeen \in Makes
         /\ last_sc \in Codes /\ sc \in Codes /\ (owed # <<>> => LastOwed \in Codes)
<1>1. /\ last_sc \in Codes /\ sc \in Codes /\ down \in SUBSET Keys /\ makes \in Makes
      /\ (owed # <<>> => LastOwed \in Codes)
  BY EmptySeq, ElementOfSeq DEF KbdInv, KbdTypeOK, OwedShape, LastOwed
<1>2. DownBuf \in SUBSET Keys /\ CapsBuf \in Makes
  BY <1>1, UndoTypes DEF DownBuf, CapsBuf
<1>3. DownRead \in SUBSET Keys /\ CapsRead \in Makes
  BY <1>1, <1>2, UndoTypes DEF DownRead, CapsRead
<1>4. DownSeen \in SUBSET Keys /\ CapsSeen \in Makes
  BY <1>1, <1>3, UndoTypes DEF DownSeen, CapsSeen
<1> QED
  BY <1>1, <1>2, <1>3, <1>4

\* One Shift key more or less is one in the count, and one code repeated.
LEMMA ShiftCount ==
  ASSUME NEW D \in SUBSET Keys, NEW c \in Codes, Fits(c, D)
  PROVE  Cardinality(D \cap Shifts) =
           IF c.key \notin Shifts \/ c.again THEN Cardinality(Before(c, D) \cap Shifts)
           ELSE IF c.up THEN Cardinality(Before(c, D) \cap Shifts) - 1
           ELSE Cardinality(Before(c, D) \cap Shifts) + 1
<1> DEFINE B == Before(c, D)
<1>1. IsFiniteSet(D \cap Shifts) /\ IsFiniteSet(B \cap Shifts) /\ c.key \in Keys /\ c.up \in BOOLEAN /\ c.again \in BOOLEAN
  <2>1. B \in SUBSET Keys
    BY CodeFields DEF Before
  <2> QED
    BY <2>1, CodeFields, KeysAssumption, FS_Subset, FS_Intersection
<1>2. Cardinality(D \cap Shifts) \in Nat /\ Cardinality(B \cap Shifts) \in Nat
  BY <1>1, FS_CardinalityType
<1>3. CASE c.key \notin Shifts \/ c.again
  <2>1. B \cap Shifts = D \cap Shifts
    BY <1>3 DEF Before
  <2> QED
    BY <1>3, <2>1
<1>4. CASE c.key \in Shifts /\ ~c.again /\ c.up
  <2>1. c.key \notin D /\ D \cap Shifts = (B \cap Shifts) \ {c.key} /\ c.key \in B \cap Shifts
    BY <1>4 DEF Before, Fits
  <2>2. Cardinality((B \cap Shifts) \ {c.key}) = Cardinality(B \cap Shifts) - 1
    BY <1>1, <2>1, FS_RemoveElement
  <2> QED
    BY <1>4, <2>1, <2>2
<1>5. CASE c.key \in Shifts /\ ~c.again /\ ~c.up
  <2>1. c.key \in D /\ B \cap Shifts = (D \cap Shifts) \ {c.key} /\ c.key \in D \cap Shifts
    BY <1>5 DEF Before, Fits
  <2>2. Cardinality((D \cap Shifts) \ {c.key}) = Cardinality(D \cap Shifts) - 1
    BY <1>1, <2>1, FS_RemoveElement
  <2>3. Cardinality(B \cap Shifts) = Cardinality(D \cap Shifts) - 1
    BY <2>1, <2>2, Zenon
  <2> QED
    BY <1>2, <1>5, <2>3
<1> QED
  BY <1>1, <1>3, <1>4, <1>5

\* Acting on a code leads from the keys before it to the keys after it.
LEMMA DispatchAgrees ==
  ASSUME NEW D \in SUBSET Keys, NEW v \in Makes, sc \in Codes, sc.kind = "key", Fits(sc, D),
         Agree(Before(sc, D), Undo(sc, v)), DispatchRelease \/ DispatchPress, g_alt_down \in {0, 1}
  PROVE  Agree(D, v)'
<1>0. sc.key \in Keys /\ sc.up \in BOOLEAN /\ sc.again \in BOOLEAN
  BY CodeFields
<1> DEFINE B == Before(sc, D)
<1>1. v.shifts \in Nat /\ g_shift_down' = Cardinality(D \cap Shifts) + v.shifts
  <2>1. Cardinality(B \cap Shifts) \in Nat /\ Cardinality(D \cap Shifts) \in Nat
    BY UndoTypes, KeysAssumption, FS_Subset, FS_Intersection, FS_CardinalityType
  <2>u. PICK u \in Nat : u = Undo(sc, v).shifts
    BY DEF Agree
  <2>v. v.shifts \in Int /\ u = IF sc.key \in Shifts /\ sc.again THEN v.shifts - 1 ELSE v.shifts
    BY <2>u DEF Undo, Makes
  <2>2. g_shift_down = Cardinality(B \cap Shifts) + u
    BY <2>u DEF Agree
  <2>5. Cardinality(D \cap Shifts) =
           IF sc.key \notin Shifts \/ sc.again THEN Cardinality(B \cap Shifts)
           ELSE IF sc.up THEN Cardinality(B \cap Shifts) - 1
           ELSE Cardinality(B \cap Shifts) + 1
    BY ShiftCount
  <2>6. sc.again => ~sc.up
    BY DEF Fits
  <2> HIDE DEF B
  <2>3. CASE DispatchRelease
    BY <1>0, <2>1, <2>2, <2>v, <2>3, <2>5, <2>6 DEF DispatchRelease, ShiftUp
  <2>4. CASE DispatchPress
    BY <1>0, <2>1, <2>2, <2>v, <2>4, <2>5, <2>6 DEF DispatchPress
  <2> QED
    BY <2>3, <2>4
<1>2. g_caps_on' = v.caps
  BY <1>0 DEF DispatchRelease, DispatchPress, Agree, Undo, Makes
<1>3. g_alt_down' = 1 => D \cap Alts # {}
  <2>1. g_alt_down = 1 => B \cap Alts # {}
    BY DEF Agree
  <2>2. CASE sc.key \in Alts
    BY <1>0, <2>2 DEF DispatchRelease, DispatchPress, Fits
  <2>3. CASE sc.key \notin Alts
    <3>1. B \cap Alts = D \cap Alts
      BY <2>3 DEF Before
    <3> QED
      BY <2>1, <2>3, <3>1 DEF DispatchRelease, DispatchPress
  <2> QED
    BY <2>2, <2>3
<1>4. ASSUME Cardinality(Alts) = 1, D \cap Alts # {} PROVE g_alt_down' = 1
  <2>1. PICK a : Alts = {a}
    BY <1>4, KeysAssumption, FS_Subset, FS_Singleton
  <2>2. a \in D
    BY <1>4, <2>1
  <2>3. CASE sc.key = a
    BY <2>1, <2>2, <2>3, <1>0 DEF DispatchRelease, DispatchPress, Fits
  <2>4. CASE sc.key # a
    <3>1. B \cap Alts # {}
      BY <2>1, <2>2, <2>4 DEF Before
    <3>2. g_alt_down = 1
      BY <1>4, <3>1 DEF Agree
    <3> QED
      BY <2>1, <2>4, <3>2 DEF DispatchRelease, DispatchPress
  <2> QED
    BY <2>3, <2>4
<1> QED
  BY <1>1, <1>2, <1>3, <1>4 DEF Agree

LEMMA KbdStarts == KbdInit => KbdInv
<1> SUFFICES ASSUME KbdInit PROVE KbdInv
  OBVIOUS
<1> USE KeysAssumption
<1>1. last_sc \in Codes /\ sc \in Codes /\ last_sc.kind = "key" /\ sc.kind = "key" /\ last_sc.n = 0 /\ sc.n = 0
  <2>1. (CHOOSE k \in Keys : TRUE) \in Keys
    OBVIOUS
  <2> QED
    BY <2>1 DEF KbdInit, Code, Codes
<1>2. /\ down = {} /\ owed = <<>> /\ sent = 0 /\ has_sc = FALSE /\ pc = "poll" /\ lost = FALSE /\ makes = [caps |-> 0, shifts |-> 0]
      /\ g_shift_down = 0 /\ g_alt_down = 0 /\ g_caps_on = 0 /\ handled = 0
  BY Zenon DEF KbdInit
<1>s. owed \in Seq(Codes) /\ Len(owed) = 0 /\ 0 \in 0 .. MaxCodes
  BY <1>2, EmptySeq
<1>t. KbdTypeOK
  <2>1. Len(owed) <= 2 /\ sent \in 0 .. MaxCodes /\ g_shift_down \in 0 .. MaxCodes /\ handled \in 0 .. MaxCodes
    BY <1>2, <1>s
  <2> QED
    BY <1>1, <1>2, <2>1, Zenon DEF KbdTypeOK
<1>3. OwedShape /\ lost \in BOOLEAN /\ makes \in Makes /\ Numbered /\ Ordered
  <2>1. OwedShape
    BY <1>2, <1>s DEF OwedShape
  <2>2. Numbered
    <3>1. Arrived = 0
      BY <1>2, Zenon DEF Arrived
    <3> QED
      BY <1>1, <1>2, <3>1 DEF Numbered
  <2>3. Ordered
    BY <1>2 DEF Ordered, ScPending, LastPending
  <2>4. makes \in Makes
    BY <1>2 DEF Makes
  <2> QED
    BY <1>2, <2>1, <2>2, <2>3, <2>4
<1>4. DownSeen = {} /\ CapsSeen = [caps |-> 0, shifts |-> 0] /\ ~ScPending /\ ~LastPending /\ owed = <<>>
  BY DEF KbdInit, DownSeen, DownRead, DownBuf, CapsSeen, CapsRead, CapsBuf, ScPending, LastPending
<1>5. Agree({}, [caps |-> 0, shifts |-> 0])
  <2>1. {} \cap Shifts = {} /\ {} \cap Alts = {}
    OBVIOUS
  <2> QED
    BY <2>1, FS_EmptySet DEF KbdInit, Agree
<1> QED
  BY <1>t, <1>3, <1>4, <1>5 DEF KbdInv, Chain

\* A key goes down or up: the new code is the last one owed, and undoing it
\* gives the keys as they were.
LEMMA KeyStep ==
  ASSUME KbdInv, NEW k \in Keys, Press(k) \/ Repeat(k) \/ Release(k)
  PROVE  KbdInv'
<1> USE KeysAssumption
<1>1. PICK u \in BOOLEAN, a \in BOOLEAN :
        /\ owed' = Prefix(k) \o <<Code(k, u, a, sent + 1)>>
        /\ u => ~a /\ k \in down /\ down' = down \ {k} /\ makes' = makes
        /\ ~u => /\ a <=> k \in down
                 /\ down' = down \cup {k}
                 /\ makes' = [caps   |-> IF k \in Caps THEN 1 - makes.caps ELSE makes.caps,
                              shifts |-> IF a /\ k \in Shifts THEN makes.shifts + 1 ELSE makes.shifts]
  <2>1. CASE Press(k)
    BY <2>1 DEF Press, Make
  <2>2. CASE Repeat(k)
    BY <2>2 DEF Repeat, Make
  <2>3. CASE Release(k)
    BY <2>3 DEF Release
  <2> QED
    BY <2>1, <2>2, <2>3
<1> DEFINE c == Code(k, u, a, sent + 1)
           e == [kind |-> "E0", key |-> k, up |-> FALSE, again |-> FALSE, n |-> 0]
<1>2. /\ owed = <<>> /\ sent < MaxCodes /\ sent' = sent + 1
      /\ UNCHANGED <<last_sc, has_sc, pc, sc, mods, handled, lost>>
  BY DEF Press, Repeat, Make, Release
<1>3. c \in Codes /\ c.kind = "key" /\ c.key = k /\ c.up = u /\ c.again = a /\ c.n = sent + 1
  BY <1>2 DEF Code, Codes, KbdInv, KbdTypeOK
<1>4. e \in Codes /\ e.kind = "E0"
  BY DEF Codes
<1> HIDE DEF c, e
<1>5. /\ Prefix(k) \in Seq(Codes) /\ (Prefix(k) = <<>> \/ (Len(Prefix(k)) = 1 /\ Prefix(k)[1] = e))
      /\ <<c>> \in Seq(Codes) /\ Len(<<c>>) = 1 /\ <<c>>[1] = c
  BY <1>3, <1>4 DEF Prefix, e
<1>6. owed' \in Seq(Codes) /\ owed' # <<>> /\ Len(owed') <= 2 /\ LastOwed' = c /\ (Len(owed') = 2 => owed'[1].kind = "E0")
  <2>1. owed' = Prefix(k) \o <<c>>
    BY <1>1 DEF c
  <2>2. Len(Prefix(k)) \in 0 .. 1 /\ (Len(Prefix(k)) = 1 => Prefix(k)[1] = e)
    BY <1>5, EmptySeq
  <2>3. /\ owed' \in Seq(Codes) /\ Len(owed') = Len(Prefix(k)) + 1
        /\ \A i \in 1 .. Len(Prefix(k)) + 1 : owed'[i] = IF i <= Len(Prefix(k)) THEN Prefix(k)[i] ELSE <<c>>[i - Len(Prefix(k))]
    BY <1>5, <2>1, ConcatProperties
  <2>4. owed'[Len(Prefix(k)) + 1] = c /\ (Len(Prefix(k)) = 1 => owed'[1] = e)
    BY <1>5, <2>2, <2>3
  <2>5. owed' # <<>>
    BY <2>2, <2>3, EmptySeq
  <2> QED
    BY <1>4, <2>2, <2>3, <2>4, <2>5 DEF LastOwed
<1>7. KbdTypeOK' /\ OwedShape' /\ lost' \in BOOLEAN /\ makes' \in Makes
  BY <1>1, <1>2, <1>3, <1>6 DEF KbdInv, KbdTypeOK, OwedShape, mods, Makes
<1>8. UNCHANGED <<LastPending, ScPending>> /\ Numbered' /\ Ordered'
  BY <1>2, <1>6 DEF KbdInv, KbdTypeOK, Numbered, Ordered, Arrived, LastPending, ScPending, mods
<1>9. Fits(c, down') /\ Before(c, down') = down /\ Undo(c, makes') = makes
  <2>1. Fits(c, down')
    BY <1>1, <1>3 DEF Fits
  <2>2. Before(c, down') = down
    <3>1. CASE a
      BY <1>1, <1>3, <3>1 DEF Before
    <3>2. CASE ~a
      BY <1>1, <1>3, <3>2 DEF Before
    <3> QED
      BY <3>1, <3>2
  <2>3. Undo(c, makes') = makes
    BY <1>1, <1>3 DEF Undo, KbdInv, Makes
  <2> QED
    BY <2>1, <2>2, <2>3
<1>10. UNCHANGED <<DownBuf, CapsBuf>>
  BY <1>2, <1>6, <1>9 DEF DownBuf, CapsBuf
<1>11. UNCHANGED <<DownRead, CapsRead, DownSeen, CapsSeen>>
  BY <1>2, <1>8, <1>10 DEF DownRead, CapsRead, DownSeen, CapsSeen
<1>12. Chain'
  BY <1>2, <1>6, <1>8, <1>9, <1>10, <1>11 DEF KbdInv, Chain, Agree, mods
<1> QED
  BY <1>7, <1>8, <1>12 DEF KbdInv

\* The interrupt moves the first owed byte into the buffer.  Either a code is
\* lost, or the buffer held none that was still to be read.
LEMMA CallbackStep == ASSUME KbdInv, keyboard_callback PROVE KbdInv'
<1> USE KeysAssumption
<1>1. /\ owed # <<>> /\ owed' = Tail(owed) /\ last_sc' = Head(owed) /\ has_sc' = TRUE
      /\ UNCHANGED <<down, sent, pc, sc, mods, handled, makes>>
  BY DEF keyboard_callback
<1>2. /\ owed \in Seq(Codes) /\ Len(owed) \in 1 .. 2 /\ owed' \in Seq(Codes) /\ Len(owed') = Len(owed) - 1
      /\ \A i \in 1 .. Len(owed') : owed'[i] = owed[i + 1]
      /\ last_sc' = owed[1] /\ last_sc' \in Codes
  <2>1. owed \in Seq(Codes) /\ Len(owed) <= 2 /\ Len(owed) \in Nat \ {0}
    BY <1>1, EmptySeq DEF KbdInv, OwedShape
  <2>2. /\ owed' \in Seq(Codes) /\ Len(owed') = Len(owed) - 1 /\ last_sc' \in Codes
        /\ \A i \in 1 .. Len(owed') : owed'[i] = owed[i + 1]
    BY <1>1, <2>1, HeadTailProperties
  <2>3. last_sc' = owed[1]
    BY <1>1, <2>1
  <2> QED
    BY <2>1, <2>2, <2>3
<1>3. KbdTypeOK' /\ lost' \in BOOLEAN /\ makes' \in Makes
  BY <1>1, <1>2 DEF KbdInv, KbdTypeOK, mods, keyboard_callback
<1>4. ScPending' <=> ScPending
  BY <1>1 DEF ScPending
<1>n. sc.n \in Nat /\ sent \in Nat /\ handled \in Nat
  BY CodeFields DEF KbdInv, KbdTypeOK
<1>5. CASE Len(owed) = 1
  <2>1. /\ owed' = <<>> /\ last_sc' = LastOwed /\ last_sc'.kind = "key" /\ last_sc'.n = sent
    <3>1. owed' = <<>>
      <4>1. owed' \in Seq(Codes) /\ Len(owed') = 0
        BY <1>2, <1>5
      <4> QED
        BY <4>1, EmptySeq
    <3>2. last_sc' = LastOwed
      BY <1>2, <1>5 DEF LastOwed
    <3>3. LastOwed.kind = "key" /\ LastOwed.n = sent
      BY <1>1 DEF KbdInv, OwedShape
    <3> QED
      BY <3>1, <3>2, <3>3
  <2>2. OwedShape'
    BY <1>1, <1>2, <2>1 DEF KbdInv, OwedShape
  <2>a. Numbered'
    <3>1. Arrived = sent - 1 /\ Arrived' = sent /\ sent \in Nat /\ handled <= Arrived /\ g_shift_down <= handled
          /\ handled \in Nat /\ (sc.kind = "key" => sc.n <= Arrived /\ sc.n \in Nat)
      BY <1>1, <1>n, <2>1 DEF KbdInv, KbdTypeOK, Numbered, Arrived
    <3> QED
      BY <1>1, <2>1, <3>1 DEF Numbered, mods
  <2>b. Ordered'
    <3>1. sent \in Nat /\ handled \in Nat /\ handled <= sent - 1 /\ (sc.kind = "key" => sc.n <= sent - 1 /\ sc.n \in Nat)
      BY <1>1, <1>n DEF KbdInv, KbdTypeOK, Numbered, Arrived
    <3> QED
      BY <1>1, <2>1, <3>1 DEF KbdInv, Ordered, ScPending, LastPending
  <2>3. Chain'
    <3> SUFFICES ASSUME ~lost' PROVE Chain'
      BY DEF Chain
    <3>1. ~lost /\ pc # "clear" /\ ~LastPending /\ LastPending'
      BY <1>1, <2>1 DEF keyboard_callback, LastPending, KbdInv
    <3>2. DownBuf' = down /\ CapsBuf' = makes /\ DownRead' = DownBuf /\ CapsRead' = CapsBuf
      BY <1>1, <2>1, <3>1 DEF DownBuf, CapsBuf, DownRead, CapsRead
    <3>3. DownRead = DownBuf /\ CapsRead = CapsBuf
      BY <3>1 DEF DownRead, CapsRead
    <3>4. UNCHANGED <<DownRead, CapsRead, DownSeen, CapsSeen>>
      BY <1>1, <1>4, <3>2, <3>3 DEF DownSeen, CapsSeen
    <3>5. Fits(last_sc', down)
      BY <1>1, <2>1, <3>1 DEF KbdInv, Chain
    <3> QED
      BY <1>1, <1>4, <2>1, <3>1, <3>2, <3>4, <3>5 DEF KbdInv, Chain, Agree, mods
  <2> QED
    BY <1>3, <2>2, <2>a, <2>b, <2>3 DEF KbdInv
<1>6. CASE Len(owed) = 2
  <2>0. Len(owed') = 1 /\ owed'[1] = owed[2] /\ owed' # <<>>
    <3>1. Len(owed') = 1
      BY <1>2, <1>6
    <3>2. owed'[1] = owed[1 + 1]
      BY <1>2, <3>1
    <3>3. owed' # <<>>
      BY <3>1, EmptySeq
    <3> QED
      BY <3>1, <3>2, <3>3
  <2>1. /\ owed' # <<>> /\ LastOwed' = LastOwed /\ last_sc'.kind = "E0" /\ Len(owed') = 1
    BY <1>2, <1>6, <2>0 DEF KbdInv, OwedShape, LastOwed
  <2>2. OwedShape'
    <3>1. LastOwed.kind = "key" /\ LastOwed.n = sent /\ sent > 0
      BY <1>1 DEF KbdInv, OwedShape
    <3>2. LastOwed'.kind = "key" /\ LastOwed'.n = sent' /\ sent' > 0
      BY <1>1, <2>1, <3>1
    <3>3. owed' \in Seq(Codes) /\ Len(owed') <= 2 /\ Len(owed') # 2
      BY <1>2, <2>1
    <3> QED
      BY <3>2, <3>3, Zenon DEF OwedShape
  <2>a. Numbered'
    BY <1>1, <2>1 DEF KbdInv, KbdTypeOK, OwedShape, Numbered, Arrived, mods
  <2>b. Ordered'
    BY <1>1, <1>2, <2>1 DEF KbdInv, KbdTypeOK, OwedShape, Numbered, Arrived, Ordered, ScPending, LastPending
  <2>3. Chain'
    <3> SUFFICES ASSUME ~lost' PROVE Chain'
      BY DEF Chain
    <3>1. ~lost /\ ~LastPending /\ ~LastPending'
      BY <1>1, <2>1 DEF keyboard_callback, LastPending, KbdInv
    <3>2. UNCHANGED <<DownBuf, CapsBuf>>
      BY <1>1, <2>1 DEF DownBuf, CapsBuf
    <3>3. UNCHANGED <<DownRead, CapsRead, DownSeen, CapsSeen>>
      BY <1>1, <1>4, <3>1, <3>2 DEF DownRead, CapsRead, DownSeen, CapsSeen
    <3> QED
      BY <1>1, <1>4, <2>1, <3>1, <3>2, <3>3 DEF KbdInv, Chain, Agree, mods
  <2> QED
    BY <1>3, <2>2, <2>a, <2>b, <2>3 DEF KbdInv
<1> QED
  BY <1>2, <1>5, <1>6

\* The loop looks, reads and clears: the code it reads leaves the buffer for
\* sc, and what Clear throws away is no code that is still to be read.
LEMMA TakeStep == ASSUME KbdInv, Poll \/ Read \/ Clear PROVE KbdInv'
<1> USE KeysAssumption
<1>1. UNCHANGED <<device, last_sc, mods, handled, lost, makes>> /\ UNCHANGED <<DownBuf, CapsBuf, LastOwed>>
  BY DEF Poll, Read, Clear, DownBuf, CapsBuf, LastOwed, device
<1>2. KbdTypeOK' /\ OwedShape' /\ Numbered' /\ lost' \in BOOLEAN /\ makes' \in Makes
  BY <1>1 DEF Poll, Read, Clear, KbdInv, KbdTypeOK, OwedShape, Numbered, Arrived, device, mods, LastOwed
<1>3. Ordered'
  BY <1>1 DEF Poll, Read, Clear, KbdInv, Ordered, LastPending, ScPending
<1>4. CASE Read
  <2>1. ~ScPending /\ ~LastPending' /\ (ScPending' <=> LastPending) /\ sc' = last_sc
    BY <1>4 DEF Read, LastPending, ScPending, KbdInv, Ordered
  <2>2. DownRead' = DownBuf /\ CapsRead' = CapsBuf /\ DownSeen' = DownSeen /\ CapsSeen' = CapsSeen
    BY <1>1, <2>1 DEF DownRead, DownSeen, CapsRead, CapsSeen
  <2>3. Chain'
    BY <1>1, <2>1, <2>2 DEF KbdInv, Chain, Agree, mods, device
  <2> QED
    BY <1>2, <1>3, <2>3 DEF KbdInv
<1>5. CASE Poll \/ Clear
  <2>1. (ScPending' <=> ScPending) /\ (LastPending' <=> LastPending) /\ sc' = sc
    BY <1>5 DEF Poll, Clear, LastPending, ScPending
  <2>2. UNCHANGED <<DownRead, CapsRead, DownSeen, CapsSeen>>
    BY <1>1, <2>1 DEF DownRead, DownSeen, CapsRead, CapsSeen
  <2>3. Chain'
    BY <1>1, <2>1, <2>2 DEF KbdInv, Chain, Agree, mods, device
  <2> QED
    BY <1>2, <1>3, <2>3 DEF KbdInv
<1> QED
  BY <1>4, <1>5

\* The loop acts on the code it has read.
LEMMA DispatchStep == ASSUME KbdInv, DispatchRelease \/ DispatchPress PROVE KbdInv'
<1> USE KeysAssumption
<1>1. UNCHANGED <<device, last_sc, has_sc, sc, lost, makes>> /\ UNCHANGED <<DownBuf, CapsBuf, LastOwed>>
  BY DEF DispatchRelease, DispatchPress, DownBuf, CapsBuf, LastOwed, device
<1>2. pc = "dispatch" /\ pc' = "poll" /\ ~ScPending' /\ (LastPending' <=> LastPending)
  BY <1>1 DEF DispatchRelease, DispatchPress, ScPending, LastPending
<1>3. DownRead' = DownRead /\ CapsRead' = CapsRead /\ DownSeen' = DownRead /\ CapsSeen' = CapsRead
  BY <1>1, <1>2 DEF DownRead, DownSeen, CapsRead, CapsSeen
<1>4. sc \in Codes /\ DownRead \in SUBSET Keys /\ CapsRead \in Makes
  BY ChainTypes
<1>5. handled' = IF sc.kind = "key" THEN sc.n ELSE handled
  BY <1>4 DEF DispatchRelease, DispatchPress
<1>6. sc.kind \in {"key", "E0"} /\ sc.key \in Keys /\ sc.up \in BOOLEAN /\ sc.n \in 0 .. MaxCodes
  BY <1>4, CodeFields
<1>7. g_shift_down' <= handled' /\ g_shift_down' \in Nat /\ handled' \in 0 .. MaxCodes /\ handled' <= Arrived
  <2>1. g_shift_down \in Nat /\ handled \in Nat /\ g_shift_down <= handled
        /\ (sc.kind = "key" => handled < sc.n /\ sc.n <= Arrived) /\ handled <= Arrived
    BY <1>2 DEF KbdInv, KbdTypeOK, Numbered, Ordered, ScPending
  <2>2. g_shift_down' \in Nat /\ (sc.kind = "key" => g_shift_down' <= g_shift_down + 1) /\ (sc.kind = "E0" => g_shift_down' = g_shift_down)
    BY <2>1 DEF DispatchRelease, DispatchPress, ShiftUp
  <2>3. handled' \in 0 .. MaxCodes
    BY <1>5, <1>6 DEF KbdInv, KbdTypeOK
  <2> QED
    BY <1>5, <1>6, <2>1, <2>2, <2>3
<1>8. KbdTypeOK'
  <2>1. g_alt_down' \in {0, 1} /\ g_caps_on' \in {0, 1}
    BY DEF DispatchRelease, DispatchPress, KbdInv, KbdTypeOK
  <2> QED
    BY <1>1, <1>2, <1>7, <2>1 DEF KbdInv, KbdTypeOK, device
<1>9. OwedShape' /\ Numbered' /\ Ordered' /\ lost' \in BOOLEAN /\ makes' \in Makes
  <2>1. OwedShape' /\ lost' \in BOOLEAN /\ makes' \in Makes /\ Arrived' = Arrived
    BY <1>1 DEF KbdInv, OwedShape, Arrived, device
  <2>2. Numbered'
    BY <1>1, <1>7, <2>1 DEF KbdInv, Numbered
  <2>3. Ordered'
    BY <1>1, <1>2, <1>5 DEF KbdInv, Ordered, ScPending
  <2> QED
    BY <2>1, <2>2, <2>3
<1>10. Chain'
  <2> SUFFICES ASSUME ~lost PROVE Agree(DownRead, CapsRead)'
    BY <1>1, <1>2, <1>3 DEF KbdInv, Chain, device
  <2>1. CASE sc.kind = "key"
    <3>1. ScPending /\ Fits(sc, DownRead) /\ Agree(Before(sc, DownRead), Undo(sc, CapsRead))
      BY <1>2, <2>1 DEF KbdInv, Chain, ScPending, DownSeen, CapsSeen
    <3>2. g_alt_down \in {0, 1}
      BY DEF KbdInv, KbdTypeOK
    <3> DEFINE D == DownRead
               v == CapsRead
    <3>3. D \in SUBSET Keys /\ v \in Makes /\ D' = D /\ v' = v /\ Fits(sc, D) /\ Agree(Before(sc, D), Undo(sc, v))
      BY <1>3, <1>4, <3>1
    <3> QED
      BY <1>4, <2>1, <3>2, <3>3, DispatchAgrees DEF Agree
  <2>2. CASE sc.kind = "E0"
    <3>1. DownSeen = DownRead /\ CapsSeen = CapsRead /\ UNCHANGED mods
      BY <2>2 DEF DownSeen, CapsSeen, ScPending, DispatchRelease, DispatchPress, mods
    <3> QED
      BY <1>3, <3>1 DEF KbdInv, Chain, Agree, mods
  <2> QED
    BY <1>6, <2>1, <2>2
<1> QED
  BY <1>8, <1>9, <1>10 DEF KbdInv

LEMMA KbdInvariant == KbdSpec => []KbdInv
<1>1. KbdInv /\ [KbdNext]_kbdvars => KbdInv'
  <2> SUFFICES ASSUME KbdInv, [KbdNext]_kbdvars PROVE KbdInv'
    OBVIOUS
  <2>1. CASE UNCHANGED kbdvars
    <3>1. UNCHANGED <<LastPending, ScPending, LastOwed, DownBuf, DownRead, DownSeen, CapsBuf, CapsRead, CapsSeen, Arrived>>
      BY <2>1 DEF kbdvars, device, mods, LastPending, ScPending, LastOwed, DownBuf, DownRead, DownSeen, CapsBuf, CapsRead, CapsSeen, Arrived
    <3>2. KbdTypeOK' /\ OwedShape' /\ lost' \in BOOLEAN /\ makes' \in Makes
      BY <2>1, <3>1 DEF kbdvars, device, mods, KbdInv, KbdTypeOK, OwedShape
    <3>3. Numbered' /\ Ordered' /\ Chain'
      BY <2>1, <3>1 DEF kbdvars, device, mods, KbdInv, Numbered, Ordered, Chain, Agree
    <3> QED
      BY <3>2, <3>3 DEF KbdInv
  <2> QED
    BY <2>1, KeyStep, CallbackStep, TakeStep, DispatchStep DEF KbdNext, Loop
<1> QED
  BY <1>1, KbdStarts, PTL DEF KbdSpec

\* Every code is acted on at most once and in order, and the modifier state is
\* the keyboard's when all is handled and nothing was lost, but for one Shift
\* more and one change of Caps Lock for every repeated make code: for every
\* set of keys and however the interrupt falls between the loop's steps.
THEOREM KeyboardIsSound == KbdSpec => []KeyboardSound
<1>1. KbdInv => KeyboardSound
  <2> SUFFICES ASSUME KbdInv PROVE KbdTypeOK /\ OnceInOrder /\ ModifiersTrack
    BY DEF KeyboardSound
  <2>1. KbdTypeOK /\ OnceInOrder
    BY DEF KbdInv, Ordered, ScPending, OnceInOrder
  <2>2. ASSUME pc = "poll", ~has_sc, owed = <<>>, ~lost PROVE Agree(down, makes)
    BY <2>2 DEF KbdInv, Chain, DownSeen, DownRead, DownBuf, CapsSeen, CapsRead, CapsBuf, ScPending, LastPending
  <2>3. ModifiersTrack
    BY <2>2 DEF ModifiersTrack, Agree
  <2> QED
    BY <2>1, <2>3
<1> QED
  BY <1>1, KbdInvariant, PTL
=============================================================================
