------------------------------ MODULE Keyboard ------------------------------
(***************************************************************************)
(* kernel/keyboard.c and the keyboard part of kmain's loop: the interrupt   *)
(* handler puts a scancode into a buffer for one, the loop takes it out in  *)
(* three steps (look, read, clear) with interrupts on, and keeps the state  *)
(* of the modifier keys.  A keyboard sends a code when a key goes down or   *)
(* up, and the make code again and again while it is held, with a prefix    *)
(* before each for an extended key.                                         *)
(***************************************************************************)
EXTENDS Integers, Sequences, FiniteSets

CONSTANTS
  Keys,         \* the keys of the keyboard
  Shifts, Alts, Caps, Ext,   \* which are what; Ext send the prefix E0
  MaxCodes      \* bound: codes sent

ASSUME KeysAssumption ==
  /\ Shifts \cup Alts \cup Caps \cup Ext \subseteq Keys /\ IsFiniteSet(Keys) /\ Keys # {}
  /\ Shifts \cap Alts = {} /\ Caps \cap (Shifts \cup Alts) = {} /\ MaxCodes \in Nat

VARIABLES
  down, owed,        \* the keyboard: keys held, bytes it has still to send
  sent,              \* codes sent so far
  last_sc, has_sc,   \* keyboard.c
  pc, sc,            \* kmain's loop: where it is, the code it has read
  g_shift_down, g_alt_down, g_caps_on,
  handled,           \* history: the last code the loop has acted on
  lost,              \* history: was a code lost
  makes              \* history of make codes: Caps Lock's, modulo 2, and the
                     \* repeated ones of Shift keys

device == <<down, owed, sent>>
mods   == <<g_shift_down, g_alt_down, g_caps_on>>
kbdvars == <<device, last_sc, has_sc, pc, sc, mods, handled, lost, makes>>

\* A byte: the key (or the prefix), whether it goes up; and, of which the
\* kernel sees nothing, whether it is a repetition, and its number.
Codes == [kind : {"key", "E0"}, key : Keys, up : BOOLEAN, again : BOOLEAN, n : 0 .. MaxCodes]
Code(k, u, a, n) == [kind |-> "key", key |-> k, up |-> u, again |-> a, n |-> n]

KbdInit ==
  /\ down = {} /\ owed = <<>> /\ sent = 0
  /\ last_sc = Code(CHOOSE k \in Keys : TRUE, FALSE, FALSE, 0) /\ sc = last_sc /\ has_sc = FALSE /\ pc = "poll"
  /\ g_shift_down = 0 /\ g_alt_down = 0 /\ g_caps_on = 0
  /\ handled = 0 /\ lost = FALSE /\ makes = [caps |-> 0, shifts |-> 0]

---------------------------------------------------------------------------
(* The keyboard and its interrupt.                                         *)

Prefix(k) == IF k \in Ext THEN <<[kind |-> "E0", key |-> k, up |-> FALSE, again |-> FALSE, n |-> 0]>> ELSE <<>>

\* A make code: the key goes down, or it is held and the keyboard repeats it.
Make(k, again) ==
  /\ owed = <<>> /\ (again <=> k \in down) /\ sent < MaxCodes
  /\ down' = down \cup {k} /\ sent' = sent + 1
  /\ owed' = Prefix(k) \o <<Code(k, FALSE, again, sent + 1)>>
  /\ makes' = [caps   |-> IF k \in Caps THEN 1 - makes.caps ELSE makes.caps,
               shifts |-> IF again /\ k \in Shifts THEN makes.shifts + 1 ELSE makes.shifts]
  /\ UNCHANGED <<last_sc, has_sc, pc, sc, mods, handled, lost>>
Press(k)  == Make(k, FALSE)
Repeat(k) == Make(k, TRUE)

Release(k) ==
  /\ owed = <<>> /\ k \in down /\ sent < MaxCodes
  /\ down' = down \ {k} /\ sent' = sent + 1
  /\ owed' = Prefix(k) \o <<Code(k, TRUE, FALSE, sent + 1)>>
  /\ UNCHANGED <<last_sc, has_sc, pc, sc, mods, handled, lost, makes>>

\* keyboard_callback, atomic to the loop.  A code that the loop has not read
\* yet, or this one if the loop is about to clear, is lost.
keyboard_callback ==
  /\ owed # <<>> /\ owed' = Tail(owed)
  /\ last_sc' = Head(owed) /\ has_sc' = TRUE
  /\ lost' = (lost \/ (has_sc /\ pc # "clear" /\ last_sc.kind = "key")
                   \/ (pc = "clear" /\ Head(owed).kind = "key"))
  /\ UNCHANGED <<down, sent, pc, sc, mods, handled, makes>>

---------------------------------------------------------------------------
(* kbd_get_scancode and the dispatch in kmain's loop.                      *)

\* Mutant: a break code is passed over and stays in the buffer.
PollMakesOnly ==
  /\ pc = "poll" /\ has_sc /\ ~last_sc.up /\ pc' = "read"
  /\ UNCHANGED <<device, last_sc, has_sc, sc, mods, handled, lost, makes>>

Poll ==
  /\ pc = "poll" /\ has_sc /\ pc' = "read"
  /\ UNCHANGED <<device, last_sc, has_sc, sc, mods, handled, lost, makes>>

Read ==
  /\ pc = "read" /\ sc' = last_sc /\ pc' = "clear"
  /\ UNCHANGED <<device, last_sc, has_sc, mods, handled, lost, makes>>

\* Mutant: the flag stays.
ClearMissing ==
  /\ pc = "clear" /\ pc' = "dispatch"
  /\ UNCHANGED <<device, last_sc, has_sc, sc, mods, handled, lost, makes>>

Clear ==
  /\ pc = "clear" /\ has_sc' = FALSE /\ pc' = "dispatch"
  /\ UNCHANGED <<device, last_sc, sc, mods, handled, lost, makes>>

\* One Shift key less; a press may have been lost.
ShiftUp == IF g_shift_down > 0 THEN g_shift_down - 1 ELSE 0

DispatchRelease ==
  /\ pc = "dispatch" /\ (sc.kind = "E0" \/ sc.up) /\ pc' = "poll"
  /\ g_alt_down' = IF sc.kind = "key" /\ sc.key \in Alts THEN 0 ELSE g_alt_down
  /\ g_shift_down' = IF sc.kind = "key" /\ sc.key \in Shifts THEN ShiftUp ELSE g_shift_down
  /\ handled' = IF sc.kind = "key" THEN sc.n ELSE handled
  /\ UNCHANGED <<device, last_sc, has_sc, sc, g_caps_on, lost, makes>>

DispatchPress ==
  /\ pc = "dispatch" /\ sc.kind = "key" /\ ~sc.up /\ pc' = "poll"
  /\ g_alt_down' = IF sc.key \in Alts THEN 1 ELSE g_alt_down
  /\ g_shift_down' = IF sc.key \in Shifts THEN g_shift_down + 1 ELSE g_shift_down
  /\ g_caps_on' = IF sc.key \in Caps THEN 1 - g_caps_on ELSE g_caps_on
  /\ handled' = sc.n
  /\ UNCHANGED <<device, last_sc, has_sc, sc, lost, makes>>

Loop == Poll \/ Read \/ Clear \/ DispatchRelease \/ DispatchPress
KbdNext == (\E k \in Keys : Press(k) \/ Repeat(k) \/ Release(k)) \/ keyboard_callback \/ Loop

\* The loop never blocks: hlt ends with the next timer tick.
KbdSpec == KbdInit /\ [][KbdNext]_kbdvars /\ WF_kbdvars(Loop) /\ WF_kbdvars(keyboard_callback)

---------------------------------------------------------------------------
\* Types: the count of Shift keys stays natural whatever is lost.
KbdTypeOK ==
  /\ down \subseteq Keys /\ Len(owed) <= 2 /\ sent \in 0 .. MaxCodes
  /\ {last_sc, sc} \subseteq Codes /\ has_sc \in BOOLEAN
  /\ pc \in {"poll", "read", "clear", "dispatch"}
  /\ g_shift_down \in 0 .. MaxCodes /\ {g_alt_down, g_caps_on} \subseteq {0, 1}
  /\ handled \in 0 .. MaxCodes

\* A code is acted on at most once, and codes in the order they were sent,
\* however the interrupt falls between the loop's three steps.
OnceInOrder == pc = "dispatch" /\ sc.kind = "key" => sc.n > handled

\* Once the loop has caught up, and if no code was lost to the one-place
\* buffer, the kernel's modifier state is the keyboard's; the prefix byte of
\* an extended key, which may well be lost, makes no difference.  The
\* exceptions are the repeated codes of a key that is held (kernel.c:4021 and
\* 4024): each one of a Shift key counts one up that no release takes back,
\* so that Shift stays on, and each one of Caps Lock switches it.
ModifiersTrack ==
  pc = "poll" /\ ~has_sc /\ owed = <<>> /\ ~lost =>
    /\ g_shift_down = Cardinality(down \cap Shifts) + makes.shifts
    /\ g_caps_on = makes.caps
    /\ g_alt_down = 1 => down \cap Alts # {}
    /\ Cardinality(Alts) = 1 => (g_alt_down = 1 <=> down \cap Alts # {})

\* The three together, for every interleaving of the interrupt with the loop.
KeyboardSound == KbdTypeOK /\ OnceInOrder /\ ModifiersTrack

\* A code in the buffer, or one that has replaced it, is taken.
CodesAreTaken == has_sc ~> pc = "dispatch"
=============================================================================
