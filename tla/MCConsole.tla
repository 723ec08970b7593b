----------------------------- MODULE MCConsole ------------------------------
(***************************************************************************)
(* The devices a user sits at, for TLC: the keyboard, the mouse, and the    *)
(* terminal of the boot loader.  They share no state: a behaviour of this   *)
(* module is one of a part, chosen at the start.                            *)
(***************************************************************************)
EXTENDS Keyboard, Mouse, Terminal

VARIABLE part

MCMoves == {-128, 0, 1}     \* none, one right or up, and the most negative one

-----------------------------------------------------------------------------
(* A console of 3 lines of 4 columns and the buffers its clients write.     *)
MCPrintable == {"a", "q", " "}
Csi(s) == <<"ESC", "[">> \o s
MCWrites == {
  <<"a">>, <<"a", "a", "q", "a", "a">>, <<"LF">>, <<"BS", "CR", "TAB">>,
  Csi(<<"1", ";", "2", "r">>), Csi(<<"3", ";", "9", "r">>), Csi(<<"2", "B">>), Csi(<<"H">>),
  Csi(<<"3", "J">>), Csi(<<"J">>), Csi(<<"1", "K">>), Csi(<<"2", "@">>), Csi(<<"P">>),
  Csi(<<"L">>), Csi(<<"M">>), Csi(<<"7", "m">>), Csi(<<"3", "1", ";", "1", "m">>),
  Csi(<<"3", "8", ";", "5", ";", "9", "m">>), Csi(<<"0", "m">>), Csi(<<"3", "9", ";", "4", "2", "m">>),
  Csi(<<"?", "2", "5", "l">>), Csi(<<"4", "h">>), Csi(<<"i">>), Csi(<<"1", ";">>),
  <<"ESC", "7">>, <<"ESC", "8", "ESC", "M">>, <<"ESC", "(", "0">>, <<"ESC", "]", "a", "ESC">>, <<"\\", "CAN">>,
  <<"ESC", "]", "7", "BEL", "ESC", "8">>,
  <<"c4", "80">>, <<"e2", "81">>}
MCcp437 == [c \in {<<"c2", b>> : b \in Cont} \cup {<<"c4", b>> : b \in Cont}
                    \cup {<<"e2", "81", b>> : b \in Cont} |-> IF c[1] = "c2" THEN "pipe" ELSE ""]
MCwcwidth == [c \in DOMAIN MCcp437 |-> CASE c[1] = "c2" -> 1 [] c[1] = "c4" -> 2 [] c[1] = "e2" -> 0]
MCdec_special == [c \in {"a", "q", " ", "\\", "[", "]", "0", "1", "2", "3", "4", "5", "7", "8", "9", ";", "m",
  "h", "i", "l", "r", "B", "H", "J", "K", "L", "M", "P", "@", "(", "?", "80", "81"} |-> IF c = "q" THEN "line" ELSE ""]

-----------------------------------------------------------------------------
(* The parts together.                                                      *)
convars == <<part, kbdvars, mousevars, termvars>>
KbdPart(A)   == part = "keyboard" /\ A /\ UNCHANGED <<part, mousevars, termvars>>
MousePart(A) == part = "mouse" /\ A /\ UNCHANGED <<part, kbdvars, termvars>>
TermPart(A)  == part = "terminal" /\ A /\ UNCHANGED <<part, kbdvars, mousevars>>

ConInit == KbdInit /\ MouseInit /\ TermInit /\ part \in {"keyboard", "mouse", "terminal"}
ConNext == KbdPart(KbdNext) \/ MousePart(MouseNext) \/ TermPart(TermNext)
\* The fairness of the parts' own specifications.
ConSpec ==
  /\ ConInit /\ [][ConNext]_convars
  /\ WF_convars(KbdPart(Loop)) /\ WF_convars(KbdPart(keyboard_callback))
  /\ WF_convars(MousePart(mouse_irq_handler))

-----------------------------------------------------------------------------
\* A key that was read is dispatched, and the mouse's packets come into step
\* again after a lost byte (keyboard_callback, mouse_irq_handler).
InputArrives == CodesAreTaken /\ Resyncs
=============================================================================
