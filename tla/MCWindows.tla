----------------------------- MODULE MCWindows -----------------------------
(* A 640 x 480 screen for TLC. *)
EXTENDS Windows

\* The explorer's close button, the WAV player's shortcut, its Open button
\* (over the explorer's list), its close button, the image viewer's corner, a
\* corner of the screen; the close buttons are on title bars.
MCPoints == {<<505, 65>>, <<200, 460>>, <<230, 155>>, <<540, 125>>, <<575, 325>>, <<639, 479>>}

\* A place on the title bar of the monitor, and two of the screen.
MCDragPoints == {<<200, 95>>, <<639, 479>>, <<0, 0>>}

\* Two buttons of the taskbar.
MCBarPoints == {<<240, 460>>, <<400, 460>>}
===========================================================================
