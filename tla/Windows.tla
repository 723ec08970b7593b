------------------------------ MODULE Windows ------------------------------
(***************************************************************************)
(* kernel/wm.c, the windows of kernel/kernel.c and the part of kmain's loop *)
(* that moves them: which windows are open, minimized or maximized, where   *)
(* they are, which is in front, what a click reaches, and how the held      *)
(* button drags and resizes them.                                           *)
(*                                                                          *)
(* One step is one round of the loop, with the key it has taken, the left   *)
(* button and two readings of the pointer: the click is looked up at one, p *)
(* and the window is dragged to another, q, as the mouse may interrupt in   *)
(* between.  What a click on a menu, an icon or a file leads to depends on  *)
(* text and lists that are not kept here, so each result it can have is     *)
(* allowed.                                                                 *)
(***************************************************************************)
EXTENDS Integers, Sequences, FiniteSets

CONSTANTS
  Width, Height,   \* fb.width, fb.height
  Points,          \* where the pointer can be
  Apps,            \* bound: the applications that are started by hand
  MaxClicks        \* bound: left clicks

\* The windows in the order they are registered, which is the order they are
\* drawn in (but for the one in front, which comes last).
Order == <<"notepad", "file", "taskmgr", "display", "terminal", "imgview", "wavplay">>
\* The order in which a click is tried on the windows behind the front one.
HitOrder == <<"notepad", "file", "taskmgr", "display", "terminal", "wavplay", "imgview">>
QuickLaunch == <<"file", "taskmgr", "terminal", "wavplay">>
Wins == {Order[i] : i \in 1 .. Len(Order)}
NONE == "none"

ASSUME ScreenAssumption ==
  /\ Width \in Nat /\ Width >= 560 /\ Height \in Nat /\ Height >= 330
  /\ Points \subseteq (0 .. Width - 1) \X (0 .. Height - 1)
  /\ Apps \subseteq {"notepad", "terminal", "imgview", "wavplay"} /\ MaxClicks \in Nat

Rect(x, y, w, h) == [x |-> x, y |-> y, w |-> w, h |-> h]
None   == Rect(0, 0, 0, 0)
Rects  == [x : Int, y : Int, w : Int, h : Int]
Window == [open : BOOLEAN, minimized : BOOLEAN, maximized : BOOLEAN, dragging : BOOLEAN,
           resizing : BOOLEAN, g : Rects, prev : Rects, off : Int \X Int, grip : Int \X Int]
Closed == [open |-> FALSE, minimized |-> FALSE, maximized |-> FALSE, dragging |-> FALSE,
           resizing |-> FALSE, g |-> None, prev |-> None,
           off |-> <<0, 0>>, grip |-> <<0, 0>>]

VARIABLES
  ws,              \* the windows: [win, front, picker, login]
  prev_btn,        \* was the left button down in the last round
  clicks           \* clicks still to come
vars == <<ws, prev_btn, clicks>>

\* win: the seven windows; front: g_front_id; picker: whose callback the file
\* picker has; login: g_login_active.  In a window, off and grip (where the
\* pointer took hold of it) and prev (where it was before it was maximized) are
\* set to zero by the release or the restore after which nobody reads them.
States == [win : [Wins -> Window], front : Wins, picker : {NONE, "notepad", "wavplay"}, login : BOOLEAN]

\* The windows are registered, nobody is logged in.
Init ==
  /\ ws = [win |-> [w \in Wins |-> Closed], front |-> "taskmgr", picker |-> NONE, login |-> TRUE]
  /\ prev_btn = FALSE /\ clicks = MaxClicks

Visible(s, w) == s.win[w].open /\ ~s.win[w].minimized
Within(v, lo, n) == v >= lo /\ v < lo + n
In(p, x, y, w, h) == Within(p[1], x, w) /\ Within(p[2], y, h)

---------------------------------------------------------------------------
(* Opening, closing, minimizing, maximizing.                               *)

\* Where a window opens.
Place(w) ==
  CASE w = "notepad"  -> Rect(120, 80, IF Width > 400 THEN Width - 240 ELSE 320,
                                       IF Height > 200 THEN Height - 160 ELSE 160)
    [] w = "file"     -> Rect(80, 80, IF Width > 500 THEN Width - 200 ELSE 320,
                                      IF Height > 300 THEN Height - 220 ELSE 180)
    [] w = "taskmgr"  -> Rect(120, 100, IF Width > 480 THEN Width - 240 ELSE 360,
                                        IF Height > 260 THEN Height - 260 ELSE 200)
    [] w = "display"  -> Rect(140, 120, 360, 160)
    [] w = "terminal" -> Rect(180, 120, IF Width > 420 THEN Width - 260 ELSE 360,
                                        IF Height > 260 THEN Height - 260 ELSE 220)
    [] w = "imgview"  -> Rect(160, 110, IF Width > 520 THEN Width - 220 ELSE 360,
                                        IF Height > 360 THEN Height - 260 ELSE 220)
    [] OTHER          -> Rect(200, 140, 360, 160)

Put(s, w, v)  == [s EXCEPT !.win[w] = v]
Front(s, w)   == [s EXCEPT !.front = w]
Pick(s, who)  == [s EXCEPT !.picker = who]
Hide(v)       == [v EXCEPT !.open = FALSE]

\* notepad_open_path clears its window's record; imgview_open_path has no
\* early return; the others do nothing when the window can be seen already.
Opened(v, w) ==
  IF w = "notepad" THEN [Closed EXCEPT !.open = TRUE, !.g = Place(w)]
  ELSE IF w # "imgview" /\ v.open /\ ~v.minimized THEN v
  ELSE [v EXCEPT !.open = TRUE, !.minimized = FALSE, !.maximized = FALSE, !.g = Place(w),
                 !.dragging = IF w = "wavplay" THEN FALSE ELSE @]

\* ..._open, and the wm_set_front that ends it or follows it.
Open(s, w) == Front(Put(s, w, Opened(s.win[w], w)), w)

Shut(v, w) ==
  [v EXCEPT !.open = FALSE, !.minimized = FALSE, !.maximized = FALSE,
            !.resizing = IF w = "imgview" THEN FALSE ELSE @,
            !.dragging = IF w = "wavplay" THEN FALSE ELSE @]

\* ..._close; the file window takes the picker with it.
Close(s, w) ==
  IF w = "file" THEN Pick(Put(s, w, Shut(s.win[w], w)), NONE) ELSE Put(s, w, Shut(s.win[w], w))

Full == Rect(6, 32, Width - 12, Height - 68)

\* ..._toggle_maximize.
Toggled(v) ==
  IF ~v.open THEN v
  ELSE IF v.maximized THEN [v EXCEPT !.g = v.prev, !.prev = None, !.maximized = FALSE]
  ELSE [v EXCEPT !.prev = v.g, !.g = Full, !.maximized = TRUE]
ToggleMax(s, w) == Put(s, w, Toggled(s.win[w]))
Minimize(s, w)  == Put(s, w, [s.win[w] EXCEPT !.minimized = TRUE])

\* file_picker_start: the file window is opened only when it is not open.
PickerStart(s, who) ==
  Front(IF s.win["file"].open THEN Pick(s, who) ELSE Open(Pick(s, who), "file"), "file")

\* notepad_file_pick_cb, or wavplay_pick_cb, which does not place its window.
PickCallback(s) ==
  IF s.picker = "notepad" THEN Open(s, "notepad")
  ELSE Front(Put(s, "wavplay", [s.win["wavplay"] EXCEPT !.open = TRUE, !.minimized = FALSE]), "wavplay")
\* file_picker_handle_selection.
PickerSelect(s) ==
  LET t == PickCallback(s) IN Pick(Put(t, "file", Hide(t.win["file"])), NONE)

\* filewin_open or taskmgr_open alone: a window in sight does not come forward.
Start(s, w) == IF Visible(s, w) THEN s ELSE Open(s, w)

\* login_attempt that succeeds, with start_desktop_session.
Login(s) == Start(Start([s EXCEPT !.login = FALSE], "file"), "taskmgr")
\* launch_do_logout.
Logout(s) ==
  LET t == Put([s EXCEPT !.login = TRUE], "notepad", Hide(s.win["notepad"]))
  IN  Put(t, "file", Hide(t.win["file"]))

---------------------------------------------------------------------------
(* wm.c.                                                                   *)

Id(w)     == CHOOSE i \in 1 .. Len(Order) : Order[i] = w
After(w, i) == Order[((Id(w) - 1 + i) % Len(Order)) + 1]

\* Mutant: the search begins with the window that is in front.
CycleStays(s) ==
  LET hits == {i \in 0 .. Len(Order) : s.win[After(s.front, i)].open}
  IN  IF hits = {} THEN s ELSE Front(s, After(s.front, CHOOSE i \in hits : \A j \in hits : i <= j))

wm_cycle_next(s) ==
  LET hits == {i \in 1 .. Len(Order) : s.win[After(s.front, i)].open}
  IN  IF hits = {} THEN s ELSE Front(s, After(s.front, CHOOSE i \in hits : \A j \in hits : i <= j))

\* Buttons are 120 wide and 124 apart, one for each open window.
Rank(s, w) == Cardinality({i \in 1 .. Id(w) - 1 : s.win[Order[i]].open})
Buttons(s, x, start) == {w \in Wins : s.win[w].open /\ Within(x, start + 124 * Rank(s, w), 120)}

\* Where the buttons begin for kmain, which is not where they are drawn.
ClickStart == 80

\* wm_handle_taskbar_click and the windows' callbacks: to the front, and in
\* or out of sight.
TaskbarButton(s, w) == Front(Put(s, w, [s.win[w] EXCEPT !.minimized = ~@]), w)

\* The bottom of the screen: the start button, the shortcuts, the buttons.
Taskbar(s, p) ==
  LET short == {i \in 1 .. Len(QuickLaunch) : In(p, 86 + 34 * (i - 1), Height - 30, 28, 28)}
      hit   == IF Within(p[2], Height - 30, 28) THEN Buttons(s, p[1], ClickStart) ELSE {}
  IN  IF p[1] < 90 THEN {s}
      ELSE IF short # {} THEN {Open(s, QuickLaunch[i]) : i \in {j \in short : QuickLaunch[j] \in Apps \cup {"file", "taskmgr"}}}
      ELSE IF hit # {} THEN {TaskbarButton(s, w) : w \in hit} ELSE {s}

---------------------------------------------------------------------------
(* A left click.                                                           *)

\* A menu, the prompt or the launch menu takes it.
Overlay(s) ==
  {s, Close(s, "notepad"), PickerStart(s, "notepad"), Logout(s)} \cup
  (IF "notepad" \in Apps THEN {Open(s, "notepad")} ELSE {})

\* The menu bar, which is there for the text editor only.
TopMenu(s, p) ==
  IF s.front = "notepad" /\ Visible(s, "notepad") /\ p[2] < 140
  THEN {s, Minimize(s, s.front), ToggleMax(s, s.front), Close(s, "notepad"), PickerStart(s, "notepad")}
  ELSE {}

Frame(g, p) == In(p, g.x - 2, g.y - 24, g.w + 4, g.h + 26)
Shown(s, p) == {w \in Wins : Visible(s, w) /\ Frame(s.win[w].g, p)}

\* The window a click falls on: the one in front or the first of the others.
Clicked(s, p) ==
  IF Shown(s, p) = {} THEN NONE
  ELSE IF s.front \in Shown(s, p) THEN s.front
  ELSE HitOrder[CHOOSE i \in 1 .. Len(HitOrder) :
         HitOrder[i] \in Shown(s, p) /\ \A j \in 1 .. i - 1 : HitOrder[j] \notin Shown(s, p)]
Raise(s, p) == IF Clicked(s, p) = NONE THEN s ELSE Front(s, Clicked(s, p))

\* An icon, or a file in the list, is opened, selected, or has no program.
Files(s) == {s} \cup {Open(s, w) : w \in Apps \cap {"notepad", "imgview"}}

\* A button of the title bar, dx from its right end.
TitleButton(g, p, dx, w) == In(p, g.x + g.w - dx, g.y - 20, w, 14)

\* The text editor: its menu line (New, Open, Save), then its title bar.
Editor(s, g, p) ==
  IF In(p, g.x + 72, g.y + 2, 60, 14) THEN {PickerStart(s, "notepad")}
  ELSE IF In(p, g.x + 6, g.y + 2, 60, 14) \/ In(p, g.x + 138, g.y + 2, 60, 14) THEN {s}
  ELSE IF TitleButton(g, p, 60, 18) THEN {Minimize(s, "notepad")}
  ELSE IF TitleButton(g, p, 40, 18) THEN {ToggleMax(s, "notepad")}
  ELSE IF TitleButton(g, p, 20, 20) THEN {Close(s, "notepad")}
  ELSE Files(s)

\* The explorer's list, the WAV player's Open; what is left falls through to
\* the icons of the desktop.
Inside(s, g, p) ==
  IF s.front = "file" /\ In(p, g.x + 146, g.y + 26, g.w - 152, g.h - 30) THEN
    (IF s.picker = NONE THEN Files(s) ELSE {s, PickerSelect(s)})
  ELSE IF s.front = "wavplay" /\ In(p, g.x + 12, g.y + 12, 96, 22) THEN {PickerStart(s, "wavplay")}
  ELSE Files(s)

\* Inside the window in front: the close button of its title bar comes first.
Content(s, p) ==
  LET g == s.win[s.front].g
  IN  IF ~Visible(s, s.front) THEN Files(s)
      ELSE IF s.front = "notepad" THEN Editor(s, g, p)
      ELSE IF TitleButton(g, p, 24, 18) THEN {Close(s, s.front)}
      ELSE Inside(s, g, p)

LeftClick(s, p) ==
  Overlay(s) \cup
  (IF p[2] >= Height - 32 THEN Taskbar(s, p) ELSE TopMenu(s, p) \cup Content(Raise(s, p), p))

---------------------------------------------------------------------------
(* The held button.                                                        *)

\* Mutant: the right edge is not looked at.
ClampLoose(v, lo, size, edge) == IF v < lo THEN lo ELSE v

\* First the left or upper edge, then the other.
Clamp(v, lo, size, edge) ==
  LET u == IF v < lo THEN lo ELSE v IN IF u + size > edge THEN edge - size ELSE u

OnTitle(g, q) == In(q, g.x, g.y - 22, g.w, 20)

Dragged(v, b, q) ==
  LET u == IF b /\ ~v.dragging /\ OnTitle(v.g, q)
           THEN [v EXCEPT !.dragging = TRUE, !.off = <<q[1] - v.g.x, q[2] - v.g.y>>] ELSE v
  IN  IF ~u.dragging THEN u
      ELSE IF ~b THEN [u EXCEPT !.dragging = FALSE, !.off = <<0, 0>>]
      ELSE [u EXCEPT !.g.x = Clamp(q[1] - u.off[1], 0, u.g.w, Width),
                     !.g.y = Clamp(q[2] - u.off[2], 24, u.g.h, Height)]

Least(v, lo) == IF v < lo THEN lo ELSE v
\* A size that was at least lo, cut at the edge of the screen.
Fit(at, v, lo, edge) == IF at + Least(v, lo) > edge THEN edge - at ELSE Least(v, lo)

\* The image viewer's corner.
Resized(v, b, q) ==
  LET cx == v.g.x + v.g.w
      cy == v.g.y + v.g.h
      grab == b /\ ~v.resizing /\ q[1] >= cx - 10 /\ q[1] <= cx /\ q[2] >= cy - 10 /\ q[2] <= cy
      u == IF grab THEN [v EXCEPT !.resizing = TRUE, !.grip = <<cx - q[1], cy - q[2]>>] ELSE v
  IN  IF ~u.resizing THEN Dragged(u, b, q)
      ELSE IF ~b THEN [u EXCEPT !.resizing = FALSE, !.grip = <<0, 0>>]
      ELSE [u EXCEPT !.g.w = Fit(u.g.x, q[1] + u.grip[1] - u.g.x, 180, Width),
                     !.g.h = Fit(u.g.y, q[2] + u.grip[2] - u.g.y, 140, Height)]

\* Only the window in front; a minimized text editor can still be dragged.
Held(s) == s.win[s.front].open /\ (s.front = "notepad" \/ ~s.win[s.front].minimized)
Drag(s, b, q) ==
  IF ~Held(s) THEN s
  ELSE Put(s, s.front, IF s.front = "imgview" THEN Resized(s.win[s.front], b, q)
                       ELSE Dragged(s.win[s.front], b, q))

---------------------------------------------------------------------------
(* Rounds of kmain's loop.                                                 *)

\* The keys that reach windows; Enter is for the prompt for a new file.
Keys == {NONE, "alt_tab"} \cup (IF "notepad" \in Apps THEN {"enter"} ELSE {})

\* Alt+Tab works at any time, logged in or not.
Keyed(k) == IF k = "alt_tab" THEN wm_cycle_next(ws) ELSE ws
Edge(b)  == b /\ ~prev_btn
Count(b) == /\ prev_btn' = b /\ (Edge(b) => clicks > 0)
            /\ clicks' = IF Edge(b) THEN clicks - 1 ELSE clicks

\* The login screen: a click or Enter may be a login.
LoginRound(k, b) ==
  /\ ws.login /\ Count(b)
  /\ ws' \in {Keyed(k), Login(Keyed(k))}

\* The windows once a click, if there is one, has been dealt with.
Handled(k, b) ==
  IF Edge(b) THEN UNION {LeftClick(Keyed(k), p) : p \in Points} ELSE {Keyed(k)}

\* Enter in the prompt opens the file that was made, if it could be made.
Typed(s, k) == IF k = "enter" THEN {s, Open(s, "notepad")} ELSE {s}

\* A round of the desktop.
DesktopRound(k, b, q) ==
  /\ ~ws.login /\ Count(b)
  /\ \E s \in Handled(k, b) : \E t \in Typed(s, k) : ws' = Drag(t, b, q)

\* The text editor in front takes ESC, which closes it, or Backspace; in both
\* cases the rest of the round, the dragging, is skipped.
EditorRound(b) ==
  /\ ~ws.login /\ Count(b)
  /\ \E s \in Handled(NONE, b) :
       /\ s.front = "notepad" /\ s.win["notepad"].open
       /\ ws' \in {s, Close(s, "notepad")}

Next ==
  \E b \in BOOLEAN :
    \/ \E k \in Keys :
         \/ LoginRound(k, b)
         \/ \E q \in Points : DesktopRound(k, b, q)
    \/ EditorRound(b)

Spec == Init /\ [][Next]_vars

---------------------------------------------------------------------------
(* Properties.                                                             *)

\* Types: the front window of wm.c is always one of the seven, although wm_init
\* starts with none and windows come and go.
WinTypeOK ==
  ws \in States /\ prev_btn \in BOOLEAN /\ clicks \in 0 .. MaxClicks

OnScreen(g) == g.x >= 0 /\ g.y >= 24 /\ g.w > 0 /\ g.h > 0 /\ g.x + g.w <= Width /\ g.y + g.h <= Height

\* A window that is open lies on the screen with its title bar below the top
\* edge, so that it can be reached: whatever was dragged, resized, maximized
\* and restored before, and also when wavplay_pick_cb opens the WAV player
\* where it happened to be last.
WindowsOnScreen == \A w \in Wins : ws.win[w].open => OnScreen(ws.win[w].g)

\* A file picker that waits for a choice has its window: filewin_close ends
\* the picking, and after a logout the next login opens the window again.
PickerHasWindow == ~ws.login /\ ws.picker # NONE => ws.win["file"].open

\* The three together, after any sequence of clicks, keys and moves.
WindowsSafe == WinTypeOK /\ WindowsOnScreen /\ PickerHasWindow

Kept(v) == (v.open => OnScreen(v.g)) /\ (v.maximized => OnScreen(v.prev))
Sound(s) ==
  /\ s \in States /\ \A w \in Wins : Kept(s.win[w])
  /\ s.picker = "wavplay" => OnScreen(s.win["wavplay"].g)
  /\ ~s.login /\ s.picker # NONE => s.win["file"].open

\* What the two need to be kept by every step: the place a maximized window
\* (..._toggle_maximize) will be restored to is on the screen too, and so is
\* the WAV player, open or not, while a file is picked for it.
WinInv == Sound(ws)

Cycle[n \in 0 .. Len(Order)] == IF n = 0 THEN ws ELSE wm_cycle_next(Cycle[n - 1])
\* Alt+Tab (wm_cycle_next), pressed often enough, reaches every open window.
CycleReachesAll ==
  \A w \in Wins : ws.win[w].open => \E n \in 1 .. Len(Order) : Cycle[n].front = w
=============================================================================
