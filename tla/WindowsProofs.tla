--------------------------- MODULE WindowsProofs ---------------------------
(***************************************************************************)
(* Windows stay on the screen, and a file picker keeps its window, for      *)
(* every screen of at least 560 x 330 points, any pointer positions and any *)
(* number of clicks.                                                        *)
(***************************************************************************)
EXTENDS Windows, TLAPS

LEMMA WinsAre == Wins = {"notepad", "file", "taskmgr", "display", "terminal", "imgview", "wavplay"}
BY DEF Wins, Order

---------------------------------------------------------------------------
(* One window.                                                             *)

\* Every window opens on the screen.
LEMMA PlaceOnScreen ==
  ASSUME NEW w \in Wins
  PROVE  Place(w) \in Rects /\ OnScreen(Place(w))
BY ScreenAssumption, WinsAre DEF Place, Rect, Rects, OnScreen

\* The two comparisons of a drag put a window that fits back between the
\* edges.
LEMMA ClampBetween ==
  ASSUME NEW v \in Int, NEW lo \in Int, NEW size \in Int, NEW edge \in Int, lo + size <= edge
  PROVE  Clamp(v, lo, size, edge) \in Int /\ Clamp(v, lo, size, edge) >= lo
         /\ Clamp(v, lo, size, edge) + size <= edge
BY DEF Clamp

\* A size that is cut at the edge leaves something of the window.
\* The two limits Resized uses.
LEMMA FitWidth ==
  ASSUME NEW at \in Int, NEW v \in Int, at < Width
  PROVE  Fit(at, v, 180, Width) \in Int /\ Fit(at, v, 180, Width) > 0 /\ at + Fit(at, v, 180, Width) <= Width
BY ScreenAssumption DEF Fit, Least

LEMMA FitHeight ==
  ASSUME NEW at \in Int, NEW v \in Int, at < Height
  PROVE  Fit(at, v, 140, Height) \in Int /\ Fit(at, v, 140, Height) > 0 /\ at + Fit(at, v, 140, Height) <= Height
BY ScreenAssumption DEF Fit, Least

\* Dragging keeps a window as it was but for its place, which stays on the
\* screen.
LEMMA DraggedKept ==
  ASSUME NEW v \in Window, NEW b \in BOOLEAN, NEW q \in Int \X Int, v.open, Kept(v)
  PROVE  /\ Dragged(v, b, q) \in Window /\ Dragged(v, b, q).open
         /\ Kept(Dragged(v, b, q))
<1> DEFINE u == IF b /\ ~v.dragging /\ OnTitle(v.g, q)
                THEN [v EXCEPT !.dragging = TRUE, !.off = <<q[1] - v.g.x, q[2] - v.g.y>>] ELSE v
           mx == Clamp(q[1] - u.off[1], 0, u.g.w, Width)
           my == Clamp(q[2] - u.off[2], 24, u.g.h, Height)
<1>1. v.g \in Rects /\ OnScreen(v.g) /\ v.off \in Int \X Int /\ q[1] \in Int /\ q[2] \in Int
  BY DEF Window, Kept
<1> DEFINE held == [v EXCEPT !.dragging = TRUE, !.off = <<q[1] - v.g.x, q[2] - v.g.y>>]
<1>a. /\ held \in Window /\ held.open = v.open /\ held.g = v.g /\ held.prev = v.prev
      /\ held.maximized = v.maximized
  <2>1. <<q[1] - v.g.x, q[2] - v.g.y>> \in Int \X Int
    BY <1>1 DEF Rects
  <2> DEFINE o == <<q[1] - v.g.x, q[2] - v.g.y>>
  <2> HIDE DEF o
  <2> QED BY <2>1 DEF Window, o
<1>2. /\ u \in Window /\ u.open = v.open /\ u.g = v.g /\ u.prev = v.prev /\ u.maximized = v.maximized
  <2>1. u \in {v, held}
    OBVIOUS
  <2> HIDE DEF u, held
  <2> QED BY <2>1, <1>a
<1> HIDE DEF u, held
<1>3. u.off \in Int \X Int
  BY <1>2 DEF Window
<1>4. Width \in Int /\ Height \in Int
  BY ScreenAssumption
<1>x. mx \in Int /\ mx >= 0 /\ mx + u.g.w <= Width
  <2> DEFINE to   == q[1] - u.off[1]
             size == u.g.w
  <2>1. to \in Int /\ size \in Int /\ 0 + size <= Width /\ 0 \in Int
    BY <1>1, <1>2, <1>3, <1>4 DEF OnScreen, Rects
  <2> HIDE DEF to, size
  <2>2. Clamp(to, 0, size, Width) \in Int /\ Clamp(to, 0, size, Width) >= 0
        /\ Clamp(to, 0, size, Width) + size <= Width
    BY <2>1, <1>4, ClampBetween
  <2> QED BY <2>2 DEF to, size
<1>y. my \in Int /\ my >= 24 /\ my + u.g.h <= Height
  <2> DEFINE to   == q[2] - u.off[2]
             size == u.g.h
  <2>1. to \in Int /\ size \in Int /\ 24 + size <= Height /\ 24 \in Int
    BY <1>1, <1>2, <1>3, <1>4 DEF OnScreen, Rects
  <2> HIDE DEF to, size
  <2>2. Clamp(to, 24, size, Height) \in Int /\ Clamp(to, 24, size, Height) >= 24
        /\ Clamp(to, 24, size, Height) + size <= Height
    BY <2>1, <1>4, ClampBetween
  <2> QED BY <2>2 DEF to, size
<1> DEFINE moved == [u EXCEPT !.g.x = mx, !.g.y = my]
           left  == [u EXCEPT !.dragging = FALSE, !.off = <<0, 0>>]
<1>9. Dragged(v, b, q) \in {u, left, moved}
  BY DEF Dragged, u
<1> HIDE DEF mx, my
<1>6. moved \in Window /\ moved.open /\ Kept(moved)
  <2>1. /\ moved.g.x = mx /\ moved.g.y = my /\ moved.g.w = v.g.w /\ moved.g.h = v.g.h
        /\ moved.open = u.open /\ moved.maximized = u.maximized /\ moved.prev = u.prev
    BY <1>1, <1>2 DEF Window, Rects
  <2>2. moved \in Window
    BY <1>2, <1>x, <1>y DEF Window, Rects
  <2>3. OnScreen(moved.g)
    <3> HIDE DEF moved
    <3> QED BY <2>1, <1>1, <1>2, <1>x, <1>y DEF OnScreen
  <2> HIDE DEF moved
  <2> QED BY <2>1, <2>2, <2>3, <1>2 DEF Kept
<1>7. left \in Window /\ left.open /\ Kept(left)
  <2>1. left \in Window
    <3> DEFINE zero == <<0, 0>>
    <3>1. zero \in Int \X Int
      OBVIOUS
    <3> HIDE DEF zero
    <3>2. [u EXCEPT !.dragging = FALSE, !.off = zero] \in Window
      BY <1>2, <3>1 DEF Window
    <3> QED BY <3>2 DEF zero
  <2>2. left.open = u.open /\ left.g = u.g /\ left.maximized = u.maximized /\ left.prev = u.prev
    BY <1>2 DEF Window
  <2> HIDE DEF left
  <2> QED BY <2>1, <2>2, <1>2 DEF Kept
<1>8. u.open /\ Kept(u)
  BY <1>2 DEF Kept
<1> HIDE DEF moved, left
<1> QED BY <1>2, <1>6, <1>7, <1>8, <1>9
\* Resizing keeps the image viewer on the screen, too.
LEMMA ResizedKept ==
  ASSUME NEW v \in Window, NEW b \in BOOLEAN, NEW q \in Int \X Int, v.open, Kept(v)
  PROVE  /\ Resized(v, b, q) \in Window /\ Resized(v, b, q).open
         /\ Kept(Resized(v, b, q))
<1> DEFINE cx == v.g.x + v.g.w
           cy == v.g.y + v.g.h
           grab == b /\ ~v.resizing /\ q[1] >= cx - 10 /\ q[1] <= cx /\ q[2] >= cy - 10 /\ q[2] <= cy
           grip == <<cx - q[1], cy - q[2]>>
           held == [v EXCEPT !.resizing = TRUE, !.grip = grip]
           u    == IF grab THEN held ELSE v
           nw   == Fit(u.g.x, q[1] + u.grip[1] - u.g.x, 180, Width)
           nh   == Fit(u.g.y, q[2] + u.grip[2] - u.g.y, 140, Height)
           left  == [u EXCEPT !.resizing = FALSE, !.grip = <<0, 0>>]
           sized == [u EXCEPT !.g.w = nw, !.g.h = nh]
<1>1. v.g \in Rects /\ OnScreen(v.g) /\ v.grip \in Int \X Int /\ q[1] \in Int /\ q[2] \in Int
  BY DEF Window, Kept
<1>2. /\ u \in Window /\ u.open = v.open /\ u.g = v.g /\ u.prev = v.prev /\ u.maximized = v.maximized
  <2>1. grip \in Int \X Int
    BY <1>1 DEF Rects
  <2> HIDE DEF grip
  <2>2. /\ held \in Window /\ held.open = v.open /\ held.g = v.g /\ held.prev = v.prev
        /\ held.maximized = v.maximized
    BY <2>1 DEF Window
  <2> HIDE DEF held, grab
  <2> QED BY <2>2
<1>3. \/ Resized(v, b, q) = Dragged(u, b, q)
      \/ Resized(v, b, q) \in {left, sized}
  BY DEF Resized
<1> HIDE DEF u
<1>4. u.grip \in Int \X Int /\ Width \in Int /\ Height \in Int
  BY <1>2, ScreenAssumption DEF Window
<1>5. /\ nw \in Int /\ nw > 0 /\ u.g.x + nw <= Width
      /\ nh \in Int /\ nh > 0 /\ u.g.y + nh <= Height
  <2> DEFINE x == u.g.x
             y == u.g.y
             tw == q[1] + u.grip[1] - x
             th == q[2] + u.grip[2] - y
  <2>1. x \in Int /\ y \in Int /\ tw \in Int /\ th \in Int /\ x < Width /\ y < Height
    BY <1>1, <1>2, <1>4 DEF OnScreen, Rects
  <2> HIDE DEF tw, th, x, y
  <2>2. Fit(x, tw, 180, Width) \in Int /\ Fit(x, tw, 180, Width) > 0 /\ x + Fit(x, tw, 180, Width) <= Width
    BY <2>1, FitWidth
  <2>3. Fit(y, th, 140, Height) \in Int /\ Fit(y, th, 140, Height) > 0 /\ y + Fit(y, th, 140, Height) <= Height
    BY <2>1, FitHeight
  <2> QED BY <2>2, <2>3 DEF tw, th, x, y
<1> HIDE DEF nw, nh
<1>6. sized \in Window /\ sized.open /\ Kept(sized)
  <2>1. /\ sized.g.x = v.g.x /\ sized.g.y = v.g.y /\ sized.g.w = nw /\ sized.g.h = nh
        /\ sized.open = u.open /\ sized.maximized = u.maximized /\ sized.prev = u.prev
    BY <1>1, <1>2 DEF Window, Rects
  <2>2. sized \in Window
    BY <1>2, <1>5 DEF Window, Rects
  <2>3. OnScreen(sized.g)
    <3> HIDE DEF sized
    <3> QED BY <2>1, <1>1, <1>2, <1>5 DEF OnScreen
  <2> HIDE DEF sized
  <2> QED BY <2>1, <2>2, <2>3, <1>2 DEF Kept
<1>7. left \in Window /\ left.open /\ Kept(left)
  <2> DEFINE zero == <<0, 0>>
  <2>1. zero \in Int \X Int
    OBVIOUS
  <2> HIDE DEF zero
  <2>2. [u EXCEPT !.resizing = FALSE, !.grip = zero] \in Window
    BY <1>2, <2>1 DEF Window
  <2>3. left \in Window
    BY <2>2 DEF zero
  <2>4. left.open = u.open /\ left.g = u.g /\ left.maximized = u.maximized /\ left.prev = u.prev
    BY <1>2 DEF Window
  <2> HIDE DEF left
  <2> QED BY <2>3, <2>4, <1>2 DEF Kept
<1>8. Dragged(u, b, q) \in Window /\ Dragged(u, b, q).open /\ Kept(Dragged(u, b, q))
  <2>1. u.open /\ Kept(u)
    BY <1>2 DEF Kept
  <2> QED BY <2>1, <1>2, DraggedKept
<1> HIDE DEF left, sized
<1> QED BY <1>3, <1>6, <1>7, <1>8

LEMMA NoneIsRect == None \in Rects
BY DEF None, Rect, Rects

LEMMA ClosedIsWindow == Closed \in Window /\ ~Closed.open /\ ~Closed.maximized
<1> DEFINE zero == <<0, 0>>
<1>1. zero \in Int \X Int
  OBVIOUS
<1> HIDE DEF zero
<1> QED BY <1>1, NoneIsRect DEF Closed, Window, zero

\* Opening, closing, hiding, minimizing and maximizing keep a window.
LEMMA OpenedKept ==
  ASSUME NEW w \in Wins, NEW v \in Window, Kept(v)
  PROVE  Opened(v, w) \in Window /\ Opened(v, w).open /\ Kept(Opened(v, w))
<1> DEFINE pl == Place(w)
<1>1. pl \in Rects /\ OnScreen(pl)
  BY PlaceOnScreen
<1> HIDE DEF pl
<1> DEFINE fresh == [Closed EXCEPT !.open = TRUE, !.g = pl]
           again == [v EXCEPT !.open = TRUE, !.minimized = FALSE, !.maximized = FALSE, !.g = pl,
                              !.dragging = IF w = "wavplay" THEN FALSE ELSE @]
<1>2. fresh \in Window /\ fresh.open /\ ~fresh.maximized /\ fresh.g = pl
  BY <1>1, ClosedIsWindow DEF Window
<1>3. again \in Window /\ again.open /\ ~again.maximized /\ again.g = pl
  BY <1>1 DEF Window
<1>4. \/ Opened(v, w) = fresh
      \/ Opened(v, w) = v /\ v.open
      \/ Opened(v, w) = again
  BY DEF Opened, pl
<1> HIDE DEF fresh, again
<1> QED BY <1>1, <1>2, <1>3, <1>4 DEF Kept

LEMMA ShutKept ==
  ASSUME NEW w \in Wins, NEW v \in Window, Kept(v)
  PROVE  Shut(v, w) \in Window /\ Kept(Shut(v, w)) /\ Shut(v, w).g = v.g
<1>1. Shut(v, w) \in Window /\ ~Shut(v, w).open /\ ~Shut(v, w).maximized /\ Shut(v, w).g = v.g
  BY DEF Shut, Window
<1> QED BY <1>1 DEF Kept

LEMMA HideKept ==
  ASSUME NEW v \in Window, Kept(v)
  PROVE  Hide(v) \in Window /\ Kept(Hide(v)) /\ Hide(v).g = v.g
<1>1. Hide(v) \in Window /\ ~Hide(v).open /\ Hide(v).maximized = v.maximized /\ Hide(v).g = v.g
      /\ Hide(v).prev = v.prev
  BY DEF Hide, Window
<1> QED BY <1>1 DEF Kept

LEMMA MinimizedKept ==
  ASSUME NEW v \in Window, Kept(v), NEW m \in BOOLEAN
  PROVE  LET u == [v EXCEPT !.minimized = m] IN u \in Window /\ Kept(u) /\ u.g = v.g /\ u.open = v.open
<1> DEFINE u == [v EXCEPT !.minimized = m]
<1>1. u \in Window /\ u.open = v.open /\ u.maximized = v.maximized /\ u.g = v.g /\ u.prev = v.prev
  BY DEF Window
<1> HIDE DEF u
<1>2. u \in Window /\ Kept(u) /\ u.g = v.g /\ u.open = v.open
  BY <1>1 DEF Kept
<1> QED BY <1>2 DEF u

LEMMA ToggledKept ==
  ASSUME NEW v \in Window, Kept(v)
  PROVE  /\ Toggled(v) \in Window /\ Kept(Toggled(v)) /\ Toggled(v).open = v.open
         /\ v.open => OnScreen(Toggled(v).g)
         /\ ~v.open => Toggled(v).g = v.g
<1> DEFINE back == [v EXCEPT !.g = v.prev, !.prev = None, !.maximized = FALSE]
           up   == [v EXCEPT !.prev = v.g, !.g = Full, !.maximized = TRUE]
<1>1. Full \in Rects /\ OnScreen(Full)
  BY ScreenAssumption DEF Full, Rect, Rects, OnScreen
<1>2. back \in Window /\ back.open = v.open /\ back.g = v.prev /\ ~back.maximized
  BY NoneIsRect DEF Window
<1>3. up \in Window /\ up.open = v.open /\ up.g = Full /\ up.prev = v.g
  BY <1>1 DEF Window
<1>4. \/ ~v.open /\ Toggled(v) = v
      \/ v.open /\ v.maximized /\ Toggled(v) = back
      \/ v.open /\ Toggled(v) = up
  BY DEF Toggled
<1> HIDE DEF back, up
<1> QED BY <1>1, <1>2, <1>3, <1>4 DEF Kept

---------------------------------------------------------------------------
(* All windows.                                                            *)

\* Sound without what ties the picker to its windows.
Safe(s) == s \in States /\ \A w \in Wins : Kept(s.win[w])
\* That part.
Tied(s) == /\ s.picker = "wavplay" => OnScreen(s.win["wavplay"].g)
           /\ ~s.login /\ s.picker # NONE => s.win["file"].open

LEMMA SoundIs == ASSUME NEW s PROVE Sound(s) <=> Safe(s) /\ Tied(s)
BY DEF Sound, Safe, Tied

LEMMA PutSafe ==
  ASSUME NEW s, Safe(s), NEW w \in Wins, NEW v \in Window, Kept(v)
  PROVE  /\ Safe(Put(s, w, v)) /\ Put(s, w, v).win[w] = v
         /\ \A x \in Wins : x # w => Put(s, w, v).win[x] = s.win[x]
         /\ Put(s, w, v).front = s.front /\ Put(s, w, v).picker = s.picker
         /\ Put(s, w, v).login = s.login
<1> DEFINE t == Put(s, w, v)
<1>1. /\ t \in States /\ t.win[w] = v /\ t.front = s.front /\ t.picker = s.picker
      /\ t.login = s.login /\ \A x \in Wins : x # w => t.win[x] = s.win[x]
  BY DEF Put, Safe, States
<1> HIDE DEF t
<1>2. Safe(t)
  BY <1>1 DEF Safe
<1> QED BY <1>1, <1>2 DEF t

LEMMA FrontSafe ==
  ASSUME NEW s, Safe(s), NEW w \in Wins
  PROVE  /\ Safe(Front(s, w)) /\ Front(s, w).win = s.win /\ Front(s, w).front = w
         /\ Front(s, w).picker = s.picker /\ Front(s, w).login = s.login
<1>1. /\ Front(s, w) \in States /\ Front(s, w).win = s.win /\ Front(s, w).front = w
      /\ Front(s, w).picker = s.picker /\ Front(s, w).login = s.login
  BY DEF Front, Safe, States
<1> QED BY <1>1 DEF Safe

LEMMA PickSafe ==
  ASSUME NEW s, Safe(s), NEW who \in {NONE, "notepad", "wavplay"}
  PROVE  /\ Safe(Pick(s, who)) /\ Pick(s, who).win = s.win /\ Pick(s, who).front = s.front
         /\ Pick(s, who).picker = who /\ Pick(s, who).login = s.login
<1>1. /\ Pick(s, who) \in States /\ Pick(s, who).win = s.win /\ Pick(s, who).front = s.front
      /\ Pick(s, who).picker = who /\ Pick(s, who).login = s.login
  BY DEF Pick, Safe, States
<1> QED BY <1>1 DEF Safe

LEMMA LoginSafe ==
  ASSUME NEW s, Safe(s), NEW b \in BOOLEAN
  PROVE  LET t == [s EXCEPT !.login = b]
         IN  Safe(t) /\ t.win = s.win /\ t.front = s.front /\ t.picker = s.picker /\ t.login = b
<1> DEFINE t == [s EXCEPT !.login = b]
<1>1. t \in States /\ t.win = s.win /\ t.front = s.front /\ t.picker = s.picker /\ t.login = b
  BY DEF Safe, States
<1>2. Safe(t)
  <2> HIDE DEF t
  <2> QED BY <1>1 DEF Safe
<1> QED BY <1>1, <1>2

LEMMA WinOf == ASSUME NEW s, Safe(s), NEW w \in Wins PROVE s.win[w] \in Window /\ Kept(s.win[w])
BY DEF Safe, States

LEMMA SpecialWins == {"notepad", "file", "taskmgr", "terminal", "imgview", "wavplay"} \subseteq Wins
BY WinsAre

\* The window in front changes nothing of what is kept.
LEMMA FrontSound == ASSUME NEW s, Sound(s), NEW w \in Wins PROVE Sound(Front(s, w))
BY SoundIs, FrontSafe DEF Tied

\* That part once the window w is v.
TiedWith(s, w, v) ==
  /\ s.picker = "wavplay" => OnScreen(IF w = "wavplay" THEN v.g ELSE s.win["wavplay"].g)
  /\ ~s.login /\ s.picker # NONE => (IF w = "file" THEN v.open ELSE s.win["file"].open)

\* A window is replaced by another state of it.
LEMMA PutSound ==
  ASSUME NEW s, Safe(s), NEW w \in Wins, NEW v \in Window, Kept(v),
         TiedWith(s, w, v)
  PROVE  Sound(Put(s, w, v))
<1> DEFINE t == Put(s, w, v)
<1>1. /\ Safe(t) /\ t.picker = s.picker /\ t.login = s.login /\ t.win[w] = v
      /\ \A x \in Wins : x # w => t.win[x] = s.win[x]
  BY PutSafe
<1>2. "wavplay" \in Wins /\ "file" \in Wins
  BY SpecialWins
<1> HIDE DEF t
<1>3. t.picker = "wavplay" => OnScreen(t.win["wavplay"].g)
  <2>1. CASE w = "wavplay"
    BY <2>1, <1>1 DEF TiedWith
  <2>2. CASE w # "wavplay"
    BY <2>2, <1>1, <1>2 DEF TiedWith
  <2> QED BY <2>1, <2>2
<1>4. ~t.login /\ t.picker # NONE => t.win["file"].open
  <2>1. CASE w = "file"
    BY <2>1, <1>1 DEF TiedWith
  <2>2. CASE w # "file"
    BY <2>2, <1>1, <1>2 DEF TiedWith
  <2> QED BY <2>1, <2>2
<1>5. Sound(t)
  BY <1>1, <1>3, <1>4, SoundIs DEF Tied
<1> QED BY <1>5 DEF t

\* Opening a window changes that window and the front.
LEMMA OpenSafe ==
  ASSUME NEW s, Safe(s), NEW w \in Wins
  PROVE  /\ Safe(Open(s, w)) /\ Open(s, w).picker = s.picker /\ Open(s, w).login = s.login
         /\ Open(s, w).win[w].open
         /\ \A x \in Wins : x # w => Open(s, w).win[x] = s.win[x]
<1> DEFINE v == Opened(s.win[w], w)
           t == Put(s, w, v)
<1>1. v \in Window /\ v.open /\ Kept(v)
  BY WinOf, OpenedKept
<1> HIDE DEF v
<1>2. /\ Safe(t) /\ t.picker = s.picker /\ t.login = s.login /\ t.win[w] = v
      /\ \A x \in Wins : x # w => t.win[x] = s.win[x]
  BY <1>1, PutSafe
<1> HIDE DEF t
<1>3. /\ Safe(Front(t, w)) /\ Front(t, w).win = t.win
      /\ Front(t, w).picker = t.picker /\ Front(t, w).login = t.login
  BY <1>2, FrontSafe
<1>4. Open(s, w) = Front(t, w)
  BY DEF Open, t, v
<1> QED BY <1>1, <1>2, <1>3, <1>4

\* Opening a window is fine, and opening the explorer is what a picker needs.
LEMMA OpenSound ==
  ASSUME NEW s, Safe(s), NEW w \in Wins,
         s.picker = "wavplay" => w = "wavplay" \/ OnScreen(s.win["wavplay"].g),
         ~s.login /\ s.picker # NONE => w = "file" \/ s.win["file"].open
  PROVE  Sound(Open(s, w))
<1> DEFINE t == Open(s, w)
<1>1. /\ Safe(t) /\ t.picker = s.picker /\ t.login = s.login /\ t.win[w].open
      /\ \A x \in Wins : x # w => t.win[x] = s.win[x]
  BY OpenSafe
<1>2. "wavplay" \in Wins /\ "file" \in Wins
  BY SpecialWins
<1> HIDE DEF t
<1>3. OnScreen(t.win[w].g)
  BY <1>1 DEF Safe, Kept
<1>4. t.picker = "wavplay" => OnScreen(t.win["wavplay"].g)
  <2>1. CASE w = "wavplay"
    BY <2>1, <1>3
  <2>2. CASE w # "wavplay"
    BY <2>2, <1>1, <1>2
  <2> QED BY <2>1, <2>2
<1>5. ~t.login /\ t.picker # NONE => t.win["file"].open
  <2>1. CASE w = "file"
    BY <2>1, <1>1
  <2>2. CASE w # "file"
    BY <2>2, <1>1, <1>2
  <2> QED BY <2>1, <2>2
<1>6. Sound(t)
  BY <1>1, <1>4, <1>5, SoundIs DEF Tied
<1> QED BY <1>6 DEF t

\* The same for a state in which all is kept.
LEMMA OpenKeeps == ASSUME NEW s, Sound(s), NEW w \in Wins PROVE Sound(Open(s, w))
<1>1. Safe(s) /\ Tied(s)
  BY SoundIs
<1> QED BY <1>1, OpenSound DEF Tied

\* A window is replaced: the WAV player stays where it is or is on the screen,
\* the explorer stays open.
LEMMA PutKeeps ==
  ASSUME NEW s, Sound(s), NEW w \in Wins, NEW v \in Window, Kept(v),
         v.open \/ v.g = s.win[w].g \/ w # "wavplay",
         s.win[w].open => v.open \/ w # "file"
  PROVE  Sound(Put(s, w, v))
<1>1. Safe(s) /\ Tied(s)
  BY SoundIs
<1>2. TiedWith(s, w, v)
  <2>1. s.picker = "wavplay" => OnScreen(IF w = "wavplay" THEN v.g ELSE s.win["wavplay"].g)
    <3>1. CASE w = "wavplay"
      BY <3>1, <1>1 DEF Tied, Kept
    <3>2. CASE w # "wavplay"
      BY <3>2, <1>1 DEF Tied
    <3> QED BY <3>1, <3>2
  <2>2. ~s.login /\ s.picker # NONE => (IF w = "file" THEN v.open ELSE s.win["file"].open)
    <3>1. CASE w = "file"
      BY <3>1, <1>1 DEF Tied
    <3>2. CASE w # "file"
      BY <3>2, <1>1 DEF Tied
    <3> QED BY <3>1, <3>2
  <2> QED BY <2>1, <2>2 DEF TiedWith
<1> QED BY <1>1, <1>2, PutSound

\* A picker that is over needs nothing.
LEMMA PickNoneSound == ASSUME NEW s, Safe(s) PROVE Sound(Pick(s, NONE))
<1> DEFINE t == Pick(s, NONE)
<1>1. Safe(t) /\ t.picker = NONE
  BY PickSafe
<1> HIDE DEF t
<1>2. Sound(t)
  BY <1>1, SoundIs DEF Tied, NONE
<1> QED BY <1>2 DEF t

LEMMA CloseSound == ASSUME NEW s, Sound(s), NEW w \in Wins PROVE Sound(Close(s, w))
<1> DEFINE v == Shut(s.win[w], w)
<1>1. Safe(s)
  BY SoundIs
<1>2. v \in Window /\ Kept(v) /\ v.g = s.win[w].g
  BY <1>1, WinOf, ShutKept
<1>3. Close(s, w) = IF w = "file" THEN Pick(Put(s, w, v), NONE) ELSE Put(s, w, v)
  BY DEF Close
<1> HIDE DEF v
<1>4. CASE w = "file"
  <2>1. Safe(Put(s, w, v))
    BY <1>1, <1>2, PutSafe
  <2> QED BY <2>1, <1>3, <1>4, PickNoneSound
<1>5. CASE w # "file"
  BY <1>2, <1>3, <1>5, PutKeeps
<1> QED BY <1>4, <1>5

LEMMA MinimizeSound ==
  ASSUME NEW s, Sound(s), NEW w \in Wins, NEW m \in BOOLEAN
  PROVE  Sound(Put(s, w, [s.win[w] EXCEPT !.minimized = m]))
<1> DEFINE v == [s.win[w] EXCEPT !.minimized = m]
<1>1. Safe(s)
  BY SoundIs
<1>2. s.win[w] \in Window /\ Kept(s.win[w])
  BY <1>1, WinOf
<1>3. v \in Window /\ Kept(v) /\ v.g = s.win[w].g /\ v.open = s.win[w].open
  BY <1>2, MinimizedKept
<1> HIDE DEF v
<1>4. Sound(Put(s, w, v))
  BY <1>3, PutKeeps
<1> QED BY <1>4 DEF v

LEMMA ToggleMaxSound == ASSUME NEW s, Sound(s), NEW w \in Wins PROVE Sound(ToggleMax(s, w))
<1> DEFINE v == Toggled(s.win[w])
<1>1. Safe(s)
  BY SoundIs
<1>2. s.win[w] \in Window /\ Kept(s.win[w])
  BY <1>1, WinOf
<1>3. /\ v \in Window /\ Kept(v) /\ v.open = s.win[w].open
      /\ ~s.win[w].open => v.g = s.win[w].g
  BY <1>2, ToggledKept
<1> HIDE DEF v
<1>4. Sound(Put(s, w, v))
  BY <1>3, PutKeeps
<1> QED BY <1>4 DEF v, ToggleMax

LEMMA TaskbarButtonSound ==
  ASSUME NEW s, Sound(s), NEW w \in Wins PROVE Sound(TaskbarButton(s, w))
<1> DEFINE m == ~s.win[w].minimized
<1>1. m \in BOOLEAN
  OBVIOUS
<1> HIDE DEF m
<1>2. Sound(Put(s, w, [s.win[w] EXCEPT !.minimized = m]))
  BY <1>1, MinimizeSound
<1>3. Sound(Front(Put(s, w, [s.win[w] EXCEPT !.minimized = m]), w))
  BY <1>2, FrontSound
<1> QED BY <1>3 DEF m, TaskbarButton

\* file_picker_start: the explorer is open afterwards.
LEMMA PickerStartSound ==
  ASSUME NEW s, Sound(s), NEW who \in {"notepad", "wavplay"},
         who = "wavplay" => OnScreen(s.win["wavplay"].g)
  PROVE  Sound(PickerStart(s, who))
<1> DEFINE t == Pick(s, who)
           u == IF s.win["file"].open THEN t ELSE Open(t, "file")
<1>1. Safe(s) /\ who \in {NONE, "notepad", "wavplay"} /\ "file" \in Wins
  BY SoundIs, SpecialWins
<1>2. Safe(t) /\ t.win = s.win /\ t.picker = who
  BY <1>1, PickSafe
<1>3. PickerStart(s, who) = Front(u, "file")
  BY DEF PickerStart
<1> HIDE DEF t
<1>4. CASE s.win["file"].open
  <2>1. Sound(t)
    BY <1>2, <1>4, SoundIs DEF Tied
  <2> QED BY <2>1, <1>1, <1>3, <1>4, FrontSound
<1>5. CASE ~s.win["file"].open
  <2>1. Sound(Open(t, "file"))
    BY <1>1, <1>2, OpenSound
  <2> QED BY <2>1, <1>1, <1>3, <1>5, FrontSound
<1> QED BY <1>4, <1>5

\* The callback may open the WAV player where it is: it is on the screen.
LEMMA PickCallbackSafe ==
  ASSUME NEW s, Sound(s), s.picker # NONE PROVE Safe(PickCallback(s))
<1>1. Safe(s) /\ Tied(s) /\ "notepad" \in Wins /\ "wavplay" \in Wins
  BY SoundIs, SpecialWins
<1>2. CASE s.picker = "notepad"
  BY <1>1, <1>2, OpenSafe DEF PickCallback
<1>3. CASE s.picker = "wavplay"
  <2> DEFINE o == s.win["wavplay"]
             v == [o EXCEPT !.open = TRUE, !.minimized = FALSE]
  <2>1. o \in Window /\ Kept(o) /\ OnScreen(o.g)
    BY <1>1, <1>3, WinOf DEF Tied
  <2>2. PickCallback(s) = Front(Put(s, "wavplay", v), "wavplay")
    BY <1>3 DEF PickCallback
  <2> HIDE DEF o
  <2>3. v \in Window /\ v.g = o.g /\ v.maximized = o.maximized /\ v.prev = o.prev
    BY <2>1 DEF Window
  <2> HIDE DEF v
  <2>4. Kept(v)
    BY <2>1, <2>3 DEF Kept
  <2>5. Safe(Put(s, "wavplay", v))
    BY <1>1, <2>3, <2>4, PutSafe
  <2> QED BY <1>1, <2>2, <2>5, FrontSafe
<1> QED BY <1>1, <1>2, <1>3 DEF Safe, States, NONE

LEMMA PickerSelectSound ==
  ASSUME NEW s, Sound(s), s.picker # NONE PROVE Sound(PickerSelect(s))
<1> DEFINE t == PickCallback(s)
           v == Hide(t.win["file"])
<1>1. Safe(t) /\ "file" \in Wins
  BY PickCallbackSafe, SpecialWins
<1>2. PickerSelect(s) = Pick(Put(t, "file", v), NONE)
  BY DEF PickerSelect
<1> HIDE DEF t
<1>3. v \in Window /\ Kept(v)
  BY <1>1, WinOf, HideKept
<1> HIDE DEF v
<1>4. Safe(Put(t, "file", v))
  BY <1>1, <1>3, PutSafe
<1> QED BY <1>2, <1>4, PickNoneSound

\* A login opens the explorer, which a picker from before the logout needs.
LEMMA LoginSound == ASSUME NEW s, Sound(s) PROVE Sound(Login(s))
<1> DEFINE t == [s EXCEPT !.login = FALSE]
           u == Start(t, "file")
<1>1. Safe(s) /\ Tied(s) /\ "file" \in Wins /\ "taskmgr" \in Wins /\ FALSE \in BOOLEAN
  BY SoundIs, SpecialWins
<1>2. Safe(t) /\ t.win = s.win /\ t.picker = s.picker
  BY <1>1, LoginSafe
<1>3. Login(s) = Start(u, "taskmgr")
  BY DEF Login
<1> HIDE DEF t
<1>4. Sound(u)
  <2>1. CASE Visible(t, "file")
    BY <1>1, <1>2, <2>1, SoundIs DEF Tied, Visible, Start
  <2>2. CASE ~Visible(t, "file")
    <3>1. Sound(Open(t, "file"))
      BY <1>1, <1>2, OpenSound DEF Tied
    <3> QED BY <2>2, <3>1 DEF Start
  <2> QED BY <2>1, <2>2
<1> HIDE DEF u
<1> QED BY <1>1, <1>3, <1>4, OpenKeeps DEF Start

LEMMA LogoutSound == ASSUME NEW s, Sound(s) PROVE Sound(Logout(s))
<1> DEFINE a == [s EXCEPT !.login = TRUE]
           v == Hide(s.win["notepad"])
           t == Put(a, "notepad", v)
           x == Hide(t.win["file"])
<1>1. /\ Safe(s) /\ Tied(s) /\ TRUE \in BOOLEAN
      /\ "file" \in Wins /\ "notepad" \in Wins /\ "wavplay" \in Wins
  BY SoundIs, SpecialWins
<1>2. Safe(a) /\ a.win = s.win /\ a.picker = s.picker /\ a.login = TRUE
  BY <1>1, LoginSafe
<1>3. Logout(s) = Put(t, "file", x)
  BY DEF Logout
<1>4. v \in Window /\ Kept(v)
  BY <1>1, WinOf, HideKept
<1> HIDE DEF a, v
<1>5. /\ Safe(t) /\ t.picker = a.picker /\ t.login = a.login
      /\ \A y \in Wins : y # "notepad" => t.win[y] = a.win[y]
  BY <1>1, <1>2, <1>4, PutSafe
<1> HIDE DEF t
<1>6. x \in Window /\ Kept(x)
  BY <1>1, <1>5, WinOf, HideKept
<1> HIDE DEF x
<1>7. TiedWith(t, "file", x)
  <2>1. t.win["wavplay"] = s.win["wavplay"] /\ t.picker = s.picker /\ t.login
    BY <1>1, <1>2, <1>5
  <2> QED BY <2>1, <1>1 DEF TiedWith, Tied
<1> QED BY <1>1, <1>3, <1>5, <1>6, <1>7, PutSound

---------------------------------------------------------------------------
(* The window manager and the clicks.                                      *)

LEMMA LeastIn ==
  ASSUME NEW T \in SUBSET (1 .. 7), T # {} PROVE \E i \in T : \A j \in T : i <= j
<1>1. CASE 1 \in T
  BY <1>1
<1>2. CASE 1 \notin T /\ 2 \in T
  BY <1>2
<1>3. CASE 1 \notin T /\ 2 \notin T /\ 3 \in T
  BY <1>3
<1>4. CASE 1 \notin T /\ 2 \notin T /\ 3 \notin T /\ 4 \in T
  BY <1>4
<1>5. CASE 1 \notin T /\ 2 \notin T /\ 3 \notin T /\ 4 \notin T /\ 5 \in T
  BY <1>5
<1>6. CASE 1 \notin T /\ 2 \notin T /\ 3 \notin T /\ 4 \notin T /\ 5 \notin T /\ 6 \in T
  BY <1>6
<1>7. CASE \A n \in 1 .. 6 : n \notin T
  <2>1. \A j \in T : j = 7
    BY <1>7
  <2>2. PICK i \in T : TRUE
    OBVIOUS
  <2>3. \A j \in T : i <= j
    BY <2>1, <2>2
  <2> QED BY <2>2, <2>3
<1>8. (\A n \in 1 .. 6 : n \notin T) \/ 1 \in T \/ 2 \in T \/ 3 \in T \/ 4 \in T \/ 5 \in T \/ 6 \in T
  OBVIOUS
<1> QED BY <1>8, <1>1, <1>2, <1>3, <1>4, <1>5, <1>6, <1>7

LEMMA AfterIsWindow ==
  ASSUME NEW w \in Wins, NEW i \in 1 .. 7 PROVE After(w, i) \in Wins
<1>1. Len(Order) = 7 /\ \A n \in 1 .. 7 : Order[n] \in Wins
  BY WinsAre DEF Order, Wins
<1>2. Id(w) \in 1 .. 7
  <2>1. \E n \in 1 .. Len(Order) : Order[n] = w
    BY DEF Wins
  <2> QED BY <2>1, <1>1 DEF Id
<1>3. ((Id(w) - 1 + i) % 7) + 1 \in 1 .. 7
  BY <1>2
<1> QED BY <1>1, <1>3 DEF After

LEMMA CycleSound == ASSUME NEW s, Sound(s) PROVE Sound(wm_cycle_next(s))
<1> DEFINE hits == {i \in 1 .. Len(Order) : s.win[After(s.front, i)].open}
           n    == CHOOSE i \in hits : \A j \in hits : i <= j
<1>1. Len(Order) = 7 /\ s.front \in Wins
  BY DEF Order, Sound, States
<1>2. wm_cycle_next(s) = IF hits = {} THEN s ELSE Front(s, After(s.front, n))
  BY DEF wm_cycle_next
<1>3. hits \in SUBSET (1 .. 7)
  BY <1>1
<1> HIDE DEF hits
<1>4. CASE hits # {}
  <2>1. n \in 1 .. 7
    BY <1>3, <1>4, LeastIn
  <2> HIDE DEF n
  <2>2. After(s.front, n) \in Wins
    BY <1>1, <2>1, AfterIsWindow
  <2> QED BY <1>2, <1>4, <2>2, FrontSound
<1>5. CASE hits = {}
  BY <1>2, <1>5
<1> QED BY <1>4, <1>5

LEMMA ClickedIsWindow ==
  ASSUME NEW s, NEW p, Clicked(s, p) # NONE, s.front \in Wins PROVE Clicked(s, p) \in Wins
<1> DEFINE sh == Shown(s, p)
           hits == {i \in 1 .. Len(HitOrder) : HitOrder[i] \in sh}
           n == CHOOSE i \in 1 .. Len(HitOrder) :
                  HitOrder[i] \in sh /\ \A j \in 1 .. i - 1 : HitOrder[j] \notin sh
<1>1. Len(HitOrder) = 7 /\ \A i \in 1 .. 7 : HitOrder[i] \in Wins
  BY WinsAre DEF HitOrder
<1>2. \A w \in Wins : \E i \in 1 .. 7 : HitOrder[i] = w
  BY WinsAre DEF HitOrder
<1>3. sh \subseteq Wins
  BY DEF Shown
<1>4. /\ sh # {}
      /\ Clicked(s, p) = IF s.front \in sh THEN s.front ELSE HitOrder[n]
  BY DEF Clicked
<1> HIDE DEF sh
<1>5. hits \in SUBSET (1 .. 7) /\ hits # {}
  BY <1>1, <1>2, <1>3, <1>4
<1>6. PICK i \in hits : \A j \in hits : i <= j
  BY <1>5, LeastIn
<1>7. i \in 1 .. Len(HitOrder) /\ HitOrder[i] \in sh /\ \A j \in 1 .. i - 1 : HitOrder[j] \notin sh
  BY <1>1, <1>6
<1>8. n \in 1 .. 7
  BY <1>1, <1>7
<1> HIDE DEF n
<1> QED BY <1>1, <1>4, <1>8

LEMMA RaiseSound == ASSUME NEW s, Sound(s), NEW p PROVE Sound(Raise(s, p))
<1>1. s.front \in Wins
  BY DEF Sound, States
<1>2. CASE Clicked(s, p) = NONE
  BY <1>2 DEF Raise
<1>3. CASE Clicked(s, p) # NONE
  <2>1. Clicked(s, p) \in Wins
    BY <1>1, <1>3, ClickedIsWindow
  <2> QED BY <2>1, <1>3, FrontSound DEF Raise
<1> QED BY <1>2, <1>3

LEMMA FilesSound == ASSUME NEW s, Sound(s), NEW t \in Files(s) PROVE Sound(t)
<1>1. \A w \in Apps \cap {"notepad", "imgview"} : w \in Wins
  BY SpecialWins
<1> QED BY <1>1, OpenKeeps DEF Files

LEMMA NotepadPickerSound == ASSUME NEW s, Sound(s) PROVE Sound(PickerStart(s, "notepad"))
<1>1. "notepad" \in {"notepad", "wavplay"} /\ ("notepad" = "wavplay" => OnScreen(s.win["wavplay"].g))
  OBVIOUS
<1> QED BY <1>1, PickerStartSound

LEMMA MinimizesSound == ASSUME NEW s, Sound(s), NEW w \in Wins PROVE Sound(Minimize(s, w))
<1>1. TRUE \in BOOLEAN
  OBVIOUS
<1> QED BY <1>1, MinimizeSound DEF Minimize

LEMMA OverlaySound == ASSUME NEW s, Sound(s), NEW t \in Overlay(s) PROVE Sound(t)
<1>1. "notepad" \in Wins
  BY SpecialWins
<1>2. t \in {s, Close(s, "notepad"), PickerStart(s, "notepad"), Logout(s), Open(s, "notepad")}
  BY DEF Overlay
<1> QED BY <1>1, <1>2, CloseSound, NotepadPickerSound, LogoutSound, OpenKeeps

LEMMA TopMenuSound == ASSUME NEW s, Sound(s), NEW p, NEW t \in TopMenu(s, p) PROVE Sound(t)
<1>1. "notepad" \in Wins
  BY SpecialWins
<1>2. t \in {s, Minimize(s, "notepad"), ToggleMax(s, "notepad"), Close(s, "notepad"),
             PickerStart(s, "notepad")}
  BY DEF TopMenu
<1> QED BY <1>1, <1>2, CloseSound, NotepadPickerSound, MinimizesSound, ToggleMaxSound

LEMMA TaskbarSound == ASSUME NEW s, Sound(s), NEW p, NEW t \in Taskbar(s, p) PROVE Sound(t)
<1>1. \/ t = s
      \/ \E w \in Wins : t = TaskbarButton(s, w)
      \/ \E w \in Apps \cup {"file", "taskmgr"} : t = Open(s, w)
  BY DEF Taskbar, Buttons
<1>2. \A w \in Apps \cup {"file", "taskmgr"} : w \in Wins
  BY ScreenAssumption, SpecialWins
<1> QED BY <1>1, <1>2, TaskbarButtonSound, OpenKeeps

\* The WAV player's button starts the picker while that window is open.
LEMMA ContentSound == ASSUME NEW s, Sound(s), NEW p, NEW t \in Content(s, p) PROVE Sound(t)
<1> DEFINE w == s.front
<1>1. w \in Wins /\ \A x \in Wins : Kept(s.win[x])
  BY DEF Sound, States
<1>2. \/ t \in Files(s)
      \/ t \in {s, PickerStart(s, "notepad"), Minimize(s, w), ToggleMax(s, w), Close(s, w)}
      \/ s.picker # NONE /\ t = PickerSelect(s)
      \/ s.win["wavplay"].open /\ t = PickerStart(s, "wavplay")
  BY DEF Content, Editor, Inside, Visible
<1> HIDE DEF w
<1>3. CASE t \in Files(s)
  BY <1>3, FilesSound
<1>4. CASE t \in {s, PickerStart(s, "notepad"), Minimize(s, w), ToggleMax(s, w), Close(s, w)}
  BY <1>1, <1>4, NotepadPickerSound, MinimizesSound, ToggleMaxSound, CloseSound
<1>5. CASE s.picker # NONE /\ t = PickerSelect(s)
  BY <1>5, PickerSelectSound
<1>6. CASE s.win["wavplay"].open /\ t = PickerStart(s, "wavplay")
  <2>1. "wavplay" \in Wins
    BY SpecialWins
  <2>2. OnScreen(s.win["wavplay"].g)
    BY <1>1, <1>6, <2>1 DEF Kept
  <2> QED BY <1>6, <2>2, PickerStartSound
<1> QED BY <1>2, <1>3, <1>4, <1>5, <1>6

LEMMA LeftClickSound == ASSUME NEW s, Sound(s), NEW p, NEW t \in LeftClick(s, p) PROVE Sound(t)
<1>1. \/ t \in Overlay(s) \/ t \in Taskbar(s, p) \/ t \in TopMenu(s, p)
      \/ t \in Content(Raise(s, p), p)
  BY DEF LeftClick
<1> QED BY <1>1, OverlaySound, TaskbarSound, TopMenuSound, RaiseSound, ContentSound

\* The held button moves the window in front, which is open.
LEMMA DragSound ==
  ASSUME NEW s, Sound(s), NEW b \in BOOLEAN, NEW q \in Int \X Int PROVE Sound(Drag(s, b, q))
<1> DEFINE w == s.front
           o == s.win[w]
           v == IF w = "imgview" THEN Resized(o, b, q) ELSE Dragged(o, b, q)
<1>1. w \in Wins /\ Safe(s)
  BY SoundIs DEF Sound, States
<1>2. o \in Window /\ Kept(o)
  BY <1>1, WinOf
<1>3. Drag(s, b, q) = (IF ~Held(s) THEN s ELSE Put(s, w, v)) /\ (Held(s) => o.open)
  BY DEF Drag, Held
<1> HIDE DEF w
<1>4. CASE Held(s)
  <2> HIDE DEF o
  <2>1. v \in Window /\ Kept(v) /\ v.open
    <3>1. o.open
      BY <1>3, <1>4
    <3> QED BY <3>1, <1>2, DraggedKept, ResizedKept
  <2> HIDE DEF v
  <2>2. Sound(Put(s, w, v))
    BY <1>1, <2>1, PutKeeps
  <2> QED BY <1>3, <1>4, <2>2
<1>5. CASE ~Held(s)
  BY <1>3, <1>5
<1> QED BY <1>4, <1>5

---------------------------------------------------------------------------
(* The specification.                                                      *)

LEMMA InitSound == Init => WinInv
<1> SUFFICES ASSUME Init PROVE Sound(ws)
  BY DEF WinInv
<1> DEFINE all == [w \in Wins |-> Closed]
<1>1. ws = [win |-> all, front |-> "taskmgr", picker |-> NONE, login |-> TRUE]
  BY DEF Init
<1>2. all \in [Wins -> Window] /\ \A w \in Wins : all[w] = Closed
  BY ClosedIsWindow
<1> HIDE DEF all
<1>3. ws \in States /\ ws.win = all /\ ws.picker = NONE /\ ws.login = TRUE
  BY <1>1, <1>2, SpecialWins DEF States
<1>4. Safe(ws)
  BY <1>2, <1>3, ClosedIsWindow DEF Safe, Kept
<1>5. Tied(ws)
  BY <1>3 DEF Tied, NONE
<1> QED BY <1>4, <1>5, SoundIs

LEMMA StepSound == WinInv /\ [Next]_vars => WinInv'
<1> SUFFICES ASSUME Sound(ws), [Next]_vars PROVE Sound(ws')
  BY DEF WinInv
<1>1. ASSUME NEW k PROVE Sound(Keyed(k))
  BY CycleSound DEF Keyed
<1>2. ASSUME NEW b \in BOOLEAN, NEW k, LoginRound(k, b) PROVE Sound(ws')
  BY <1>1, <1>2, LoginSound DEF LoginRound
<1>a. ASSUME NEW b \in BOOLEAN, NEW k, NEW s \in Handled(k, b) PROVE Sound(s)
  BY <1>1, LeftClickSound DEF Handled
<1>3. ASSUME NEW b \in BOOLEAN, NEW k, NEW q \in Points, DesktopRound(k, b, q)
      PROVE  Sound(ws')
  <2>1. PICK s \in Handled(k, b) : \E t \in Typed(s, k) : ws' = Drag(t, b, q)
    BY <1>3 DEF DesktopRound
  <2>2. PICK t \in Typed(s, k) : ws' = Drag(t, b, q)
    BY <2>1
  <2>3. Sound(s)
    BY <1>a
  <2>4. Sound(t)
    BY <2>3, <2>2, OpenKeeps, SpecialWins DEF Typed
  <2>5. q \in Int \X Int
    BY ScreenAssumption
  <2> QED BY <2>2, <2>4, <2>5, DragSound
<1>4. ASSUME NEW b \in BOOLEAN, EditorRound(b) PROVE Sound(ws')
  <2>1. PICK s \in Handled(NONE, b) : ws' \in {s, Close(s, "notepad")}
    BY <1>4 DEF EditorRound
  <2>2. Sound(s)
    BY <1>a
  <2> QED BY <2>1, <2>2, CloseSound, SpecialWins
<1>5. CASE UNCHANGED vars
  BY <1>5 DEF vars
<1> QED BY <1>2, <1>3, <1>4, <1>5 DEF Next

\* Whatever is opened, closed, picked, dragged, resized, maximized or restored
\* in kmain's loop, and however the mouse interrupts a round, the windows stay
\* as WinInv says.
THEOREM WindowsInvariant == Spec => []WinInv
BY InitSound, StepSound, PTL DEF Spec

\* An open window lies on the screen, its title bar within reach.
THEOREM WindowsStayOnScreen == Spec => []WindowsOnScreen
<1>1. WinInv => WindowsOnScreen
  BY DEF WinInv, Sound, Kept, WindowsOnScreen
<1> QED BY <1>1, WindowsInvariant, PTL

\* A picker that waits for a choice has its window.
THEOREM PickerKeepsWindow == Spec => []PickerHasWindow
<1>1. WinInv => PickerHasWindow
  BY DEF WinInv, Sound, PickerHasWindow
<1> QED BY <1>1, WindowsInvariant, PTL

\* The windows, the button and the clicks have their types; front is always
\* one of the windows, so kmain's comparisons with it are about a real one.
THEOREM WindowsTypes == Spec => []WinTypeOK
<1> DEFINE T == prev_btn \in BOOLEAN /\ clicks \in 0 .. MaxClicks
<1>1. Init => T
  <2>1. Init => prev_btn = FALSE /\ clicks = MaxClicks
    BY DEF Init
  <2>2. MaxClicks \in 0 .. MaxClicks
    BY ScreenAssumption
  <2> QED BY <2>1, <2>2
<1>2. T /\ [Next]_vars => T'
  BY ScreenAssumption DEF Next, LoginRound, DesktopRound, EditorRound, Count, Edge, vars
<1>3. WinInv /\ T => WinTypeOK
  BY DEF WinInv, Sound, WinTypeOK
<1> HIDE DEF T
<1> QED BY <1>1, <1>2, <1>3, WindowsInvariant, PTL DEF Spec

\* No sequence of clicks, keys and pointer moves puts an open window off the
\* screen, leaves a picker without its window or front without a window.
THEOREM WindowsAreSafe == Spec => []WindowsSafe
<1>1. WinTypeOK /\ WindowsOnScreen /\ PickerHasWindow => WindowsSafe
  BY DEF WindowsSafe
<1> QED BY <1>1, WindowsTypes, WindowsStayOnScreen, PickerKeepsWindow, PTL
---------------------------------------------------------------------------
(* Alt+Tab.                                                                *)

LEMMA Ids ==
  /\ Len(Order) = 7 /\ \A n \in 1 .. 7 : Order[n] \in Wins
  /\ \A w \in Wins : Id(w) \in 1 .. 7 /\ Order[Id(w)] = w
  /\ \A n \in 1 .. 7 : Id(Order[n]) = n
<1>1. Len(Order) = 7 /\ \A n \in 1 .. 7 : Order[n] \in Wins
  BY WinsAre DEF Order, Wins
<1>2. ASSUME NEW w \in Wins PROVE Id(w) \in 1 .. 7 /\ Order[Id(w)] = w
  <2>1. \E n \in 1 .. Len(Order) : Order[n] = w
    BY DEF Wins
  <2> QED BY <2>1, <1>1 DEF Id
<1>3. \A n, k \in 1 .. 7 : Order[n] = Order[k] => n = k
  BY DEF Order
<1>4. ASSUME NEW n \in 1 .. 7 PROVE Id(Order[n]) = n
  <2>1. Id(Order[n]) \in 1 .. 7 /\ Order[Id(Order[n])] = Order[n]
    BY <1>1, <1>2
  <2> QED BY <1>3, <2>1
<1> QED BY <1>1, <1>2, <1>4

\* Places on the ring of windows add up.
LEMMA AfterAfter ==
  ASSUME NEW w \in Wins, NEW i \in 1 .. 7, NEW j \in 1 .. 7, i + j <= 7
  PROVE  After(After(w, i), j) = After(w, i + j)
<1>1. PICK a \in 1 .. 7 : a = Id(w)
  BY Ids
<1>2. PICK b \in 1 .. 7 : b = ((a - 1 + i) % 7) + 1
  BY <1>1
<1>3. After(w, i) = Order[b]
  BY <1>1, <1>2, Ids DEF After
<1>4. PICK u : u = After(w, i)
  OBVIOUS
<1>5. Id(u) = b
  BY <1>3, <1>4, Ids
<1>6. After(u, j) = Order[((b - 1 + j) % 7) + 1] /\ After(w, i + j) = Order[((a - 1 + (i + j)) % 7) + 1]
  BY <1>1, <1>5, Ids DEF After
<1>7. (b - 1 + j) % 7 = (a - 1 + (i + j)) % 7
  BY <1>1, <1>2
<1> QED BY <1>4, <1>6, <1>7

\* Every window is at some place after every other, itself at 7.
LEMMA SomePlace ==
  ASSUME NEW w \in Wins, NEW f \in Wins PROVE \E d \in 1 .. 7 : After(f, d) = w
<1>1. PICK a \in 1 .. 7 : a = Id(f)
  BY Ids
<1>2. PICK c \in 1 .. 7 : c = Id(w)
  BY Ids
<1>3. PICK d \in 1 .. 7 : ((a - 1 + d) % 7) + 1 = c
  <2>1. CASE c > a
    <3>1. c - a \in 1 .. 7 /\ ((a - 1 + (c - a)) % 7) + 1 = c
      BY <2>1
    <3> QED BY <3>1
  <2>2. CASE c <= a
    <3>1. c - a + 7 \in 1 .. 7 /\ ((a - 1 + (c - a + 7)) % 7) + 1 = c
      BY <2>2
    <3> QED BY <3>1
  <2> QED BY <2>1, <2>2
<1>4. After(f, d) = w
  BY <1>1, <1>2, <1>3, Ids DEF After
<1> QED BY <1>4

\* Alt+Tab comes to an open window, or nearer to it: wm_cycle_next stops at
\* the first open window, and the one asked for is open.
LEMMA CycleNearer ==
  ASSUME NEW s, Sound(s), NEW w \in Wins, s.win[w].open, NEW d \in 1 .. 7, After(s.front, d) = w
  PROVE  LET t == wm_cycle_next(s)
         IN  /\ Sound(t) /\ t.win = s.win
             /\ t.front = w \/ \E e \in 1 .. d - 1 : After(t.front, e) = w
<1> DEFINE hits == {i \in 1 .. Len(Order) : s.win[After(s.front, i)].open}
           n    == CHOOSE i \in hits : \A j \in hits : i <= j
           t    == wm_cycle_next(s)
<1>1. s \in States /\ s.front \in Wins
  BY DEF Sound, States
<1>2. hits \in SUBSET (1 .. 7) /\ d \in hits
  BY Ids
<1>3. t = Front(s, After(s.front, n))
  BY <1>2 DEF wm_cycle_next
<1> HIDE DEF hits, t
<1>4. n \in 1 .. 7 /\ n <= d
  BY <1>2, LeastIn
<1> HIDE DEF n
<1>5. t.front = After(s.front, n) /\ t.win = s.win
  BY <1>1, <1>3 DEF Front, States
<1>6. Sound(t)
  BY CycleSound DEF t
<1>7. CASE n = d
  BY <1>5, <1>6, <1>7 DEF t
<1>8. CASE n # d
  <2>1. d - n \in 1 .. 7 /\ d - n \in 1 .. d - 1 /\ n + (d - n) = d
    BY <1>4, <1>8
  <2>2. After(t.front, d - n) = w
    BY <1>1, <1>4, <1>5, <2>1, AfterAfter
  <2> QED BY <1>5, <1>6, <2>1, <2>2 DEF t
<1> QED BY <1>7, <1>8

\* The presses of Alt+Tab, one after the other.
LEMMA CycleIs ==
  /\ Cycle[0] = ws
  /\ \A n \in 1 .. 7 : Cycle[n] = wm_cycle_next(Cycle[n - 1])
<1> DEFINE c1 == wm_cycle_next(ws)
           c2 == wm_cycle_next(c1)
           c3 == wm_cycle_next(c2)
           c4 == wm_cycle_next(c3)
           c5 == wm_cycle_next(c4)
           c6 == wm_cycle_next(c5)
           c7 == wm_cycle_next(c6)
           cs == <<c1, c2, c3, c4, c5, c6, c7>>
           g  == [n \in 0 .. 7 |-> IF n = 0 THEN ws ELSE cs[n]]
           G(h) == [n \in 0 .. Len(Order) |-> IF n = 0 THEN ws ELSE wm_cycle_next(h[n - 1])]
<1>1. g[0] = ws /\ \A n \in 1 .. 7 : g[n] = wm_cycle_next(g[n - 1])
  <2>1. /\ g[0] = ws /\ g[1] = c1 /\ g[2] = c2 /\ g[3] = c3 /\ g[4] = c4 /\ g[5] = c5 /\ g[6] = c6 /\ g[7] = c7
    <3> HIDE DEF c1, c2, c3, c4, c5, c6, c7
    <3> QED OBVIOUS
  <2> HIDE DEF g
  <2>2. /\ g[1] = wm_cycle_next(g[0]) /\ g[2] = wm_cycle_next(g[1]) /\ g[3] = wm_cycle_next(g[2])
        /\ g[4] = wm_cycle_next(g[3]) /\ g[5] = wm_cycle_next(g[4]) /\ g[6] = wm_cycle_next(g[5])
        /\ g[7] = wm_cycle_next(g[6])
    BY <2>1, Zenon
  <2>3. \A n \in 1 .. 7 : n = 1 \/ n = 2 \/ n = 3 \/ n = 4 \/ n = 5 \/ n = 6 \/ n = 7
    OBVIOUS
  <2>4. 1 - 1 = 0 /\ 2 - 1 = 1 /\ 3 - 1 = 2 /\ 4 - 1 = 3 /\ 5 - 1 = 4 /\ 6 - 1 = 5 /\ 7 - 1 = 6
    OBVIOUS
  <2> QED BY <2>1, <2>2, <2>3, <2>4, Zenon
<1>2. g = G(g)
  <2>1. DOMAIN g = 0 .. Len(Order) /\ g = [n \in 0 .. Len(Order) |-> g[n]]
    BY Ids
  <2>2. \A n \in 0 .. Len(Order) : n # 0 => n \in 1 .. 7
    BY Ids
  <2> HIDE DEF g
  <2>3. \A n \in 0 .. Len(Order) : g[n] = IF n = 0 THEN ws ELSE wm_cycle_next(g[n - 1])
    BY <1>1, <2>2, Zenon
  <2> QED BY <2>1, <2>3, Zenon
<1> HIDE DEF g
<1>3. Cycle = CHOOSE h : h = G(h)
  BY DEF Cycle
<1>4. Cycle = G(Cycle)
  BY <1>2, <1>3, Zenon
<1>5. \A n \in 0 .. Len(Order) : Cycle[n] = IF n = 0 THEN ws ELSE wm_cycle_next(Cycle[n - 1])
  <2> HIDE DEF Cycle
  <2> QED BY <1>4, Zenon
<1>6. 0 \in 0 .. Len(Order) /\ \A n \in 1 .. 7 : n \in 0 .. Len(Order) /\ n # 0
  BY Ids
<1> QED BY <1>5, <1>6, Zenon

\* Alt+Tab, pressed at most seven times, brings every open window to the
\* front, however the windows came to be opened, closed and raised.
THEOREM AltTabReachesAll == Spec => []CycleReachesAll
<1>1. WinInv => CycleReachesAll
  <2> SUFFICES ASSUME WinInv, NEW w \in Wins, ws.win[w].open
               PROVE  \E n \in 1 .. Len(Order) : Cycle[n].front = w
    BY DEF CycleReachesAll
  <2> DEFINE Near(n) == /\ Sound(Cycle[n]) /\ Cycle[n].win = ws.win
                        /\ \/ \E m \in 1 .. 7 : Cycle[m].front = w
                           \/ \E d \in 1 .. 7 - n : After(Cycle[n].front, d) = w
  <2>1. Near(0)
    <3>1. Cycle[0] = ws /\ ws.front \in Wins
      BY CycleIs DEF WinInv, Sound, States
    <3> QED BY <3>1, SomePlace DEF WinInv
  <2>2. ASSUME NEW n \in 1 .. 7, Near(n - 1) PROVE Near(n)
    <3>1. PICK c : c = Cycle[n - 1]
      OBVIOUS
    <3>2. Cycle[n] = wm_cycle_next(c)
      BY <3>1, CycleIs
    <3>3. Sound(c) /\ c.win = ws.win
      BY <2>2, <3>1
    <3>4. CASE \E m \in 1 .. 7 : Cycle[m].front = w
      <4>1. c.front \in Wins /\ c.win[w].open
        BY <3>3 DEF Sound, States
      <4>2. PICK d \in 1 .. 7 : After(c.front, d) = w
        BY <4>1, SomePlace
      <4>3. Sound(Cycle[n]) /\ Cycle[n].win = ws.win
        BY <3>2, <3>3, <4>1, <4>2, CycleNearer
      <4> QED BY <3>4, <4>3
    <3>5. CASE \E d \in 1 .. 7 - (n - 1) : After(Cycle[n - 1].front, d) = w
      <4>1. PICK d \in 1 .. 7 - (n - 1) : After(c.front, d) = w
        BY <3>1, <3>5
      <4>2. d \in 1 .. 7 /\ c.win[w].open
        BY <3>3
      <4>3. /\ Sound(Cycle[n]) /\ Cycle[n].win = ws.win
            /\ Cycle[n].front = w \/ \E e \in 1 .. d - 1 : After(Cycle[n].front, e) = w
        BY <3>2, <3>3, <4>1, <4>2, CycleNearer
      <4>4. \A e \in 1 .. d - 1 : e \in 1 .. 7 - n
        BY <4>1
      <4> QED BY <4>3, <4>4
    <3> QED BY <2>2, <3>4, <3>5
  <2>3. Near(7)
    <3> HIDE DEF Near
    <3>1. /\ Near(0) => Near(1)
          /\ Near(1) => Near(2)
          /\ Near(2) => Near(3)
          /\ Near(3) => Near(4)
          /\ Near(4) => Near(5)
          /\ Near(5) => Near(6)
          /\ Near(6) => Near(7)
      BY <2>2
    <3> QED BY <2>1, <3>1
  <2>4. \E m \in 1 .. 7 : Cycle[m].front = w
    BY <2>3
  <2> QED BY <2>4, Ids
<1> QED BY <1>1, WindowsInvariant, PTL
===========================================================================
