------------------------------ MODULE Terminal ------------------------------
(***************************************************************************)
(* The flanterm console: the escape sequence parser of flanterm.c and the   *)
(* framebuffer backend of flanterm_backends/fb.c with its queue of changed  *)
(* cells.  A step is one call of a client (print, menu.c): a write of some  *)
(* bytes, a flush, or one of the switches a client sets by hand.            *)
(*                                                                          *)
(* A byte is a string that names it; a multi-byte character is the sequence *)
(* of its bytes.  A glyph on the screen is its character and two colours.   *)
(* size_t positions below zero are what the (int) casts of set_cursor_pos   *)
(* make of them.  Client callbacks change nothing here.                     *)
(***************************************************************************)
EXTENDS Integers, Sequences, FiniteSets, SequencesExt

CONSTANTS
  Rows, Cols, TabSize,
  MaxEsc,            \* FLANTERM_MAX_ESC_VALUES
  Writes,            \* buffers a client may write, sequences of bytes
  Printable,         \* the bytes 0x20 .. 0x7e that Writes has
  cp437,             \* unicode_to_cp437 on byte sequences, "" for none
  wcwidth,           \* mk_wcwidth on them
  dec_special,       \* the line drawing glyph of a byte, "" for none
  MaxWrites          \* bound on the number of calls

ASSUME TerminalAssumption ==
  Rows \in Nat \ {0, 1} /\ Cols \in Nat \ {0} /\ TabSize \in Nat \ {0} /\ MaxEsc \in Nat \ {0, 1}

Cells == 0 .. Rows * Cols - 1
NONE  == [c |-> "none"]        \* no queue item
None  == -1                    \* no colour chosen

Digits == {"0", "1", "2", "3", "4", "5", "6", "7", "8", "9"}
DigitVal == [d \in Digits |-> CHOOSE n \in 0 .. 9 : ToString(n) = d]
Lead1 == {"c2", "c4"}          \* lead bytes of two, three and four bytes
Lead2 == {"e2", "e4"}
Lead3 == {"f0"}
Cont  == {"80", "81"}          \* continuation bytes
Final == {"@", "A", "B", "C", "D", "E", "F", "G", "H", "J", "K", "L", "M", "P", "X", "[", "]", "grave",
          "a", "c", "d", "e", "f", "h", "i", "l", "m", "n", "q", "r", "s", "u"}  \* in 0x40 .. 0x7e

VARIABLES
  ctx,       \* struct flanterm_fb_context, and the framebuffer
  shown,     \* history: the last call ended with a flush
  torn,      \* history: were colours set past the attributes, now and in the saved state
  narrow,    \* history: margins were narrowed
  left       \* calls left

termvars == <<ctx, shown, torn, narrow, left>>

----------------------------------------------------------------------------
(* fb.c: the queue, the cursor and the colours.                             *)

Empty(s) == [c |-> " ", fg |-> s.fg, bg |-> s.bg]
At(x, y) == y * Cols + x
Cur(s, i) == IF s.map[i] # NONE THEN s.map[i] ELSE s.grid[i]

push_to_queue(s, ch, x, y) ==
  IF x >= Cols \/ y >= Rows THEN s
  ELSE IF s.map[At(x, y)] # NONE THEN [s EXCEPT !.map[At(x, y)] = ch]
  ELSE IF s.grid[At(x, y)] = ch THEN s
  ELSE [s EXCEPT !.map[At(x, y)] = ch, !.qi = @ + 1]

Range2(a, b) == [i \in 1 .. (IF b < a THEN 0 ELSE b - a + 1) |-> a + i - 1]
Down(a, b)   == Reverse(Range2(b, a))
ClearRow(s, y) == FoldLeft(LAMBDA q, i : push_to_queue(q, Empty(s), i, y), s, Range2(0, Cols - 1))

flanterm_fb_scroll(s) ==
  ClearRow(FoldLeft(LAMBDA q, i : push_to_queue(q, Cur(q, i), (i - Cols) % Cols, (i - Cols) \div Cols),
                    s, Range2((s.top + 1) * Cols, s.bot * Cols - 1)), s.bot - 1)

flanterm_fb_revscroll(s) ==
  ClearRow(FoldLeft(LAMBDA q, i : push_to_queue(q, Cur(q, i), (i + Cols) % Cols, (i + Cols) \div Cols),
                    s, Down((s.bot - 1) * Cols - 1, s.top * Cols)), s.top)

flanterm_fb_clear(s, move) ==
  LET a == FoldLeft(LAMBDA q, y : ClearRow(q, y), s, Range2(0, Rows - 1))
  IN  IF move THEN [a EXCEPT !.x = 0, !.y = 0] ELSE a

Into(v, n) == IF v < 0 THEN 0 ELSE IF v >= n THEN n - 1 ELSE v
flanterm_fb_set_cursor_pos(s, x, y) == [s EXCEPT !.x = Into(x, Cols), !.y = Into(y, Rows)]
GetX(s) == Into(s.x, Cols)
GetY(s) == Into(s.y, Rows)

flanterm_fb_move_character(s, nx, ox, y) ==
  IF ox >= Cols \/ nx >= Cols THEN s ELSE push_to_queue(s, Cur(s, At(ox, y)), nx, y)

PutHere(s, c) == [push_to_queue(s, [Empty(s) EXCEPT !.c = c], s.x, s.y) EXCEPT !.x = @ + 1]

\* The last test compares a row with the number of columns, as the code does.
flanterm_fb_raw_putchar(s, c) ==
  LET wrap == s.x >= Cols /\ (s.y < s.bot - 1 \/ s.scroll)
      a == IF s.y + 1 = s.bot THEN flanterm_fb_scroll([s EXCEPT !.x = 0]) ELSE [s EXCEPT !.x = 0, !.y = @ + 1]
  IN  PutHere(IF wrap THEN [a EXCEPT !.y = IF @ >= Cols THEN Cols - 1 ELSE @] ELSE s, c)

Puts(s, n) == FoldLeft(LAMBDA q, i : flanterm_fb_raw_putchar(q, " "), s, Range2(1, n))

flanterm_fb_swap_palette(s) == [s EXCEPT !.fg = s.bg, !.bg = s.fg]

Inverted(ch) == [ch EXCEPT !.fg = ch.bg, !.bg = ch.fg]
draw_cursor(s) ==
  LET i == At(s.x, s.y)
  IN  IF s.x >= Cols \/ s.y >= Rows THEN s
      ELSE [s EXCEPT !.screen[i] = Inverted(Cur(s, i)), !.grid[i] = Cur(s, i), !.map[i] = NONE]

\* Mutant: the old cursor stays on the screen.
FlushKeepsCursor(s) ==
  LET a == IF s.cursor THEN draw_cursor(s) ELSE s
  IN  [a EXCEPT !.screen = [i \in Cells |-> IF a.map[i] # NONE THEN a.map[i] ELSE a.screen[i]],
                !.grid = [i \in Cells |-> Cur(a, i)], !.map = [i \in Cells |-> NONE],
                !.ox = s.x, !.oy = s.y, !.qi = 0]

flanterm_fb_double_buffer_flush(s) ==
  LET a == IF s.cursor THEN draw_cursor(s) ELSE s
      b == [a EXCEPT !.screen = [i \in Cells |-> IF a.map[i] # NONE THEN a.map[i] ELSE a.screen[i]],
                     !.grid = [i \in Cells |-> Cur(a, i)], !.map = [i \in Cells |-> NONE]]
      moved == s.ox # s.x \/ s.oy # s.y \/ ~s.cursor
      c == IF moved /\ s.ox < Cols /\ s.oy < Rows
           THEN [b EXCEPT !.screen[At(s.ox, s.oy)] = b.grid[At(s.ox, s.oy)]] ELSE b
  IN  [c EXCEPT !.ox = s.x, !.oy = s.y, !.qi = 0]

----------------------------------------------------------------------------
(* Attributes.  A colour is a kind and a number.                            *)

Col(n, bright) == <<IF bright THEN "bright" ELSE "ansi", n>>
Rgb(v)   == <<"rgb", v>>
DefFg(b) == <<IF b THEN "def_fg_bright" ELSE "def_fg", 0>>
DefBg(b) == <<IF b THEN "def_bg_bright" ELSE "def_bg", 0>>
SetFg(s, c) == [s EXCEPT !.fg = c]
SetBg(s, c) == [s EXCEPT !.bg = c]

\* Codes 1 and 22 (5 and 25): the side that shows the colour now is set.
Weight(s, n, b) ==
  LET fgside == n \in {1, 22}
      a  == IF fgside THEN [s EXCEPT !.bold = b] ELSE [s EXCEPT !.bgbold = b]
      c  == IF fgside THEN s.prim ELSE s.cbg
      on == fgside # s.rev                   \* is text_fg the side to set
  IN  IF c # None THEN (IF on THEN SetFg(a, Col(c, b)) ELSE SetBg(a, Col(c, b)))
      ELSE IF on THEN SetFg(a, DefFg(b)) ELSE SetBg(a, DefBg(b))

SgrReset(s) ==
  LET a == IF s.rev THEN flanterm_fb_swap_palette([s EXCEPT !.rev = FALSE]) ELSE s
  IN  [a EXCEPT !.bold = FALSE, !.bgbold = FALSE, !.prim = None, !.cbg = None,
                !.bg = DefBg(FALSE), !.fg = DefFg(FALSE)]

Sgr1(s, n) ==
  LET back(q) == IF s.rev THEN flanterm_fb_swap_palette(q) ELSE q
  IN  CASE n = 0          -> SgrReset(s)
        [] n \in {1, 5}   -> Weight(s, n, TRUE)
        [] n \in {22, 25} -> Weight(s, n, FALSE)
        [] n \in 30 .. 37 ->
             LET a == [s EXCEPT !.prim = n - 30]
             IN  IF s.rev THEN SetBg(a, Col(n - 30, s.bold)) ELSE SetFg(a, Col(n - 30, s.bold))
        [] n \in 40 .. 47 ->
             LET a == [s EXCEPT !.cbg = n - 40]
             IN  IF s.rev THEN SetFg(a, Col(n - 40, s.bgbold)) ELSE SetBg(a, Col(n - 40, s.bgbold))
        [] n \in 90 .. 97 ->
             LET a == [s EXCEPT !.prim = n - 90]
             IN  IF s.rev THEN SetBg(a, Col(n - 90, TRUE)) ELSE SetFg(a, Col(n - 90, TRUE))
        [] n \in 100 .. 107 ->
             LET a == [s EXCEPT !.cbg = n - 100]
             IN  IF s.rev THEN SetFg(a, Col(n - 100, TRUE)) ELSE SetBg(a, Col(n - 100, TRUE))
        [] n = 39 -> back(SetFg(back([s EXCEPT !.prim = None]), DefFg(s.bold)))
        [] n = 49 -> back(SetBg(back([s EXCEPT !.cbg = None]), DefBg(s.bgbold)))
        [] n = 7  -> IF s.rev THEN s ELSE flanterm_fb_swap_palette([s EXCEPT !.rev = TRUE])
        [] n = 27 -> back([s EXCEPT !.rev = FALSE])
        [] OTHER  -> s

\* 38 and 48 at index i: the colour and how many values it takes, 0 when the
\* list is too short and the rest of it is dropped.
Extended(s, i) ==
  LET v == s.vals
      set(c) == IF v[i] = 38 THEN SetFg(s, c) ELSE SetBg(s, c)
  IN  IF i + 1 >= s.vi THEN <<s, 0>>
      ELSE CASE v[i + 1] = 2 -> IF i + 4 >= s.vi THEN <<s, 0>>
                                ELSE <<set(Rgb(<<v[i + 2], v[i + 3], v[i + 4]>>)), 5>>
             [] v[i + 1] = 5 -> IF i + 2 >= s.vi THEN <<s, 0>>
                                ELSE <<LET n == v[i + 2]
                                       IN  IF n < 16 THEN set(Col(n % 8, n >= 8))
                                           ELSE IF n < 256 THEN set(Rgb(n)) ELSE s, 3>>
             [] OTHER -> <<s, 2>>

\* One pass over the values; p is the state and the index that comes next.
sgr(s) ==
  LET Pass(p, i) ==
        IF i # p[2] THEN p
        ELSE IF s.vals[i] \in {38, 48}
        THEN LET e == Extended(p[1], i) IN <<e[1], IF e[2] = 0 THEN MaxEsc ELSE i + e[2]>>
        ELSE <<Sgr1(p[1], s.vals[i]), i + 1>>
  IN  IF s.vi = 0 THEN SgrReset(s) ELSE FoldLeft(Pass, <<s, 0>>, Range2(0, s.vi - 1))[1]
----------------------------------------------------------------------------
(* The parser.                                                              *)

flanterm_context_reinit(s) ==
  [s EXCEPT !.autoflush = TRUE, !.cursor = TRUE, !.scroll = TRUE, !.csi = FALSE, !.esc = FALSE,
            !.osc = FALSE, !.oscesc = FALSE, !.rrr = FALSE, !.discard = FALSE, !.bold = FALSE,
            !.bgbold = FALSE, !.rev = FALSE, !.dec = FALSE, !.ins = FALSE, !.unh = FALSE, !.urem = 0,
            !.gsel = 0, !.charsets = <<"default", "dec">>, !.charset = 1, !.off = 0, !.vi = 0,
            !.sx = 0, !.sy = 0, !.prim = None, !.cbg = None, !.top = 0, !.bot = Rows, !.onlcr = TRUE]

dec_private_parse(s, c) ==
  LET a == [s EXCEPT !.dec = FALSE]
  IN  IF s.vi > 0 /\ c \in {"h", "l"} /\ s.vals[0] = 25 THEN [a EXCEPT !.cursor = c = "h"] ELSE a

mode_toggle(s, c) ==
  IF s.vi > 0 /\ s.vals[0] = 4 THEN [s EXCEPT !.ins = c = "h"] ELSE s

Done(s) == [s EXCEPT !.csi = FALSE, !.esc = FALSE]

Small(a, b) == IF a < b THEN a ELSE b

\* A, F: up to the top margin if that lies on the way.
CursorUp(s, x, y) ==
  LET to == y - Small(s.vals[0], y)
      on == (s.top >= to /\ s.top <= y) \/ (s.bot >= to /\ s.bot <= y)
  IN  flanterm_fb_set_cursor_pos(s, x, IF on /\ to < s.top THEN s.top ELSE to)

\* B, e, E
CursorDown(s, x, y) ==
  LET to == y + Small(s.vals[0], Rows - 1 - y)
      on == (s.top >= y /\ s.top <= to) \/ (s.bot >= y /\ s.bot <= to)
  IN  flanterm_fb_set_cursor_pos(s, x, IF on /\ to >= s.bot THEN s.bot - 1 ELSE to)

\* A coordinate counted from 1; 0 wraps around and ends at the far side.
FromOne(v, n) == IF v = 0 THEN n - 1 ELSE Small(v - 1, n - 1)
FromOneOr0(v, n) == IF v = 0 THEN 0 ELSE Small(v - 1, n - 1)

EraseDisplay(s, x, y) ==
  LET n == s.vals[0]
  IN  CASE n = 0 -> flanterm_fb_set_cursor_pos(Puts(s, (Rows - (y + 1)) * Cols + Cols - x), x, y)
        [] n = 1 -> flanterm_fb_set_cursor_pos(Puts(flanterm_fb_set_cursor_pos(s, 0, 0), y * Cols + x + 1), x, y)
        [] n \in {2, 3} -> flanterm_fb_clear(s, FALSE)
        [] OTHER -> s

EraseLine(s, x, y) ==
  LET n == s.vals[0]
      home == flanterm_fb_set_cursor_pos(s, 0, y)
  IN  CASE n = 0 -> flanterm_fb_set_cursor_pos(Puts(s, Cols - x), x, y)
        [] n = 1 -> Puts(home, x)
        [] n = 2 -> flanterm_fb_set_cursor_pos(Puts(home, Cols), x, y)
        [] OTHER -> s

\* @: from the right end to the cursor, each character moves and leaves a blank.
InsertChars(s, x, y) ==
  LET One(q, i) == flanterm_fb_raw_putchar(
                     flanterm_fb_set_cursor_pos(flanterm_fb_move_character(q, i + s.vals[0], i, y), i, y), " ")
  IN  flanterm_fb_set_cursor_pos(FoldLeft(One, s, Down(Cols - 1, x)), x, y)

EraseChars(s, x, y) == flanterm_fb_set_cursor_pos(Puts(s, Small(s.vals[0], Cols)), x, y)
DeleteChars(s, x, y) ==
  LET n == s.vals[0]
      a == FoldLeft(LAMBDA q, i : flanterm_fb_move_character(q, i - n, i, y), s, Range2(x + n, Cols - 1))
  IN  EraseChars(flanterm_fb_set_cursor_pos(a, Cols - n, y), x, y)

SetMargins(s) ==
  LET v0 == IF s.vals[0] = 0 THEN 1 ELSE s.vals[0]
      v1 == IF s.vals[1] = 0 THEN 1 ELSE s.vals[1]
      top == IF s.vi > 0 THEN v0 - 1 ELSE 0
      bot == IF s.vi > 1 THEN v1 ELSE Rows
      bad == top >= Rows \/ bot > Rows \/ top >= bot - 1
  IN  flanterm_fb_set_cursor_pos([s EXCEPT !.top = IF bad THEN 0 ELSE top,
                                           !.bot = IF bad THEN Rows ELSE bot], 0, 0)

Lines(s, Op(_)) == FoldLeft(LAMBDA q, i : Op(q), s, Range2(1, Small(s.vals[0], Rows)))

\* The final byte of a sequence, with scrolling off.
Execute(s, c, x, y) ==
  LET n == s.vals[0]
  IN  CASE c \in {"A", "F"}      -> CursorUp(s, IF c = "F" THEN 0 ELSE x, y)
        [] c \in {"B", "e", "E"} -> CursorDown(s, IF c = "E" THEN 0 ELSE x, y)
        [] c \in {"C", "a"} -> flanterm_fb_set_cursor_pos(s, x + Small(n, Cols - 1 - x), y)
        [] c = "D" -> flanterm_fb_set_cursor_pos(s, x - Small(n, x), y)
        [] c = "d" -> flanterm_fb_set_cursor_pos(s, x, FromOne(n, Rows))
        [] c \in {"G", "grave"} -> flanterm_fb_set_cursor_pos(s, FromOne(n, Cols), y)
        [] c \in {"H", "f"} -> flanterm_fb_set_cursor_pos(s, FromOneOr0(s.vals[1], Cols), FromOneOr0(n, Rows))
        [] c = "M" -> Lines(s, flanterm_fb_scroll)
        [] c = "L" -> [Lines([s EXCEPT !.top = y], flanterm_fb_revscroll) EXCEPT !.top = s.top]
        [] c = "J" -> EraseDisplay(s, x, y)
        [] c = "K" -> EraseLine(s, x, y)
        [] c = "@" -> InsertChars(s, x, y)
        [] c = "P" -> DeleteChars(s, x, y)
        [] c = "X" -> EraseChars(s, x, y)
        [] c = "m" -> sgr(s)
        [] c = "s" -> [s EXCEPT !.sx = x, !.sy = y]
        [] c = "u" -> flanterm_fb_set_cursor_pos(s, s.sx, s.sy)
        [] c = "r" -> SetMargins(s)
        [] c \in {"h", "l"} -> mode_toggle(s, c)
        [] c \in {"c", "n", "q", "]"} -> s

Handled == Final \ {"[", "i"}

\* Digits and separators: the values, or the state they leave alone.
Number(s, c) ==
  IF c \in Digits
  THEN IF s.vi = MaxEsc THEN s
       ELSE [s EXCEPT !.rrr = TRUE, !.vals[s.vi] = @ * 10 + DigitVal[c]]
  ELSE IF s.rrr THEN [s EXCEPT !.vi = @ + 1, !.rrr = FALSE]
  ELSE IF s.vi = MaxEsc THEN s ELSE [s EXCEPT !.vals[s.vi] = 0, !.vi = @ + 1]

control_sequence_parse(s, c) ==
  LET vi == IF s.rrr THEN s.vi + 1 ELSE s.vi
      default == IF c \in {"J", "K", "q"} THEN 0 ELSE 1
      b == [s EXCEPT !.vi = vi, !.rrr = FALSE, !.vals = [i \in DOMAIN @ |-> IF i >= vi THEN default ELSE @[i]]]
      off == [b EXCEPT !.scroll = FALSE]
  IN  CASE s.off = 2 /\ c = "[" -> Done([s EXCEPT !.discard = TRUE])
        [] s.off = 2 /\ c = "?" -> [s EXCEPT !.dec = TRUE]
        [] c \in Digits \cup {";"} -> Number(s, c)
        [] OTHER ->
             IF s.dec THEN Done(dec_private_parse(b, c))
             ELSE IF s.unh THEN IF c \in Final THEN Done([off EXCEPT !.unh = FALSE]) ELSE off
             ELSE IF c = "ESC" THEN off
             ELSE IF c \in Handled
             THEN Done([Execute(off, c, GetX(s), GetY(s)) EXCEPT !.scroll = s.scroll])
             ELSE [off EXCEPT !.unh = TRUE]

\* The state, and is the byte used up.
osc_parse(s, c) ==
  IF s.oscesc THEN <<[s EXCEPT !.osc = FALSE, !.oscesc = FALSE, !.esc = @ /\ c # "\\"], c = "\\">>
  ELSE <<CASE c = "ESC" -> [s EXCEPT !.oscesc = TRUE]
           [] c = "BEL" -> [s EXCEPT !.osc = FALSE, !.esc = FALSE]
           [] OTHER -> s, TRUE>>

Saved(s) == [bold |-> s.bold, bgbold |-> s.bgbold, rev |-> s.rev, charset |-> s.charset,
             prim |-> s.prim, cbg |-> s.cbg, fg |-> s.fg, bg |-> s.bg, x |-> s.x, y |-> s.y]
restore_state(s) ==
  LET v == s.saved
  IN  [s EXCEPT !.bold = v.bold, !.bgbold = v.bgbold, !.rev = v.rev, !.charset = v.charset,
                !.prim = v.prim, !.cbg = v.cbg, !.fg = v.fg, !.bg = v.bg, !.x = v.x, !.y = v.y]

LineFeed(s, x) ==
  LET y == GetY(s)
  IN  IF y = s.bot - 1 THEN flanterm_fb_set_cursor_pos(flanterm_fb_scroll(s), x, y)
      ELSE flanterm_fb_set_cursor_pos(s, x, y + 1)

Escaped(s, c) ==
  LET x == GetX(s)
      y == GetY(s)
  IN  CASE c = "7" -> [s EXCEPT !.saved = Saved(s)]
        [] c = "8" -> restore_state(s)
        [] c = "c" -> flanterm_fb_clear(flanterm_context_reinit(s), TRUE)
        [] c = "D" -> LineFeed(s, x)
        [] c = "E" -> LineFeed(s, 0)
        [] c = "M" -> IF y = s.top THEN flanterm_fb_set_cursor_pos(flanterm_fb_revscroll(s), 0, y)
                      ELSE flanterm_fb_set_cursor_pos(s, 0, y - 1)
        [] c = "(" -> [s EXCEPT !.gsel = 1]
        [] c = ")" -> [s EXCEPT !.gsel = 2]
        [] OTHER   -> s

Escape(a, c) ==
  IF a.csi THEN control_sequence_parse(a, c)
  ELSE CASE c = "]" -> [a EXCEPT !.osc = TRUE, !.oscesc = FALSE]
         [] c = "[" -> [a EXCEPT !.vals = [i \in DOMAIN @ |-> 0], !.vi = 0, !.rrr = FALSE,
                                 !.unh = FALSE, !.csi = TRUE]
         [] OTHER   -> [Escaped(a, c) EXCEPT !.esc = FALSE]
AfterOsc(o, c) == IF o[2] THEN o[1] ELSE Escape(o[1], c)
escape_parse(s, c) ==
  LET a == [s EXCEPT !.off = @ + 1] IN AfterOsc(IF s.osc THEN osc_parse(a, c) ELSE <<a, FALSE>>, c)

\* The last byte of a multi-byte character.
Unicode(s) ==
  LET cp == s.cp
  IN  IF cp437[cp] # "" THEN flanterm_fb_raw_putchar(s, cp437[cp])
      ELSE CASE wcwidth[cp] = 0 -> s
             [] wcwidth[cp] = 1 -> flanterm_fb_raw_putchar(s, "box")
             [] wcwidth[cp] = 2 -> flanterm_fb_raw_putchar(flanterm_fb_raw_putchar(s, "box"), " ")

Control(s, c) ==
  LET x == GetX(s)
      y == GetY(s)
      stop == (x \div TabSize) + 1
  IN  CASE c = "ESC" -> [s EXCEPT !.off = 0, !.esc = TRUE]
        [] c = "TAB" -> flanterm_fb_set_cursor_pos(s, IF stop >= Cols THEN Cols - 1 ELSE stop * TabSize, y)
        [] c = "LF"  -> LineFeed(s, IF s.onlcr THEN 0 ELSE x)
        [] c = "BS"  -> flanterm_fb_set_cursor_pos(s, x - 1, y)
        [] c = "CR"  -> flanterm_fb_set_cursor_pos(s, 0, y)
        [] c = "SO"  -> [s EXCEPT !.charset = 2]
        [] c = "SI"  -> [s EXCEPT !.charset = 1]
        [] c \in {"NUL", "BEL"} -> s

Controls == {"ESC", "TAB", "LF", "BS", "CR", "SO", "SI", "NUL", "BEL"}

\* A byte that is shown: room in insert mode, then the glyph.
Shown(s, c) ==
  LET y == GetY(s)
      a == IF ~s.ins THEN s
           ELSE FoldLeft(LAMBDA q, i : flanterm_fb_move_character(q, i + 1, i, y), s, Down(Cols - 1, GetX(s)))
      g == dec_special[c]
  IN  flanterm_fb_raw_putchar(a, IF s.charsets[s.charset] = "dec" /\ g # "" THEN g ELSE IF c \in Printable THEN c ELSE "box")

flanterm_putchar(s, c) ==
  IF s.discard \/ c = "CAN"
  THEN [s EXCEPT !.discard = FALSE, !.esc = FALSE, !.csi = FALSE, !.urem = 0, !.osc = FALSE,
                 !.oscesc = FALSE, !.gsel = 0]
  ELSE IF s.urem > 0 /\ c \in Cont
  THEN LET a == [s EXCEPT !.urem = @ - 1, !.cp = Append(@, c)]
       IN  IF a.urem > 0 THEN a ELSE Unicode(a)
  ELSE LET b == [s EXCEPT !.urem = 0]
           lead(n) == [b EXCEPT !.urem = n, !.cp = <<c>>]
       IN  IF c \in Lead1 THEN lead(1) ELSE IF c \in Lead2 THEN lead(2) ELSE IF c \in Lead3 THEN lead(3)
           ELSE IF b.esc THEN escape_parse(b, c)
           ELSE IF b.gsel > 0
           THEN [b EXCEPT !.charsets[b.gsel] = IF c = "B" THEN "default" ELSE IF c = "0" THEN "dec" ELSE @,
                          !.gsel = 0]
           ELSE IF c \in Controls THEN Control(b, c) ELSE Shown(b, c)

----------------------------------------------------------------------------
(* The calls of a client.                                                   *)

flanterm_fb_full_refresh(s) ==
  LET a == [s EXCEPT !.screen = s.grid] IN IF s.cursor THEN draw_cursor(a) ELSE a

flanterm_fb_init ==
  LET blank == [c |-> " ", fg |-> DefFg(FALSE), bg |-> DefBg(FALSE)]
      zero  == [bold |-> FALSE, bgbold |-> FALSE, rev |-> FALSE, charset |-> 1, prim |-> 0, cbg |-> 0,
                fg |-> Rgb(0), bg |-> Rgb(0), x |-> 0, y |-> 0]
  IN  flanterm_fb_full_refresh(flanterm_context_reinit(
        [x |-> 0, y |-> 0, ox |-> 0, oy |-> 0, fg |-> DefFg(FALSE), bg |-> DefBg(FALSE),
         grid |-> [i \in Cells |-> blank], map |-> [i \in Cells |-> NONE], qi |-> 0,
         screen |-> [i \in Cells |-> blank], vals |-> [i \in 0 .. MaxEsc - 1 |-> 0], cp |-> <<>>,
         saved |-> zero, autoflush |-> TRUE, cursor |-> TRUE, scroll |-> TRUE, csi |-> FALSE,
         esc |-> FALSE, osc |-> FALSE, oscesc |-> FALSE, rrr |-> FALSE, discard |-> FALSE,
         bold |-> FALSE, bgbold |-> FALSE, rev |-> FALSE, dec |-> FALSE, ins |-> FALSE, unh |-> FALSE,
         urem |-> 0, gsel |-> 0, charsets |-> <<>>, charset |-> 1, off |-> 0, vi |-> 0, sx |-> 0,
         sy |-> 0, prim |-> None, cbg |-> None, top |-> 0, bot |-> 0, onlcr |-> TRUE]))

\* Does this byte end a graphic rendition, and does that set colours the
\* attributes do not record: 38, 48 and the bright colours never do, 1, 5, 22
\* and 25 take the default of the wrong side while the colours are reversed.
EndsSgr(s, c) == s.esc /\ s.csi /\ ~s.osc /\ ~s.dec /\ ~s.unh /\ ~s.discard /\ c = "m"
Loose(s) ==
  LET n == s.vi + (IF s.rrr THEN 1 ELSE 0)
      given == {s.vals[i] : i \in 0 .. n - 1}
  IN  \/ given \cap ({38, 48} \cup 90 .. 97 \cup 100 .. 107) # {}
      \/ (s.rev \/ 7 \in given) /\ given \cap {1, 5, 22, 25} # {}
Clean(s) == LET n == s.vi + (IF s.rrr THEN 1 ELSE 0) IN n = 0 \/ (n = 1 /\ s.vals[0] = 0)

\* Is the byte one of escape_parse itself, not of a sequence or a string.
Bare(s) == s.esc /\ ~s.csi /\ (s.osc => s.oscesc)

\* The history of the colours along one byte: h.now, h.saved.
Tear(h, s, c) ==
  CASE EndsSgr(s, c) -> [h EXCEPT !.now = ~Clean(s) /\ (@ \/ Loose(s))]
    [] Bare(s) /\ c = "7" -> [h EXCEPT !.saved = h.now]
    [] Bare(s) /\ c = "8" -> [h EXCEPT !.now = h.saved]
    [] Bare(s) /\ c = "c" -> [h EXCEPT !.now = TRUE]
    [] OTHER -> h

\* The bytes of a write: the state, the history of the colours and of the margins.
Tracked(p, c, n) == [s |-> n, h |-> Tear(p.h, p.s, c), narrow |-> p.narrow \/ n.top # 0 \/ n.bot # Rows]
Track(p, c) == Tracked(p, c, flanterm_putchar(p.s, c))
Bytes(s, buf) == FoldLeft(Track, [s |-> s, h |-> torn, narrow |-> narrow], buf)

flanterm_write(s, buf) ==
  LET r == Bytes(s, buf)
  IN  [r EXCEPT !.s = IF @.autoflush THEN flanterm_fb_double_buffer_flush(@) ELSE @]

TermInit ==
  /\ ctx = flanterm_fb_init /\ shown = FALSE /\ narrow = FALSE /\ left = MaxWrites
  /\ torn = [now |-> FALSE, saved |-> TRUE]

Call == left > 0 /\ left' = left - 1
Wrote(r) == ctx' = r.s /\ torn' = r.h /\ narrow' = r.narrow

TermPrint == Call /\ (\E buf \in Writes : Wrote(flanterm_write(ctx, buf))) /\ shown' = ctx'.autoflush

\* menu.c writes its last lines with scrolling switched off.
PrintNoScroll ==
  /\ Call
  /\ \E buf \in Writes :
       LET r == flanterm_write([ctx EXCEPT !.scroll = FALSE], buf)
       IN  Wrote([r EXCEPT !.s.scroll = TRUE])
  /\ shown' = ctx'.autoflush

ManualFlush == Call /\ ctx.autoflush /\ ctx' = [ctx EXCEPT !.autoflush = FALSE]
               /\ UNCHANGED <<shown, torn, narrow>>
SetCursorEnabled == Call /\ ctx' = [ctx EXCEPT !.cursor = ~@] /\ shown' = FALSE /\ UNCHANGED <<torn, narrow>>
flanterm_flush == Call /\ ctx' = flanterm_fb_double_buffer_flush(ctx) /\ shown' = TRUE
                  /\ UNCHANGED <<torn, narrow>>
reset_term ==
  /\ Call
  /\ LET r == flanterm_write(ctx, <<"ESC", "[", "2", "J", "ESC", "[", "H">>)
     IN  Wrote([r EXCEPT !.s = flanterm_context_reinit(@), !.h.now = TRUE])
  /\ shown' = FALSE

TermNext ==
  TermPrint \/ PrintNoScroll \/ ManualFlush \/ SetCursorEnabled \/ flanterm_flush \/ reset_term

TermSpec == TermInit /\ [][TermNext]_termvars

----------------------------------------------------------------------------
(* Properties.                                                              *)

\* Every field keeps its range: the parameters fit their array, the margins
\* leave at least two lines inside the screen whatever CSI r asked for, and a
\* position never gets below zero (flanterm_fb_set_cursor_pos).
TermTypeOK ==
  /\ ctx.x \in Nat /\ ctx.y \in Nat /\ ctx.vi \in 0 .. MaxEsc /\ (ctx.rrr => ctx.vi < MaxEsc)
  /\ 0 <= ctx.top /\ ctx.top < ctx.bot - 1 /\ ctx.bot <= Rows
  /\ ctx.urem \in 0 .. 3 /\ ctx.gsel \in 0 .. 2 /\ ctx.charset \in 1 .. 2
  /\ DOMAIN ctx.grid = Cells /\ DOMAIN ctx.map = Cells /\ DOMAIN ctx.screen = Cells

\* The flags of escape_parse, osc_parse and control_sequence_parse are nested:
\* an inner state is left before, or with, the one it belongs to, whatever
\* bytes arrive, a CAN in the middle included.
ParserNested ==
  /\ (ctx.csi \/ ctx.osc => ctx.esc)
  /\ ~(ctx.csi /\ ctx.osc)
  /\ (ctx.oscesc => ctx.osc)
  /\ (ctx.discard => ~ctx.esc)

\* The queue of flanterm_fb_push_to_queue has room for one item per cell and
\* no check: it never holds more items than that, nor two for one cell.
QueueFits == Cardinality({i \in Cells : ctx.map[i] # NONE}) <= ctx.qi /\ ctx.qi <= Rows * Cols

\* After a flush the framebuffer shows exactly the cells written so far, with
\* the cursor and no other cell inverted, and nothing is left in the queue.
FlushShows ==
  shown =>
    /\ \A i \in Cells :
         /\ ctx.map[i] = NONE
         /\ ctx.screen[i] = IF ctx.cursor /\ ctx.x < Cols /\ ctx.y < Rows /\ i = At(ctx.x, ctx.y)
                          THEN Inverted(ctx.grid[i]) ELSE ctx.grid[i]
    /\ ctx.qi = 0

\* As long as nobody narrows the scroll region the cursor stays on a line of
\* the screen, so that no text is dropped by the bounds test of the queue
\* (flanterm_fb_raw_putchar compares the row with the number of columns).
TextStaysOnScreen == ~narrow => ctx.y < Rows

\* The two colours of the backend are the ones the attributes of flanterm.c
\* stand for, reversed or not, unless a sequence set them past the attributes.
AttributesAgree ==
  LET f == IF ctx.prim # None THEN Col(ctx.prim, ctx.bold) ELSE DefFg(ctx.bold)
      b == IF ctx.cbg # None THEN Col(ctx.cbg, ctx.bgbold) ELSE DefBg(ctx.bgbold)
  IN  ~torn.now => <<ctx.fg, ctx.bg>> = IF ctx.rev THEN <<b, f>> ELSE <<f, b>>

\* All of them, after whatever bytes flanterm_write was given.
TerminalSound == TermTypeOK /\ ParserNested /\ QueueFits /\ FlushShows /\ TextStaysOnScreen /\ AttributesAgree
=============================================================================
