------------------------------ MODULE BootMenu ------------------------------
(***************************************************************************)
(* The boot menu: menu.c, the tree of lib/config.c and the keys of          *)
(* lib/getchar.c.  An entry of the configuration is its depth (leading      *)
(* slashes), whether its name starts with '+', and whether its protocol is  *)
(* one of the other firmware's.  Entries are named by their number.         *)
(*                                                                          *)
(* The editor's text is a sequence of "c" and "n" (a newline); tabs and     *)
(* colours are left out.  What happens to the terminals is not modelled.    *)
(***************************************************************************)
EXTENDS Integers, Sequences, FiniteSets, SequencesExt

CONSTANTS
  Configs,      \* [entries, default, timeout, editor]; timeout -1 is "no"
  Shown,        \* rows - 8: entries that fit on the screen
  Columns,      \* cols - 2 of the editor
  Lines,        \* rows - 8 of the editor
  BufSize,      \* EDITOR_MAX_BUFFER_SIZE
  OldText,      \* the text of every entry
  MaxBoots, MaxKeys

ASSUME MenuAssumption == {Shown, Columns, Lines, BufSize, MaxBoots, MaxKeys} \subseteq Nat \ {0} /\ Len(OldText) < BufSize

VARIABLES
  conf,         \* the configuration file
  ui,           \* start, refresh, countdown, keys, edit, booting, gone, null
  first, bad,   \* menu()'s argument, bad_config
  parent,       \* parent[e]: the tree; 0 for the root, -1 not in it
  expanded, body,
  sel, cur,     \* selected_entry, selected_menu_entry (0: NULL)
  off, left, skip,     \* tree_offset, seconds left, skip_timeout
  fromEd, fromBlank, saved,   \* booting_from_editor, booting_from_blank, saved_orig_entry
  buf, pos, wo,               \* the editor: buffer, cursor_offset, window_offset
  past,                       \* history: a character was read past the buffer
  booted,
  digit,                      \* history: a digit was pressed
  keys, boots

treevars == <<parent, expanded, body>>
edvars   == <<buf, pos, wo, past>>
menuvars == <<conf, ui, first, bad, treevars, sel, cur, off, left, skip, fromEd, fromBlank, saved, edvars, booted, digit, keys, boots>>

E == conf.entries
Count == IF bad THEN 0 ELSE Len(E)
NotBooted == [entry |-> 0, meant |-> 0, text |-> <<>>]

----------------------------------------------------------------------------
(* lib/config.c: the tree.                                                  *)

is_child(d, i) ==
  IF i > Len(E) \/ E[i].depth < d THEN "not" ELSE IF E[i].depth = d THEN "direct" ELSE "indirect"

\* The tree with the children of p from entry i on, at depth d; a child two
\* levels below its parent is the end (<<>>).
RECURSIVE create_menu_tree(_, _, _, _)
create_menu_tree(t, p, d, i) ==
  IF t = <<>> \/ is_child(d, i) = "not" THEN t
  ELSE IF is_child(d, i) = "indirect" THEN create_menu_tree(t, p, d, i + 1)
  ELSE LET u   == [t EXCEPT ![i] = p]
           sub == CASE is_child(d + 1, i + 1) = "not" -> u
                    [] is_child(d + 1, i + 1) = "indirect" -> <<>>
                    [] OTHER -> create_menu_tree(u, i, d + 1, i + 1)
       IN  IF sub = <<>> THEN <<>> ELSE create_menu_tree(sub, p, d, i + 1)

IsDir(e) == \E k \in DOMAIN parent : parent[k] = e
Children(p) == SelectSeq([e \in 1 .. Count |-> e], LAMBDA e : parent[e] = p)

\* print_tree's order of the entries it counts.
RECURSIVE Tree(_)
Tree(p) ==
  LET part(e) == IF ~IsDir(e) /\ E[e].other THEN <<>>
                 ELSE <<e>> \o (IF IsDir(e) /\ e \in expanded THEN Tree(e) ELSE <<>>)
      cs == Children(p)
  IN  FlattenSeq([n \in DOMAIN cs |-> part(cs[n])])
Visible == Tree(0)
max_entries == Len(Visible)

\* print_tree loads the selected entry only while it prints, and only when
\* it is in the window.
print_tree(shift, s, from) ==
  IF shift /\ s < max_entries /\ s >= from /\ s < from + Shown THEN Visible[s + 1] ELSE cur

----------------------------------------------------------------------------
(* The editor's window: passes over the text until the cursor was printed.  *)

\* One pass over text b with the cursor at p and window_offset o, from
\* position i on: whether the cursor was printed, and the next offset.  l is
\* the line, x line_offset, w window_size.
RECURSIVE Pass(_, _, _, _, _, _, _, _)
Pass(b, p, o, i, l, x, w, done) ==
  LET ch   == IF i < Len(b) THEN b[i + 1] ELSE "0"
      in(n) == l < o + n /\ l >= o
      wrap == ch # "0" /\ x % Columns = Columns - 1
      here == i = p
  IN  IF ch = "n" /\ in(w) THEN Pass(b, p, o, i + 1, l + 1, 0, w, done \/ here)
      ELSE LET w1 == IF wrap THEN w - 1 ELSE w
               d1 == done \/ (here /\ ((wrap /\ in(w)) \/ in(w1)))
           IN  IF ch = "0" \/ l >= o + w1
               THEN <<d1, IF d1 THEN o ELSE IF i <= p THEN o + 1 ELSE o - 1>>
               ELSE IF ch = "n" THEN Pass(b, p, o, i + 1, l + 1, 0, w1, d1)
               ELSE Pass(b, p, o, i + 1, l, IF l >= o THEN x + 1 ELSE x, w1, d1)

\* The offset the passes end with; Endless when they go on for ever.
Endless == -1
RECURSIVE Settle(_, _, _, _)
Settle(b, p, o, n) ==
  LET r == Pass(b, p, o, 0, 0, 0, Lines, FALSE)
  IN  IF r[1] THEN o ELSE IF n = 0 \/ r[2] < 0 THEN Endless ELSE Settle(b, p, r[2], n - 1)
View(b, p, o) == Settle(b, p, o, 2 * BufSize)

----------------------------------------------------------------------------
(* _menu.                                                                   *)

MenuFrom(configs) ==
  /\ conf \in configs /\ ui = "start" /\ first = TRUE /\ bad = FALSE
  /\ parent = [e \in DOMAIN conf.entries |-> -1] /\ expanded = {} /\ body = [e \in DOMAIN conf.entries |-> OldText]
  /\ sel = 0 /\ cur = 0 /\ off = 0 /\ left = 0 /\ skip = FALSE
  /\ fromEd = FALSE /\ fromBlank = FALSE /\ saved = <<>>
  /\ buf = <<>> /\ pos = 0 /\ wo = 0 /\ past = FALSE
  /\ booted = NotBooted /\ digit = FALSE /\ keys = 0 /\ boots = 0
MenuInit == MenuFrom(Configs)

\* The configuration is read again; a bad one leaves the menu empty.
LoadConfig ==
  LET t == create_menu_tree([e \in DOMAIN E |-> -1], 0, 1, 1)
  IN  /\ ui = "start"
      /\ IF ~bad /\ t = <<>> /\ E # <<>>
         THEN bad' = TRUE /\ first' = FALSE /\ UNCHANGED <<ui, parent>>
         ELSE ui' = "options" /\ parent' = (IF bad THEN parent ELSE t) /\ UNCHANGED <<bad, first>>
      /\ expanded' = {e \in DOMAIN E : E[e].plus} /\ body' = [e \in DOMAIN E |-> OldText]
      /\ cur' = 0 /\ off' = 0
      /\ UNCHANGED <<conf, sel, left, skip, fromEd, fromBlank, saved, edvars, booted, digit, keys, boots>>

\* The default entry and the timeout.
Options ==
  LET d == IF bad \/ conf.default = 0 THEN 0 ELSE conf.default - 1
      no == conf.timeout = -1 /\ ~bad
      n  == IF bad THEN 5 ELSE conf.timeout
  IN  /\ ui = "options"
      /\ sel' = IF d >= max_entries THEN 0 ELSE d
      /\ cur' = print_tree(FALSE, d, 0)
      /\ skip' = (no \/ ~first \/ (n = 0 /\ max_entries = 0))
      /\ left' = n
      /\ ui' = IF ~no /\ first /\ n = 0 /\ max_entries # 0
               THEN (IF cur' = 0 THEN "null" ELSE IF IsDir(cur') THEN "refresh" ELSE "enter") ELSE "refresh"
      /\ UNCHANGED <<conf, first, bad, treevars, off, fromEd, fromBlank, saved, edvars, booted, digit, keys, boots>>

\* The editor, with the text of the entry or the one that was booted last,
\* without the newlines it starts with.
Stripped(t) == SubSeq(t, 1 + Cardinality({i \in DOMAIN t : \A j \in 1 .. i : t[j] = "n"}), Len(t))
Open(text) ==
  LET t == Stripped(IF fromEd THEN saved ELSE text)
  IN  ui' = "edit" /\ buf' = t /\ pos' = 0 /\ wo' = View(t, 0, 0) /\ UNCHANGED past

Editable(e) == max_entries # 0 /\ e # 0 /\ ~IsDir(e)

\* Mutant: the window does not follow the selected entry.
OffsetStays == off

Offset == LET o == IF sel >= off + Shown THEN sel - (Shown - 1) ELSE off IN IF sel < o THEN sel ELSE o

Refresh ==
  LET c == print_tree(TRUE, sel, Offset)
      s == skip \/ max_entries = 0 \/ IsDir(c)
  IN  /\ ui = "refresh"
      /\ off' = Offset /\ cur' = c /\ skip' = s
      /\ IF ~s THEN ui' = "countdown" /\ UNCHANGED <<fromBlank, edvars>>
         ELSE IF fromEd /\ fromBlank THEN Open(<<>>) /\ UNCHANGED fromBlank
         ELSE IF fromEd /\ Editable(c) THEN Open(body[c]) /\ UNCHANGED fromBlank
         ELSE ui' = "keys" /\ UNCHANGED <<fromBlank, edvars>>
      /\ UNCHANGED <<conf, first, bad, treevars, sel, left, fromEd, saved, booted, digit, keys, boots>>

\* A second without a key.
Countdown ==
  /\ ui = "countdown" /\ left' = left - 1
  /\ ui' = IF left' = 0 THEN "enter" ELSE "countdown"
  /\ UNCHANGED <<conf, first, bad, treevars, sel, cur, off, skip, fromEd, fromBlank, saved, edvars, booted, digit, keys, boots>>

Key(d) == ui \in {"keys", "countdown"} /\ digit' = (digit \/ d) /\ keys < MaxKeys /\ keys' = keys + 1 /\ skip' = (skip \/ ui = "countdown")
       /\ UNCHANGED <<conf, first, bad, parent, off, left, fromEd, saved, boots>>

\* autoboot: a directory is opened or closed, an entry is booted.
autoboot(e) ==
  IF max_entries = 0 THEN ui' = "keys" /\ UNCHANGED <<expanded, booted>>
  ELSE IF e = 0 THEN ui' = "null" /\ UNCHANGED <<expanded, booted>>
  ELSE IF IsDir(e)
  THEN /\ expanded' = IF e \in expanded THEN expanded \ {e} ELSE expanded \cup {e}
       /\ ui' = "refresh" /\ UNCHANGED booted
  ELSE /\ booted' = [entry |-> e, meant |-> IF sel' < max_entries THEN Visible[sel' + 1] ELSE 0, text |-> body'[e]]
       /\ ui' = "booting" /\ UNCHANGED expanded

\* A digit: its entry is to be loaded and booted.
Digit(n) ==
  /\ Key(TRUE) /\ max_entries # 0 /\ UNCHANGED <<fromBlank, edvars, body>>
  /\ IF n < max_entries THEN sel' = n /\ cur' = print_tree(FALSE, n, 0) /\ autoboot(cur')
     ELSE ui' = "refresh" /\ UNCHANGED <<sel, cur, expanded, booted>>

Move(s) ==
  /\ Key(FALSE) /\ max_entries # 0 /\ sel' = s /\ ui' = "refresh"
  /\ UNCHANGED <<expanded, body, cur, fromBlank, edvars, booted>>
Home == Move(0)
End  == Move(max_entries - 1)
Up   == Move(IF sel = 0 THEN max_entries - 1 ELSE sel - 1)
Down == Move(IF sel + 1 = max_entries THEN 0 ELSE sel + 1)

\* Enter, or the end of the countdown.
Enter ==
  /\ Key(FALSE) /\ max_entries # 0 /\ UNCHANGED <<sel, cur, fromBlank, edvars, body>> /\ autoboot(cur)
AutoEnter ==
  /\ ui = "enter" /\ UNCHANGED <<sel, cur, body>> /\ autoboot(cur)
  /\ UNCHANGED <<conf, first, bad, parent, off, left, skip, fromEd, fromBlank, saved, edvars, digit, keys, boots>>

\* A key without a meaning here (any other one; E without the editor or on a
\* directory) only stops the countdown; afterwards it does nothing.
OtherKey ==
  /\ ui = "countdown" /\ Key(FALSE) /\ ui' = "keys"
  /\ UNCHANGED <<expanded, body, sel, cur, fromBlank, edvars, booted>>

EditEntry ==
  /\ Key(FALSE) /\ conf.editor /\ Editable(cur) /\ Open(body[cur])
  /\ UNCHANGED <<expanded, body, sel, cur, fromBlank, booted>>
EditBlank ==
  /\ Key(FALSE) /\ conf.editor /\ fromBlank' = TRUE /\ Open(<<>>)
  /\ UNCHANGED <<expanded, body, sel, cur, booted>>

----------------------------------------------------------------------------
(* config_entry_editor.  Positions count from 0; buf[i + 1] is buffer[i].   *)

\* The start of the line of position i, its length from i on.
get_line_offset(i) ==
  LET ns == {j \in 1 .. i : buf[j] = "n"} IN IF ns = {} THEN 0 ELSE CHOOSE j \in ns : \A k \in ns : k <= j
get_line_length(i) ==
  LET ns == {j \in i + 1 .. Len(buf) : buf[j] = "n"}
  IN  (IF ns = {} THEN Len(buf) ELSE (CHOOSE j \in ns : \A k \in ns : j <= k) - 1) - i
LeastOf(a, b) == IF a < b THEN a ELSE b

get_next_line(i) ==
  LET end == i + get_line_length(i)
  IN  IF end = Len(buf) THEN end
      ELSE end + 1 + LeastOf(i - get_line_offset(i), get_line_length(end + 1))
get_prev_line(i) ==
  LET o == get_line_offset(i)
      p == get_line_offset(o - 1)
  IN  IF o = 0 THEN 0 ELSE p + LeastOf(i - o, get_line_length(p))

EdKey == ui = "edit" /\ wo # Endless /\ keys < MaxKeys /\ keys' = keys + 1
         /\ UNCHANGED <<conf, first, bad, parent, expanded, sel, cur, off, left, skip, digit, boots>>
Moved(p) == EdKey /\ pos' = p /\ wo' = View(buf, p, wo) /\ UNCHANGED <<ui, body, fromEd, fromBlank, saved, buf, past, booted>>
EdDown  == Moved(get_next_line(pos))
EdUp    == Moved(get_prev_line(pos))
EdLeft  == Moved(IF pos > 0 THEN pos - 1 ELSE 0)
EdRight == Moved(IF pos < Len(buf) THEN pos + 1 ELSE pos)
EdHome  == Moved(get_line_offset(pos))
EdEnd   == Moved(pos + get_line_length(pos))

Edited(b, p, o) ==
  EdKey /\ buf' = b /\ pos' = p /\ wo' = View(b, p, wo) /\ past' = (past \/ o)
  /\ UNCHANGED <<ui, body, fromEd, fromBlank, saved, booted>>

\* The characters from position p on move down by one; at the end of a full
\* buffer the one that moves in is not the buffer's.
Cut1(s, p) == IF p < Len(s) THEN RemoveAt(s, p + 1) ELSE s
EdBackspace == pos > 0 /\ Edited(Cut1(buf, pos - 1), pos - 1, FALSE)
EdDelete ==
  IF pos = Len(buf) /\ Len(buf) = BufSize - 1
  THEN \E x \in {<<>>, <<"c">>} : Edited(buf \o x, pos, TRUE)
  ELSE Edited(Cut1(buf, pos), pos, FALSE)

EdType(c) ==
  IF Len(buf) < BufSize - 1 THEN Edited(InsertAt(buf, pos + 1, c), pos + 1, FALSE)
  ELSE Edited(buf, pos, FALSE)

\* F10: the text is kept over a failed boot and becomes the entry's.
EdBoot ==
  /\ EdKey /\ saved' = buf /\ fromEd' = TRUE /\ ui' = "booting" /\ UNCHANGED <<fromBlank, edvars>>
  /\ IF fromBlank THEN booted' = [entry |-> 0, meant |-> 0, text |-> buf] /\ UNCHANGED body
     ELSE booted' = [entry |-> cur, meant |-> cur, text |-> buf] /\ body' = [body EXCEPT ![cur] = buf]
EdEscape ==
  /\ EdKey /\ fromEd' = FALSE /\ fromBlank' = FALSE /\ ui' = "refresh" /\ UNCHANGED <<body, saved, edvars, booted>>

\* boot(): the kernel is entered, or a panic comes back to the menu, where
\* only the variables marked no_unwind have kept their values.
BootGoes ==
  /\ ui = "booting" /\ ui' = "gone"
  /\ UNCHANGED <<conf, first, bad, treevars, sel, cur, off, left, skip, fromEd, fromBlank, saved, edvars, booted, digit, keys, boots>>
BootFails ==
  /\ ui = "booting" /\ boots < MaxBoots /\ boots' = boots + 1
  /\ ui' = "start" /\ first' = FALSE
  /\ UNCHANGED <<conf, bad, treevars, sel, cur, off, left, skip, fromEd, fromBlank, saved, edvars, booted, digit, keys>>

MenuNext ==
  \/ LoadConfig \/ Options \/ Refresh \/ Countdown \/ AutoEnter \/ BootGoes \/ BootFails
  \/ \E n \in 0 .. 2 : Digit(n)
  \/ Home \/ End \/ Up \/ Down \/ Enter \/ OtherKey \/ EditEntry \/ EditBlank
  \/ EdDown \/ EdUp \/ EdLeft \/ EdRight \/ EdHome \/ EdEnd \/ EdBackspace \/ EdDelete \/ EdBoot \/ EdEscape
  \/ \E c \in {"c", "n"} : EdType(c)
MenuSpec == MenuInit /\ [][MenuNext]_menuvars

----------------------------------------------------------------------------
(* Properties.                                                              *)

\* The parent of an entry: the last one before it with one slash less, if no
\* entry between has fewer; the first entries may lack theirs.
ParentOf(e) ==
  IF E[e].depth = 1 THEN 0
  ELSE LET up == {j \in 1 .. e - 1 : E[j].depth = E[e].depth - 1 /\ \A k \in j + 1 .. e - 1 : E[k].depth >= E[e].depth}
       IN  IF up = {} THEN -1 ELSE CHOOSE j \in up : \A k \in up : k <= j
InTree(e) == ParentOf(e) # -1 /\ (E[e].depth = 1 \/ parent[ParentOf(e)] # -1)

Broken == \E i \in 0 .. Len(buf) : get_line_length(i) >= Columns - 1

\* The tree holds every entry below the entry its slashes say.  While the
\* menu waits for a key the entry it shows as selected is in its window and is
\* the one Enter boots; only a digit, which closes the directory that was
\* selected before, can leave the selection past the end.  The editor's cursor
\* stays in its text and the text in the buffer, and the window has the cursor's
\* line.  What is booted is what was asked for.
\* Exceptions.  The editor: after a deletion at the end of a full buffer, which
\* reads the character behind it; with a line that is broken over two rows; and
\* with the cursor at the end of a text that has become shorter than the lines
\* above the window, where the drawing never ends.  The boot: after a digit
\* print_tree prints nothing and does not load the entry, so the one loaded
\* before is booted; with a timeout of 0 none has been loaded, and the pointer
\* that is followed is NULL (ui is "null", nothing is booted).
MenuSound ==
  /\ ui # "start" /\ ~bad => \A e \in DOMAIN E : parent[e] = IF InTree(e) THEN ParentOf(e) ELSE -1
  /\ ui \in {"keys", "countdown"} /\ sel < max_entries => cur = Visible[sel + 1] /\ off <= sel /\ sel < off + Shown
  /\ ui \in {"keys", "countdown"} /\ sel >= max_entries => max_entries = 0 \/ digit
  /\ ui = "edit" /\ ~past =>
       /\ Len(buf) <= BufSize - 1 /\ pos \in 0 .. Len(buf)
       /\ LET line == Cardinality({n \in 1 .. pos : buf[n] = "n"})
          IN  Broken \/ (wo <= line /\ line < wo + Lines) \/ (wo = Endless /\ pos = Len(buf))
  /\ ui = "booting" /\ ~digit => booted.entry = booted.meant
=============================================================================
