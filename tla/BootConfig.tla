----------------------------- MODULE BootConfig -----------------------------
(***************************************************************************)
(* The boot loader's configuration (lib/config.c): where it is taken from,  *)
(* how its text is prepared, and the values that are looked up in it.       *)
(*                                                                          *)
(* A text is a sequence of lines [k, key, val, lead, trail, cr]: an option, *)
(* an entry (its key is the depth), the definition of a macro or any other  *)
(* text, with lead and trail blanks around it and perhaps a carriage return.*)
(* val is a sequence of items [m, s]: a character, or a use of macro s.     *)
(***************************************************************************)
EXTENDS Integers, Sequences, FiniteSets, SequencesExt

CONSTANTS
  Sources,      \* [disk, smbios, sum]: paths with their texts, structures, checksum
  SearchPath,   \* the paths that are tried, in order
  MaxLookups

ASSUME ConfigAssumption == MaxLookups \in Nat /\ SearchPath \in Seq(STRING)

VARIABLES
  source,
  stage,        \* smbios, disk, parse, ready, none, panic
  raw, oem,     \* the text as found, and whether it is a string of SMBIOS
  text,         \* config_addr
  editor,       \* editor_enabled
  value,        \* the last lookup: [scope, key, key2, index, v1, v2]
  lookups

cfvars == <<source, stage, raw, oem, text, editor, value, lookups>>

NoText == [lines |-> <<>>, nl |-> TRUE]
NoLookup == [scope |-> 0, key |-> "", key2 |-> "", index |-> 0, v1 |-> <<>>, v2 |-> <<>>]

ConfigFrom(sources) ==
  /\ source \in sources /\ stage = "smbios" /\ raw = NoText /\ oem = FALSE /\ text = <<>> /\ editor = TRUE
  /\ value = NoLookup /\ lookups = 0
ConfigInit == ConfigFrom(Sources)

----------------------------------------------------------------------------
(* Where the text comes from.                                               *)

\* init_config_smbios: the first OEM string that is a configuration, before
\* the terminator.
init_config_smbios ==
  LET s   == source.smbios
      end == {i \in DOMAIN s : s[i].type = 127}
      hit == {i \in DOMAIN s : s[i].type = 11 /\ s[i].config /\ \A e \in end : i < e}
  IN  /\ stage = "smbios"
      /\ IF hit = {} THEN stage' = "disk" /\ UNCHANGED <<raw, oem>>
         ELSE LET t == s[CHOOSE i \in hit : \A j \in hit : i <= j].text
              IN  raw' = t /\ oem' = TRUE /\ stage' = "parse"
      /\ UNCHANGED <<source, text, editor, value, lookups>>

\* init_config_disk: the first path there is, whatever the case of its letters.
init_config_disk ==
  LET hit == {i \in DOMAIN SearchPath : SearchPath[i] \in DOMAIN source.disk}
  IN  /\ stage = "disk"
      /\ IF hit = {} THEN stage' = "none" /\ UNCHANGED raw
         ELSE raw' = source.disk[SearchPath[CHOOSE i \in hit : \A j \in hit : i <= j]] /\ stage' = "parse"
      /\ UNCHANGED <<source, oem, text, editor, value, lookups>>

----------------------------------------------------------------------------
(* init_config.                                                             *)

\* The newline is put in the place of the last character but one of the
\* buffer, which for a string of SMBIOS is the text's last.
Chopped == oem /\ ~raw.nl
Chop(lines) ==
  LET z == Len(lines)
      l == lines[z]
  IN  [lines EXCEPT ![z] =
        IF l.cr THEN [l EXCEPT !.cr = FALSE] ELSE IF l.trail > 0 THEN [l EXCEPT !.trail = @ - 1]
        ELSE [l EXCEPT !.val = IF @ = <<>> THEN @ ELSE Front(@)]]

\* Only blanks right before a newline are removed: the ones before a carriage
\* return stay, and are part of the value.
Space == [m |-> FALSE, s |-> " "]
Spaces(n) == [i \in 1 .. n |-> Space]
Stripped0(l) == [l EXCEPT !.lead = 0, !.trail = 0, !.cr = FALSE, !.val = IF l.cr THEN @ \o Spaces(l.trail) ELSE @]
Normalised(lines) == [i \in DOMAIN lines |-> Stripped0(lines[i])]

\* Mutant: the first definition of a macro wins.
MacroFirst(lines, s) ==
  LET defs == {i \in DOMAIN lines : lines[i].k = "macro" /\ lines[i].key = s}
  IN  IF defs = {} THEN <<>> ELSE lines[CHOOSE i \in defs : \A j \in defs : i <= j].val

\* Macros are loaded from the whole text before any is used; the last wins,
\* and none is empty.
MacroValue(lines, s) ==
  LET defs == {i \in DOMAIN lines : lines[i].k = "macro" /\ lines[i].key = s}
  IN  IF defs # {} THEN lines[CHOOSE i \in defs : \A j \in defs : j <= i].val
      ELSE IF s \in DOMAIN source.builtin THEN source.builtin[s] ELSE <<>>

\* A use is replaced once: what is put there is not looked at again.
MacroUses(lines) == {x \in UNION {Range(l.val) : l \in {y \in Range(lines) : y.k # "macro"}} : x.m}
Expanded(lines) ==
  LET one(x) == IF x.m THEN MacroValue(lines, x.s) ELSE <<x>>
      line(l) == [l EXCEPT !.val = FlattenSeq([i \in DOMAIN l.val |-> one(l.val[i])])]
      kept == SelectSeq(lines, LAMBDA l : l.k # "macro")
  IN  [i \in DOMAIN kept |-> line(kept[i])]

\* Room for four times the text; a use takes four characters or more.
Size(lines) == FoldLeft(LAMBDA n, l : n + 2 + FoldLeft(LAMBDA c, x : c + IF x.m THEN 4 ELSE 1, 0, l.val), 0, lines)

\* The check of the text (of a string of SMBIOS all but the last character),
\* the newline, the blanks, the macros.
init_config ==
  LET a == Normalised(IF Chopped THEN Chop(raw.lines) ELSE raw.lines)
      b == Expanded(a)
      wrong == source.sum # "" /\ (oem \/ source.sum # "right")
  IN  /\ stage = "parse" /\ editor' = (source.sum = "")
      /\ IF wrong \/ (\E x \in MacroUses(a) : x.s = "unclosed") \/ Size(b) > 4 * Size(a)
         THEN stage' = "panic" /\ UNCHANGED text
         ELSE stage' = "ready" /\ text' = b
      /\ UNCHANGED <<source, raw, oem, value, lookups>>

----------------------------------------------------------------------------
(* Lookups.  A scope is 0, the options of the whole configuration, or the   *)
(* number of an entry.                                                      *)

Titles(lines) == {i \in DOMAIN lines : lines[i].k = "entry"}
\* config_get_entry: from after its title up to the next.
TitleAt(e) == CHOOSE i \in Titles(text) : Cardinality({j \in Titles(text) : j <= i}) = e
config_get_entry(e) == {i \in DOMAIN text : i > TitleAt(e) /\ \A j \in Titles(text) : j <= TitleAt(e) \/ j > i}

\* The options of the configuration end where the first title is, unless that
\* is the start of the text: then there is no place for the terminator.
GlobalLines == {i \in DOMAIN text : \A j \in Titles(text) : j = 1 \/ 1 \in Titles(text) \/ i < j}
Lines0(scope) == IF scope = 0 THEN GlobalLines ELSE config_get_entry(scope)

\* config_get_value: the line of the option, counted from 0, or 0.
LineOf(lines, key, index) ==
  LET hit == {i \in lines : text[i].k = "opt" /\ text[i].key = key}
  IN  IF Cardinality(hit) <= index THEN 0 ELSE CHOOSE i \in hit : Cardinality({j \in hit : j < i}) = index
\* A value, from its first character that is not a blank.
RECURSIVE SkipBlanks(_)
SkipBlanks(val) == IF val # <<>> /\ Head(val) = Space THEN SkipBlanks(Tail(val)) ELSE val
Val(i) == IF i = 0 THEN <<>> ELSE <<SkipBlanks(text[i].val)>>

Lookup == stage = "ready" /\ lookups < MaxLookups /\ lookups' = lookups + 1
config_get_value(scope, index, key) ==
  /\ Lookup /\ value' = [scope |-> scope, key |-> key, key2 |-> "", index |-> index, v1 |-> Val(LineOf(Lines0(scope), key, index)), v2 |-> <<>>]
  /\ UNCHANGED <<source, stage, raw, oem, text, editor>>

\* config_get_tuple: the second key is looked for behind the first, and counts
\* unless the first comes again before it.
config_get_tuple(scope, index, key1, key2) ==
  LET a == LineOf(Lines0(scope), key1, index)
      b == LineOf({i \in Lines0(scope) : i > a}, key2, 0)
      c == LineOf(Lines0(scope), key1, index + 1)
      v == IF a = 0 \/ (b # 0 /\ c # 0 /\ b > c) THEN 0 ELSE b
  IN  /\ Lookup /\ value' = [scope |-> scope, key |-> key1, key2 |-> key2, index |-> index, v1 |-> Val(a), v2 |-> Val(v)]
      /\ UNCHANGED <<source, stage, raw, oem, text, editor>>

Scopes == 0 .. Cardinality(Titles(text))
ConfigNext ==
  \/ init_config_smbios \/ init_config_disk \/ init_config
  \/ \E scope \in Scopes, index \in 0 .. 1 : config_get_value(scope, index, "path") \/ config_get_tuple(scope, index, "path", "args")
ConfigSpec == ConfigInit /\ [][ConfigNext]_cfvars

----------------------------------------------------------------------------
(* Properties.                                                              *)

\* What is written: the options of a scope in the text as found.
OwnLines(scope) ==
  LET t == raw.lines
      before(i) == Cardinality({j \in 1 .. i : t[j].k = "entry"})
  IN  SelectSeq([i \in DOMAIN t |-> [l |-> t[i], scope |-> before(i)]], LAMBDA x : x.scope = scope /\ x.l.k = "opt")
\* A carriage return keeps the blanks before it.
AsWritten(l) == l.val \o Spaces(IF l.cr THEN l.trail ELSE 0)
Meant(l) ==
  LET t == raw.lines
      v == AsWritten(l)
      def(s) == LET d == {i \in DOMAIN t : t[i].k = "macro" /\ t[i].key = s}
                IN  IF d # {} THEN AsWritten(t[CHOOSE i \in d : \A j \in d : j <= i])
                    ELSE IF s \in DOMAIN source.builtin THEN source.builtin[s] ELSE <<>>
  IN  SkipBlanks(FlattenSeq([i \in DOMAIN v |-> IF v[i].m THEN def(v[i].s) ELSE <<v[i]>>]))
Nth(scope, key, index) ==
  LET ls  == OwnLines(scope)
      hit == {i \in DOMAIN ls : ls[i].l.key = key}
  IN  IF Cardinality(hit) <= index THEN 0 ELSE CHOOSE i \in hit : Cardinality({j \in hit : j < i}) = index
Written(scope, i) == IF i = 0 THEN <<>> ELSE <<Meant(OwnLines(scope)[i].l)>>
Pair(scope, key, key2, index) ==
  LET ls == OwnLines(scope)
      a  == Nth(scope, key, index)
      bs == {i \in DOMAIN ls : i > a /\ ls[i].l.key = key2 /\ \A j \in a + 1 .. i : ls[j].l.key # key}
  IN  IF a = 0 \/ bs = {} THEN 0 ELSE CHOOSE i \in bs : \A j \in bs : i <= j

\* A lookup gives what is written in its own scope and nothing of another
\* entry, with every macro as it was last defined anywhere in the text; the
\* second of a pair belongs to the first it follows.
\* Exceptions: blanks before a carriage return are part of the value (or of the
\* macro, wherever it is used), although the code says it removes them (see
\* BlanksRemoved).  Nothing is said of a string of SMBIOS whose last character
\* was lost, nor of the options of a text that starts with an entry, which has
\* the entries' in their place.
LookupsSound ==
  stage = "ready" /\ value.key # "" /\ ~Chopped /\ (value.scope # 0 \/ 1 \notin Titles(text)) =>
    /\ value.v1 = Written(value.scope, Nth(value.scope, value.key, value.index))
    /\ value.key2 # "" => value.v2 = Written(value.scope, Pair(value.scope, value.key, value.key2, value.index))

\* What the comment at lib/config.c:327 says of the loop behind it: no line of
\* the text that lookups use has blanks at its start or end.
BlanksRemoved ==
  stage = "ready" => \A i \in DOMAIN text : text[i].lead = 0 /\ (text[i].val # <<>> => Last(text[i].val) # Space)
=============================================================================
