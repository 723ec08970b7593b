------------------------------ MODULE Session ------------------------------
(***************************************************************************)
(* The desktop session of kernel.c and the icon list of desktop.c: boot and *)
(* mount, accounts and login, the text editor's document, the explorer's    *)
(* path bar and list, the file picker, the name prompt, the context, top    *)
(* and launch menus, deletion, logout and shutdown.                         *)
(*                                                                          *)
(* A step is one round of kmain's loop with a key or a click in it.  Where  *)
(* a click lands is decided by geometry that Windows models; here it may    *)
(* land on anything the loop would look for at that moment.  The volume is  *)
(* what the file system calls promise (Fat32, ExFat): entries in the order  *)
(* of their creation, none of which goes away.  In every round the disk may *)
(* refuse to read, to write, or a part of either (io), MaxFaults times in   *)
(* all: a list then ends early with success, and a write may have put its   *)
(* data over the file's before it fails.                                    *)
(***************************************************************************)
EXTENDS Integers, Sequences, FiniteSets, SequencesExt

CONSTANTS
  Default,            \* the accounts of user_load_default, names and passwords
  Upper,              \* upper_copy on their names
  Parse,              \* user_parse_lines: accounts in the contents of a file
  Names,              \* file names
  Ext,                \* what str_ieq_ext finds behind a name's dot
  Typed,              \* what can stand in the name prompt
  sanitize_txt_name,  \* on Typed and Names
  Title,              \* a name cut to the 12 characters of g_notepad.name
  Docs,               \* documents that can be typed
  Passwords,          \* what can be typed at the login screen
  Bars,               \* paths that can be typed into the path bar
  HostVols,           \* volumes at the first boot
  LIST_MAX,           \* DESKTOP_MAX_ITEMS: entries a list is read from
  LAUNCH_MAX,         \* the same of the launch menu
  MaxFaults,
  MaxRounds           \* rounds of the loop in all, restarts not counted

Base     == <<"PARANOS">>
UsersDir == Base \o <<"USERS">>
WallDir  == Base \o <<"WALLPAPR">>
UserFile == UsersDir \o <<"USERS.TXT">>
UserDir(u) == UsersDir \o <<u>>
Desk(u)  == UserDir(u) \o <<"DESKTOP">>
Prog(u)  == UserDir(u) \o <<"PROGRAMS">>

Zero == ""            \* a file of length 0, "deleted"
NL   == "nl"          \* the one-byte placeholder
DefaultBody == "default"   \* "admin:1234\nguest:\n"
Torn == "torn"        \* a file's old length over what a failed write left there

Account == [name : DOMAIN Upper, pass : STRING]
Entry   == [path : Seq(STRING), dir : BOOLEAN, data : DOMAIN Parse]

\* A host names no path twice.
ASSUME SessionAssumption ==
  /\ MaxFaults \in Nat /\ MaxRounds \in Nat /\ LIST_MAX \in Nat /\ LAUNCH_MAX \in Nat
  /\ Default \in Seq(Account) \ {<<>>} /\ \A d \in DOMAIN Parse : Parse[d] \in Seq(Account)
  /\ \A n \in Typed \cup Names : sanitize_txt_name[n] \in Names
  /\ Docs \cup {Zero, NL, DefaultBody, Torn} \subseteq DOMAIN Parse /\ Bars \subseteq Seq(STRING)
  /\ \A v \in HostVols : v \in Seq(Entry) /\ \A i, j \in 1 .. Len(v) : v[i].path = v[j].path => i = j

VARIABLES
  ss,        \* the globals of kernel.c and desktop.c and the volume
  io,        \* what the disk does in this round: does it read (r), does it write
             \* (w: all, none, or all but the entry of a file), does a boot get
             \* to read USERS.TXT (u), how many entries can a list read (list)
  faults,    \* how often it may still refuse
  rounds,    \* how many rounds are left
  saved      \* history: what each file was last made to hold, as <<path, data>>

vars == <<ss, io, faults, rounds, saved>>

----------------------------------------------------------------------------
(* The volume as the file system calls show it.                             *)

IsDir(v, p)  == \E i \in 1 .. Len(v) : v[i].path = p /\ v[i].dir
IsFile(v, p) == \E i \in 1 .. Len(v) : v[i].path = p /\ ~v[i].dir
Index(v, p)  == CHOOSE i \in 1 .. Len(v) : v[i].path = p
DataAt(v, p) == v[Index(v, p)].data

\* fat32_ensure_dir_path: what is missing of the path is made, from the top;
\* a file in the place of a directory ends the walk.
Blocked(v, p) == \E k \in 1 .. Len(p) : IsFile(v, SubSeq(p, 1, k))
There(v, p)   == Max({0} \cup {k \in 1 .. Len(p) : IsDir(v, SubSeq(p, 1, k))})
Missing(v, p) == [k \in 1 .. Len(p) - There(v, p) |->
                    [path |-> SubSeq(p, 1, There(v, p) + k), dir |-> TRUE, data |-> Zero]]
MakeDirs(v, p) == IF Blocked(v, p) THEN v ELSE v \o Missing(v, p)
EnsureDir(s, p) == IF s.mounted /\ io.w # "none" THEN [s EXCEPT !.vol = MakeDirs(@, p)] ELSE s

ensure_user_dirs_on_disk(s, u) ==
  LET a == EnsureDir(EnsureDir(EnsureDir(s, Base), UsersDir), WallDir)
  IN  EnsureDir(EnsureDir(EnsureDir(a, UserDir(u)), Desk(u)), Prog(u))

\* fat32_write_file_path, which makes missing directories on its way; a write
\* that ends at a directory fails.  The data goes into the cluster that the file
\* already has; its entry, with the new length, is written last.
Reaches(s, p)  == s.mounted /\ io.w # "none" /\ ~Blocked(s.vol, Front(p)) /\ ~IsDir(s.vol, p)
Writable(s, p) == Reaches(s, p) /\ io.w = "all"
Spoils(s, p)   == Reaches(s, p) /\ io.w = "data" /\ IsFile(s.vol, p) /\ DataAt(s.vol, p) # Zero
Write(s, p, d) ==
  LET v == MakeDirs(s.vol, Front(p))
  IN  [s EXCEPT !.vol = IF IsFile(v, p) THEN [v EXCEPT ![Index(v, p)].data = d]
                        ELSE Append(v, [path |-> p, dir |-> FALSE, data |-> d])]

\* The same write when it fails: at the entry, behind the data and the missing
\* directories, or at once.
Spoil(s, p) ==
  LET v == MakeDirs(s.vol, Front(p))
  IN  IF Spoils(s, p) THEN [s EXCEPT !.vol = [@ EXCEPT ![Index(@, p)].data = Torn]]
      ELSE IF Reaches(s, p) /\ v # s.vol THEN [s EXCEPT !.vol = v, !.late = TRUE] ELSE s

\* fat32_list_dir_path and the loop over its result that both lists share: of
\* the first n entries, those that are not "deleted".  A sector that cannot be
\* read ends the list, with success.
Listable(s, d) == s.mounted /\ io.r /\ IsDir(s.vol, d)
In(e, d)    == Len(e.path) = Len(d) + 1 /\ Front(e.path) = d
Shows(e, d) == In(e, d) /\ (e.dir \/ e.data # Zero)
Nth(v, d, i) == Cardinality({k \in 1 .. i : In(v[k], d)})
\* The values of f by growing argument.
InOrder(f) == [k \in 1 .. Cardinality(DOMAIN f) |->
                 f[CHOOSE i \in DOMAIN f : Cardinality({j \in DOMAIN f : j <= i}) = k]]
Listing(v, d, n) ==
  InOrder([i \in {j \in 1 .. Len(v) : Shows(v[j], d) /\ Nth(v, d, j) <= n} |->
             [name |-> Last(v[i].path), dir |-> v[i].dir]])

----------------------------------------------------------------------------
(* desktop.c: the icons.  Index 0 is the code's -1.                         *)

desktop_set_items(s, items) == [s EXCEPT !.icons = items, !.isel = 0]

\* desktop_set_selection; "chosen" remembers what the user pointed at.
desktop_set_selection(s, i) ==
  [s EXCEPT !.isel = i, !.chosen = Append(s.ddir, s.icons[i].name)]

\* "seen" remembers how many entries the list was read from, "late" that a
\* failed write has made directories since.
desktop_refresh_from_path(s) ==
  LET a == ensure_user_dirs_on_disk(s, s.user)
      n == IF Listable(a, a.ddir) THEN io.list ELSE 0
      b == [a EXCEPT !.chosen = <<>>, !.seen = n, !.late = FALSE]
  IN  IF ~s.mounted THEN s
      ELSE desktop_set_items(b, IF Listable(a, a.ddir) THEN Listing(a.vol, a.ddir, n) ELSE <<>>)

desktop_move_selection(s, delta) ==
  LET at == (IF s.isel = 0 THEN 1 ELSE s.isel) + delta
      n  == Len(s.icons)
  IN  IF n = 0 THEN s
      ELSE desktop_set_selection(s, IF at < 1 THEN 1 ELSE IF at > n THEN n ELSE at)

----------------------------------------------------------------------------
(* Mounting, accounts, login.                                               *)

\* The disk probe of kmain and ensure_volume_mounted: the first sector and the
\* boot sector must be readable.
Mount(s) ==
  LET m == [s EXCEPT !.mounted = TRUE]
  IN  desktop_refresh_from_path(ensure_user_dirs_on_disk(m, m.user))

ensure_volume_mounted(s) == IF s.mounted \/ ~io.r THEN s ELSE Mount(s)

\* Mutant: the default accounts are written whatever is there.
StoreAlwaysWritten(s) ==
  LET a == EnsureDir(ensure_user_dirs_on_disk(ensure_user_dirs_on_disk(s, "ADMIN"), "GUEST"), WallDir)
  IN  IF s.mounted /\ Writable(a, UserFile)
      THEN [Write(a, UserFile, DefaultBody) EXCEPT !.users = Parse[DefaultBody]]
      ELSE [a EXCEPT !.users = Default]

\* ensure_user_store
ensure_user_store(s) ==
  LET a == EnsureDir(ensure_user_dirs_on_disk(ensure_user_dirs_on_disk(s, "ADMIN"), "GUEST"), WallDir)
      readable == io.u /\ IsFile(a.vol, UserFile)
      b == IF readable THEN a
           ELSE IF Writable(a, UserFile) THEN Write(a, UserFile, DefaultBody) ELSE Spoil(a, UserFile)
      list == Parse[IF readable THEN DataAt(a.vol, UserFile) ELSE DefaultBody]
  IN  IF ~s.mounted THEN [s EXCEPT !.users = Default]
      ELSE [b EXCEPT !.users = IF list = <<>> THEN Default ELSE list]

\* What the globals hold before kmain runs.
Fresh(v) ==
  [vol |-> v, mounted |-> FALSE, on |-> FALSE,
   users |-> <<>>, user |-> "ADMIN", ddir |-> Desk("ADMIN"), pdir |-> Prog("ADMIN"),
   login |-> TRUE, lsel |-> 1, pw |-> "", focus |-> TRUE, started |-> FALSE,
   icons |-> <<>>, isel |-> 0, chosen |-> <<>>, seen |-> 0, late |-> FALSE,
   np |-> [open |-> FALSE, min |-> FALSE, path |-> <<>>, name |-> "", text |-> Zero],
   fw |-> [open |-> FALSE, min |-> FALSE, path |-> <<>>, focus |-> FALSE, sel |-> 0, items |-> <<>>,
           listed |-> <<>>, chosen |-> <<>>],
   front |-> "other", picker |-> "none",
   prompt |-> [active |-> FALSE, ready |-> FALSE, mode |-> "none", buf |-> ""],
   ctx |-> "none", launch |-> FALSE, litems |-> {}, right |-> FALSE, lostusers |-> FALSE]

\* kmain up to its loop.
Boot ==
  /\ ~ss.on
  /\ LET s == [Fresh(ss.vol) EXCEPT !.lostusers = ss.lostusers \/ ~io.u]
         m == IF io.r THEN Mount(EnsureDir([s EXCEPT !.mounted = TRUE], Base)) ELSE s
     IN  ss' = [ensure_user_store(m) EXCEPT !.on = TRUE]
  /\ UNCHANGED saved

----------------------------------------------------------------------------
(* The explorer.                                                            *)

\* Mutant: the selection outlives the list.
RefreshKeepsSelection(s) ==
  LET a == [s EXCEPT !.fw.items = <<>>]
  IN  IF Listable(s, s.fw.path)
      THEN [a EXCEPT !.fw.items = Listing(s.vol, s.fw.path, io.list),
                     !.fw.listed = s.fw.path, !.fw.chosen = <<>>]
      ELSE a

filewin_refresh_list(s) ==
  LET a == [s EXCEPT !.fw.items = <<>>]
  IN  IF Listable(s, s.fw.path)
      THEN [a EXCEPT !.fw.items = Listing(s.vol, s.fw.path, io.list), !.fw.sel = 0,
                     !.fw.listed = s.fw.path, !.fw.chosen = <<>>]
      ELSE a

filewin_set_path(s, p) ==
  filewin_refresh_list([s EXCEPT !.fw.path = p, !.fw.sel = 0, !.fw.chosen = <<>>])

filewin_go_up(s) ==
  IF Len(s.fw.path) <= 1 THEN filewin_set_path(s, Base)
  ELSE filewin_refresh_list([s EXCEPT !.fw.path = Front(@)])

\* Mutant: the explorer keeps the path it had.
OpenKeepsPath(s) ==
  IF s.fw.open /\ ~s.fw.min THEN s
  ELSE [s EXCEPT !.fw.open = TRUE, !.fw.min = FALSE, !.fw.focus = FALSE, !.front = "fw",
                 !.fw.path = IF @ = <<>> THEN s.ddir ELSE @]

filewin_open(s) ==
  IF s.fw.open /\ ~s.fw.min THEN s
  ELSE [filewin_set_path([s EXCEPT !.fw.open = TRUE, !.fw.min = FALSE, !.fw.focus = FALSE], s.ddir)
          EXCEPT !.front = "fw"]

file_picker_cancel(s) == [s EXCEPT !.picker = "none"]

filewin_close(s) == file_picker_cancel([s EXCEPT !.fw.open = FALSE, !.fw.min = FALSE])

file_picker_start(s, ext) ==
  LET a == [s EXCEPT !.picker = ext]
      b == IF a.fw.open THEN a ELSE filewin_open(a)
  IN  [filewin_set_path(b, b.ddir) EXCEPT !.fw.focus = FALSE, !.front = "fw"]

filewin_select(s, i) ==
  [s EXCEPT !.fw.sel = i, !.fw.chosen = Append(s.fw.listed, s.fw.items[i].name)]

filewin_move_selection(s, delta) ==
  LET at == (IF s.fw.sel = 0 THEN 1 ELSE s.fw.sel) + delta
      n  == Len(s.fw.items)
  IN  IF n = 0 THEN s
      ELSE filewin_select(s, IF at < 1 THEN 1 ELSE IF at > n THEN n ELSE at)

----------------------------------------------------------------------------
(* The text editor.                                                         *)

notepad_set_path_and_name(s, p) == [s EXCEPT !.np.path = p, !.np.name = Title[Last(p)]]

notepad_open_path(s, p) ==
  LET a == notepad_set_path_and_name(s, p)
      t == IF s.mounted /\ io.r /\ IsFile(s.vol, p) THEN DataAt(s.vol, p) ELSE Zero
  IN  [a EXCEPT !.np.open = TRUE, !.np.min = FALSE, !.np.text = t, !.front = "np"]

\* A name is opened on the desktop, wherever it was clicked.
notepad_open(s, n) == notepad_open_path(s, Append(s.ddir, n))

notepad_new(s) ==
  [s EXCEPT !.np.text = Zero, !.np.name = Title["UNTITLED.TXT"],
            !.np.path = Append(s.ddir, "UNTITLED.TXT")]

notepad_close(s) == [s EXCEPT !.np.open = FALSE, !.np.min = FALSE]

\* Where a save of the document under name n goes: beside the document.
SavePath(s, n) ==
  LET p   == IF s.np.path # <<>> THEN s.np.path ELSE s.ddir
      dir == IF Len(p) <= 1 THEN s.ddir ELSE Front(p)
  IN  Append(dir, sanitize_txt_name[n])

SaveData(s) == IF s.np.text = Zero THEN NL ELSE s.np.text

notepad_save_current(s, n) ==
  LET a == ensure_volume_mounted(s)
      p == SavePath(a, n)
  IN  IF ~a.mounted \/ n = "" THEN a
      ELSE IF ~Writable(a, p) THEN Spoil(a, p)
      ELSE desktop_refresh_from_path(notepad_set_path_and_name(Write(a, p, SaveData(s)), p))

----------------------------------------------------------------------------
(* The name prompt.                                                         *)

start_name_prompt(s, mode, default) ==
  [s EXCEPT !.prompt = [active |-> TRUE, ready |-> FALSE, mode |-> mode, buf |-> default]]

EndPrompt(s) == [s EXCEPT !.prompt.active = FALSE, !.ctx = "none"]

PromptName(s) == sanitize_txt_name[IF s.prompt.buf = "" THEN "NEWFILE.TXT" ELSE s.prompt.buf]

create_txt_file_from_prompt(s) ==
  LET a == ensure_volume_mounted(s)
      p == Append(a.ddir, PromptName(s))
  IN  EndPrompt(IF ~a.mounted THEN a
                ELSE IF ~Writable(a, p) THEN Spoil(a, p)
                ELSE notepad_open(desktop_refresh_from_path(Write(a, p, NL)), PromptName(s)))

name_prompt_commit(s) ==
  IF s.prompt.mode = "create" THEN create_txt_file_from_prompt(s)
  ELSE EndPrompt(notepad_save_current(ensure_volume_mounted(s), sanitize_txt_name[s.prompt.buf]))

----------------------------------------------------------------------------
(* Menus.                                                                   *)

NameOrUntitled(s) == IF s.np.name # "" THEN s.np.name ELSE "UNTITLED.TXT"

ItemsOf(target) ==
  CASE target = "desktop" -> {"new_txt", "refresh_desktop"}
    [] target = "np"      -> {"np_new", "np_open", "np_save", "np_save_as", "np_close"}
    [] target = "fw"      -> {"file_open", "file_up", "file_refresh"}

\* ctx_menu_handle_action and topmenu_apply_action, whose entries for the editor
\* are the same: Save without a name asks for one.
Do(s, act) ==
  CASE act = "new_txt"         -> start_name_prompt(s, "create", "NEWFILE.TXT")
    [] act = "refresh_desktop" -> desktop_refresh_from_path(s)
    [] act = "np_new"          -> notepad_new(s)
    [] act = "np_open"         -> file_picker_start(s, "TXT")
    [] act = "np_save"         -> notepad_save_current(s, s.np.name)
    [] act = "np_save_as"      -> start_name_prompt(s, "save_as", NameOrUntitled(s))
    [] act = "np_close"        -> notepad_close(s)
    [] act = "file_refresh"    -> filewin_refresh_list(s)
    [] act = "file_up"         -> filewin_go_up(s)
    [] act = "file_open"       ->
         IF s.fw.sel \notin 1 .. Len(s.fw.items) THEN s
         ELSE LET it == s.fw.items[s.fw.sel]
              IN  IF it.dir THEN filewin_set_path(s, Append(s.fw.path, it.name))
                  ELSE IF Ext[it.name] = "TXT" THEN notepad_open(s, it.name) ELSE s

\* launch_refresh_items: the menu lists the files of PROGRAMS when it opens,
\* those of length 0 too; none when they cannot be read.
launch_toggle(s) ==
  LET a == [s EXCEPT !.launch = ~@]
      fs == {i \in 1 .. Len(s.vol) : /\ In(s.vol[i], s.pdir) /\ ~s.vol[i].dir
                                     /\ Nth(s.vol, s.pdir, i) <= Min({io.list, LAUNCH_MAX})}
  IN  IF ~a.launch THEN a
      ELSE [a EXCEPT !.litems = IF Listable(s, s.pdir) THEN {Last(s.vol[i].path) : i \in fs} ELSE {}]

launch_do_logout(s) ==
  [s EXCEPT !.started = FALSE, !.login = TRUE, !.focus = TRUE, !.pw = "",
            !.np.open = FALSE, !.fw.open = FALSE, !.launch = FALSE]

----------------------------------------------------------------------------
(* Rounds of the loop.                                                      *)

\* History: a save or a creation that the disk took, under the path the user
\* was shown, and a deletion of what the user had pointed at; or that one of
\* these failed and has spoilt the file at that path.
Keeps(p, d) == saved' = {e \in saved : e[1] # p} \cup {<<p, d>>}
Changes(s, p) == Writable(s, p) \/ Spoils(s, p)
Outcome(s, p, d) == IF Writable(s, p) THEN d ELSE Torn

SaveKeeps(s, n) ==
  LET a == ensure_volume_mounted(s)
      p == SavePath(a, n)
  IN  IF n # "" /\ Changes(a, p) THEN Keeps(p, Outcome(a, p, SaveData(s))) ELSE UNCHANGED saved

CreateKeeps(s) ==
  LET a == ensure_volume_mounted(s)
      p == Append(a.ddir, PromptName(s))
  IN  IF Changes(a, p) THEN Keeps(p, Outcome(a, p, NL)) ELSE UNCHANGED saved

Step(s) == ss' = s /\ UNCHANGED saved

\* Mutant: only the explorer's own list is rebuilt.
DeleteKeepsIcons ==
  LET inlist == ss.fw.open /\ ss.front = "fw"
      there  == IF inlist THEN ss.fw.sel \in 1 .. Len(ss.fw.items) ELSE ss.isel > 0
      it     == IF inlist THEN ss.fw.items[ss.fw.sel] ELSE ss.icons[ss.isel]
      p      == Append(IF inlist THEN ss.fw.path ELSE ss.ddir, it.name)
      gone   == Write(ss, p, Zero)
  IN  /\ ss.mounted /\ there /\ ~it.dir /\ Writable(ss, p)
      /\ ss' = IF inlist THEN filewin_refresh_list(gone) ELSE gone
      /\ Keeps(p, Zero)

\* Delete, also on the login screen and with a minimized explorer.
KeyDelete ==
  LET inlist == ss.fw.open /\ ss.front = "fw"
      there  == IF inlist THEN ss.fw.sel \in 1 .. Len(ss.fw.items) ELSE ss.isel > 0
      it     == IF inlist THEN ss.fw.items[ss.fw.sel] ELSE ss.icons[ss.isel]
      p      == Append(IF inlist THEN ss.fw.path ELSE ss.ddir, it.name)
      gone   == Write(ss, p, Zero)
  IN  /\ ss.mounted /\ there /\ ~it.dir
      /\ ss' = IF ~Writable(ss, p) THEN Spoil(ss, p)
               ELSE desktop_refresh_from_path(IF inlist THEN filewin_refresh_list(gone) ELSE gone)
      /\ IF Changes(ss, p) THEN Keeps(p, Outcome(ss, p, Zero)) ELSE UNCHANGED saved

KeyArrow(delta) ==
  Step(IF ss.front = "fw" /\ ss.fw.open /\ ~ss.fw.min
       THEN filewin_move_selection(ss, delta) ELSE desktop_move_selection(ss, delta))

KeyWindows == Step(launch_toggle(ss))

AltTab == \E f \in {"other"} \cup {w \in {"np", "fw"} : ss[w].open} : Step([ss EXCEPT !.front = f])

\* login_attempt
LoginOk(s) ==
  LET u == Upper[s.users[s.lsel].name]
      a == [s EXCEPT !.user = u]
      b == [ensure_user_dirs_on_disk(a, u) EXCEPT !.ddir = Desk(u), !.pdir = Prog(u)]
      c == [desktop_refresh_from_path(b) EXCEPT !.login = FALSE]
  IN  IF c.started THEN c ELSE filewin_open([c EXCEPT !.started = TRUE])

\* user_verify takes the first account of the name.
user_verify(s) ==
  LET n == s.users[s.lsel].name
      i == CHOOSE j \in 1 .. Len(s.users) : /\ s.users[j].name = n
                                            /\ \A k \in 1 .. j - 1 : s.users[k].name # n
  IN  s.users[i].pass = s.pw

LoginAttempt ==
  /\ ss.login
  /\ \/ ~user_verify(ss) /\ Step([ss EXCEPT !.pw = ""])
     \/ user_verify(ss) /\ \E f \in {"fw", "other"} : Step([LoginOk(ss) EXCEPT !.front = f])

\* At the login screen a click on a card moves the keyboard's focus away.
LoginClick == /\ ss.login
              /\ \/ \E i \in 1 .. Len(ss.users) : Step([ss EXCEPT !.lsel = i, !.focus = FALSE])
                 \/ Step([ss EXCEPT !.focus = TRUE])
                 \/ Step([ss EXCEPT !.focus = FALSE])
LoginType == ss.login /\ ss.focus /\ \E p \in Passwords : Step([ss EXCEPT !.pw = p])

\* Keys go to the prompt, else to the path bar, else to the editor.
ToBar    == ~ss.prompt.active /\ ss.fw.open /\ ss.front = "fw" /\ ss.fw.focus
ToEditor == ~ss.prompt.active /\ ss.np.open /\ ss.front = "np"

PromptType  == ss.prompt.active /\ \E t \in Typed : Step([ss EXCEPT !.prompt.buf = t])
PromptEsc   == ss.prompt.active /\ Step([ss EXCEPT !.prompt.active = FALSE])
PromptEnter == /\ ss.prompt.active
               /\ ss' = create_txt_file_from_prompt(ss) /\ CreateKeeps(ss)
BarType     == ToBar /\ \E p \in Bars : Step([ss EXCEPT !.fw.path = p])
BarEsc      == ToBar /\ Step([ss EXCEPT !.fw.focus = FALSE])
BarEnter    == ToBar /\ Step(filewin_set_path(ss, ss.fw.path))
EditorType  == ToEditor /\ \E t \in Docs : Step([ss EXCEPT !.np.text = t])
EditorEsc   == ToEditor /\ Step(notepad_close(ss))

Keys ==
  \/ KeyDelete \/ (\E d \in {-1, 1} : KeyArrow(d)) \/ KeyWindows \/ AltTab
  \/ ss.login /\ ss.focus /\ LoginAttempt
  \/ LoginType
  \/ /\ ~ss.login
     /\ \/ PromptType \/ PromptEsc \/ PromptEnter
        \/ BarType \/ BarEsc \/ BarEnter \/ EditorType \/ EditorEsc

\* A left click is taken by the context menu, else by the prompt, if a round
\* without buttons or a release of the right one came before, else by the
\* taskbar, the launch menu, the top menu, the windows and the icons.
Armed == ss.prompt.active /\ (ss.prompt.ready \/ ~ss.right)
ClickCtx ==
  /\ ss.ctx # "none"
  /\ \/ \E a \in ItemsOf(ss.ctx) :
          /\ ss' = [Do(ss, a) EXCEPT !.ctx = "none"]
          /\ IF a = "np_save" THEN SaveKeeps(ss, ss.np.name) ELSE UNCHANGED saved
     \/ Step([ss EXCEPT !.ctx = "none"])
ClickPrompt ==
  /\ ss.ctx = "none" /\ Armed
  /\ ss' = name_prompt_commit(ss)
  /\ IF ss.prompt.mode = "create" THEN CreateKeeps(ss)
     ELSE SaveKeeps(ss, sanitize_txt_name[ss.prompt.buf])
Free == ss.ctx = "none" /\ ~Armed

ClickTaskbar ==
  /\ Free
  /\ \/ Step(launch_toggle(ss))
     \/ Step([filewin_open(ss) EXCEPT !.front = "fw", !.launch = FALSE])
     \/ Step([ss EXCEPT !.front = "other", !.launch = FALSE])
     \/ ss.fw.open /\ Step([ss EXCEPT !.fw.min = ~@, !.front = "fw", !.launch = FALSE])
     \/ ss.np.open /\ Step([ss EXCEPT !.np.min = ~@, !.front = "np", !.launch = FALSE])

\* launch_activate; programs are opened by their name on the desktop.
ClickLaunch ==
  /\ Free /\ ss.launch
  /\ \/ Step(launch_do_logout(ss))
     \/ Step([ss EXCEPT !.on = FALSE])
     \/ Step([ss EXCEPT !.launch = FALSE])
     \/ \E n \in ss.litems :
          Step([IF Ext[n] = "TXT" THEN notepad_open(ss, n) ELSE ss EXCEPT !.launch = FALSE])

Unmenued == Free /\ ~ss.launch
Seen(w)  == ss[w].open /\ ~ss[w].min

\* The editor's menu bar and the top menu (which Window entries also minimize).
ClickEditor ==
  /\ Unmenued /\ Seen("np")
  /\ \/ Step([ss EXCEPT !.front = "np"])
     \/ Step([ss EXCEPT !.front = "np", !.np.min = TRUE])
     \/ \E a \in ItemsOf("np") :
          LET s == [ss EXCEPT !.front = "np"]
          IN  /\ ss' = Do(s, a)
              /\ IF a = "np_save" THEN SaveKeeps(s, s.np.name) ELSE UNCHANGED saved

\* Close, path bar, side bar and list.
DoubleClick(s, i) ==
  LET it   == s.fw.items[i]
      full == Append(s.fw.path, it.name)
  IN  IF it.dir THEN filewin_set_path(s, full)
      ELSE IF s.picker # "none"
      THEN IF Ext[it.name] # s.picker THEN s
           ELSE LET a == IF s.picker = "TXT" THEN notepad_open_path(s, full)
                         ELSE [s EXCEPT !.front = "other"]
                IN  [file_picker_cancel(a) EXCEPT !.fw.open = FALSE]
      ELSE IF Ext[it.name] = "TXT" THEN notepad_open(s, it.name)
      ELSE IF Ext[it.name] = "BMP" /\ io.r
      THEN [s EXCEPT !.front = "other"] ELSE s
ClickExplorer ==
  LET s == [ss EXCEPT !.front = "fw"]
      Unfocused(t) == [t EXCEPT !.fw.focus = FALSE]
  IN  /\ Unmenued /\ Seen("fw")
      /\ \/ Step(filewin_close(s))
         \/ Step([s EXCEPT !.fw.focus = TRUE])
         \/ \E p \in {s.ddir, WallDir, Base} : Step(filewin_set_path(Unfocused(s), p))
         \/ \E i \in 1 .. Len(s.fw.items) :
              \/ Step(Unfocused(filewin_select(s, i)))
              \/ Step(DoubleClick(Unfocused(filewin_select(s, i)), i))

\* The WAV player's Open button.
ClickWavOpen == Unmenued /\ ss.front = "other" /\ Step(file_picker_start(ss, "WAV"))

\* An icon, which is found through a window that lies over it, too.
ClickIcon ==
  /\ Unmenued /\ ss.mounted
  /\ \E i \in 1 .. Len(ss.icons), f \in {ss.front, "other"} \cup {w \in {"np", "fw"} : Seen(w)} :
       LET s  == desktop_set_selection([ss EXCEPT !.front = f], i)
           it == s.icons[i]
       IN  \/ Step(s)
           \/ /\ ~it.dir /\ Ext[it.name] = "TXT"
              /\ Step(notepad_open(s, it.name))

\* Right button: the explorer wins over the editor.
RightPress ==
  /\ ~ss.right
  /\ \E t \in {"desktop"} \cup {w \in {"np", "fw"} : Seen(w)} :
       \E rd \in {ss.prompt.ready, ss.prompt.ready \/ ss.prompt.active} :
         Step([ss EXCEPT !.ctx = t, !.right = TRUE, !.prompt.ready = rd])
RightRelease == ss.right /\ Step([ss EXCEPT !.right = FALSE, !.prompt.ready = TRUE])

Clicks ==
  \/ LoginAttempt \/ LoginClick
  \/ /\ ~ss.login
     /\ \/ ClickCtx \/ ClickPrompt \/ ClickTaskbar \/ ClickLaunch \/ ClickEditor
        \/ ClickExplorer \/ ClickWavOpen \/ ClickIcon \/ RightPress \/ RightRelease

\* Power can be lost at the end of any round.
PowerLoss == ss.on /\ Step([ss EXCEPT !.on = FALSE])

\* The disk in the next round: it may refuse to read, to write, the write of a
\* file's entry, the read of USERS.TXT, or a sector further on in a directory.
Working == [r |-> TRUE, w |-> "all", u |-> TRUE, list |-> LIST_MAX]
DiskNext ==
  \/ io' = Working /\ UNCHANGED faults
  \/ /\ faults > 0 /\ faults' = faults - 1
     /\ io' \in {[Working EXCEPT !.r = FALSE, !.u = FALSE], [Working EXCEPT !.u = FALSE]}
               \cup {[Working EXCEPT !.w = how] : how \in {"none", "data"}}
               \cup {[Working EXCEPT !.list = n] : n \in 0 .. LIST_MAX - 1}

SessInit ==
  /\ \E v \in HostVols : /\ ss = Fresh(v)
                         /\ saved = {<<v[i].path, v[i].data>> : i \in {j \in 1 .. Len(v) : ~v[j].dir}}
  /\ faults = MaxFaults /\ rounds = MaxRounds /\ io = Working

SessNext ==
  /\ DiskNext
  /\ \/ (Boot \/ PowerLoss) /\ UNCHANGED rounds
     \/ ss.on /\ rounds > 0 /\ rounds' = rounds - 1 /\ (Keys \/ Clicks)

SessSpec == SessInit /\ [][SessNext]_vars

----------------------------------------------------------------------------
(* Properties.                                                              *)

\* The icon selection is an index of the icon list, so that Delete and Enter
\* read an icon that is there (g_selected of desktop.c after every refresh).
SessTypeOK ==
  /\ io \in [r : BOOLEAN, w : {"all", "none", "data"}, u : BOOLEAN, list : 0 .. LIST_MAX]
  /\ faults \in 0 .. MaxFaults /\ rounds \in 0 .. MaxRounds
  /\ ss.isel \in 0 .. Len(ss.icons) /\ ss.fw.sel \in Nat
  /\ ss.np.text \in DOMAIN Parse /\ ss.picker \in {"none", "TXT", "WAV"}
  /\ ss.on => ss.users # <<>> /\ ss.lsel \in 1 .. Len(ss.users)

\* The desktop shows, of the first entries of the user's own DESKTOP directory,
\* exactly those that are not deleted, in their order.  "First" are LIST_MAX
\* entries, deleted ones counted, or fewer when the last refresh met a sector
\* that it could not read, and none when it could not find the directory.  Every
\* write that can touch that directory ends in desktop_refresh_from_path but
\* one: a write that fails behind the directories that it has made on its way
\* (late), which stay unseen until the next refresh.
IconsAreFiles ==
  ss.on /\ ss.mounted /\ ~ss.late =>
    (ss.icons = <<>> /\ ss.seen = 0) \/ ss.icons = Listing(ss.vol, ss.ddir, ss.seen)

\* Both: what the desktop shows and what its keys act on is there.
DesktopSound == SessTypeOK /\ IconsAreFiles

\* A file keeps what it was last saved with, or what the host wrote, through
\* menus, prompts, logins, faults and restarts.  Two exceptions: a save, creation
\* or deletion under the file's own path that fails at the entry has spoilt it
\* (saved then says Torn; no other file suffers), and a boot whose read of
\* USERS.TXT fails writes the default accounts over it.
SavedStays ==
  \A e \in saved :
    \/ IsFile(ss.vol, e[1]) /\ DataAt(ss.vol, e[1]) = e[2]
    \/ e[1] = UserFile /\ ss.lostusers

\* Delete empties a file only when the user has selected that file, in a list
\* that still stands; the explorer's path bar, edited and not yet entered, is
\* the one way to aim elsewhere.
DeleteIsAimed ==
  [][\A e \in saved : IsFile(ss.vol, e[1]) /\ e[2] # Zero /\ DataAt(ss'.vol, e[1]) = Zero =>
       \/ e[1] \in {ss.chosen, ss.fw.chosen}
       \/ ss.fw.open /\ ss.front = "fw" /\ ss.fw.path # ss.fw.listed]_vars

\* Whatever was open before a logout, a login shows the directories of the user
\* who logs in, in the icons and in the explorer, and no other user's document.
LoginShowsOwn ==
  [][ss.on /\ ss'.on /\ ss.login /\ ~ss'.login =>
       LET u == Upper[ss.users[ss.lsel].name]
       IN  /\ ss'.ddir = Desk(u) /\ ss'.pdir = Prog(u)
           /\ ss'.fw.open /\ ~ss'.fw.min /\ ss'.fw.path = Desk(u) /\ ~ss'.np.open]_vars
============================================================================
