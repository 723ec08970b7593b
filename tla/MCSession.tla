----------------------------- MODULE MCSession -----------------------------
(***************************************************************************)
(* A small desktop: two accounts, a text file and a picture, an empty       *)
(* volume and one that a host has prepared with an account of its own.      *)
(***************************************************************************)
EXTENDS Session

MCDefault == <<[name |-> "admin", pass |-> "1234"], [name |-> "guest", pass |-> ""]>>
MCHost    == <<[name |-> "guest", pass |-> "1234"]>>
MCParse   == [f \in {"default", "host", "", "nl", "pic", "doc", "torn"} |->
                CASE f = "default" -> MCDefault [] f = "host" -> MCHost [] OTHER -> <<>>]
MCUpper   == [u \in {"admin", "guest"} |-> IF u = "admin" THEN "ADMIN" ELSE "GUEST"]

MCNames == {"USERS.TXT", "A.TXT", "W.BMP", "NEWFILE.TXT", "UNTITLED.TXT"}
MCExt   == [n \in MCNames |-> IF n = "W.BMP" THEN "BMP" ELSE "TXT"]
MCTyped == {"", "A.TXT"}
MCSanitize == [n \in MCTyped \cup MCNames |-> IF n = "" THEN "NEWFILE.TXT" ELSE n]
MCTitle == [n \in MCNames |-> n]
MCBars  == {WallDir}

Dir(p)     == [path |-> p, dir |-> TRUE, data |-> Zero]
File(p, d) == [path |-> p, dir |-> FALSE, data |-> d]
MCVols ==
  {<<>>,
   <<Dir(Base), Dir(UsersDir), File(UserFile, "host"), Dir(WallDir), File(Append(WallDir, "W.BMP"), "pic"),
     Dir(UserDir("GUEST")), Dir(Desk("GUEST")), File(Append(Desk("GUEST"), "W.BMP"), ""),
     File(Append(Desk("GUEST"), "A.TXT"), "pic"), Dir(Prog("GUEST")), File(Append(Prog("GUEST"), "A.TXT"), "pic")>>}
\* Bound: a fault of the disk costs a round.
Bounded == MaxFaults - faults' <= rounds'
MCSpec  == SessInit /\ [][SessNext /\ Bounded]_vars
=============================================================================
