------------------------------ MODULE MCConfig ------------------------------
(***************************************************************************)
(* The configuration alone, on short files with and without carriage       *)
(* returns and blanks.                                                      *)
(***************************************************************************)
EXTENDS BootConfig

Item == [m |-> FALSE, s |-> "a"]
Line(lead, trail, cr) == [k |-> "opt", key |-> "path", val |-> <<Item>>, lead |-> lead, trail |-> trail, cr |-> cr]
MCLines == {Line(l, t, c) : l \in 0 .. 1, t \in 0 .. 1, c \in BOOLEAN}
MCFiles == {[disk |-> [p \in {"/limine.conf"} |-> [lines |-> <<a, b>>, nl |-> TRUE]], smbios |-> <<>>, sum |-> "", builtin |-> [s \in {} |-> <<>>]] :
              a \in MCLines, b \in MCLines}
MCPaths == <<"/limine.conf">>
=============================================================================
