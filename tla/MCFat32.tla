------------------------------ MODULE MCFat32 ------------------------------
(* Small FAT32 volumes for TLC. *)
EXTENDS Fat32Read

CONSTANTS cd, ca, cb, D, A, B, x, y

MCComp == {cd, ca, cb}
MCName == {D, A, B}
MCName83 == [c \in MCComp |-> IF c = cd THEN D ELSE A]   \* ca and cb collide
MCPaths == {<<ca>>, <<cd, ca>>, <<cd, cb>>}
MCContents == {<<>>, <<y, x, y>>}

Blank == [i \in 0 .. Spc - 1 |-> Zeroes]
\* Free clusters keep what was in them before.
Stale == [i \in 0 .. Spc - 1 |-> [o \in 0 .. Slots - 1 |-> Entry(A, "file", 2, 1)]]

\* A freshly formatted volume.
Formatted ==
  [fat  |-> [c \in Cluster |-> IF c = 2 THEN EOC ELSE 0],
   sect |-> [c \in Cluster |-> IF c = 2 THEN Blank ELSE Stale], dirs |-> {2},
   home |-> [c \in Cluster |-> Place(2, 0, <<>>)],
   files |-> [p \in NamePaths |-> NoAck]]

\* A volume a host has used: the root directory spans clusters 2 and 4 and
\* holds long-name cells, perhaps a deleted cell, a file of two clusters
\* (5, 3) or of none, and an empty file without a cluster.
Used(gap, slot) ==
  [fat  |-> [c \in Cluster |-> CASE c = 2 -> 4 [] c = 5 -> 3 [] c \in {3, 4} -> EOC [] OTHER -> 0],
   sect |-> [c \in Cluster |->
               CASE c = 2 -> [i \in 0 .. Spc - 1 |-> [o \in 0 .. Slots - 1 |->
                      CASE i = 0 /\ o = 0 -> Entry(A, "lfn", 0, 0)
                        [] i = 0 /\ o = 1 -> gap
                        [] i = 1 /\ o = 0 -> Entry(B, "file", 0, 0)
                        [] OTHER -> Entry(A, "lfn", 0, 0)]]
                 [] c = 4 -> [i \in 0 .. Spc - 1 |-> [o \in 0 .. Slots - 1 |->
                      IF i = 0 /\ o = 0 THEN slot ELSE Free(END)]]
                 [] c \in {5, 3} -> [i \in 0 .. Spc - 1 |-> Raw(x)]
                 [] OTHER -> Stale],
   dirs |-> {2, 4},
   home |-> [c \in Cluster |-> Place(2, IF c = 4 THEN 1 ELSE 0, <<>>)],
   files |-> [p \in NamePaths |->
                IF p = <<A>> /\ slot.clus # 0 THEN [i \in 1 .. slot.size |-> x] ELSE NoAck]]

\* The root directory is full.
Full ==
  [Formatted EXCEPT !.sect[2] =
     [i \in 0 .. Spc - 1 |-> [o \in 0 .. Slots - 1 |->
        IF i = 1 /\ o = 1 THEN Entry(B, "file", 0, 0) ELSE Entry(A, "lfn", 0, 0)]]]

MCUsedImages == {Used(Free(DEL), Entry(A, "file", 5, 2 * Spc)),
                 Used(Entry(B, "lfn", 0, 0), Entry(A, "file", 0, 0))}
MCImages == {Formatted, Full} \cup MCUsedImages
\* Bound: a read that fails is the only fault of its behaviour; a failed write
\* and a power loss may both come, in any order.
Bounded == rfaults' = MaxReadFaults \/ (wfaults' = MaxWriteFaults /\ losses' = MaxPowerLoss)
MCSpec == Init /\ [][Next /\ Bounded]_vars /\ WF_vars(CallStep)
===========================================================================
