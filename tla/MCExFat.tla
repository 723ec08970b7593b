------------------------------ MODULE MCExFat ------------------------------
(* Small exFAT volumes for TLC. *)
EXTENDS ExFatRead

CONSTANTS cd, ca, cA, cb, ch, D, A, B, H, x, y, Words

MCComp      == {cd, ca, cA, cb, ch}
\* ca and cA differ in case only.
MCUpper     == [c \in MCComp |-> CASE c = cd -> D [] c \in {ca, cA} -> A [] c = cb -> B [] c = ch -> H]
\* cb is the longer name.
MCNameCells == [c \in MCComp |-> IF c = cb THEN Words + 1 ELSE Words]
MCFilePaths == {<<ch>>, <<cd, ca>>, <<cd, cA>>, <<cb>>}
MCDirPaths  == {<<cd>>, <<ch, cd>>}
MCContents  == {<<>>, <<x, y>>}
\* Free clusters were directories once.
MCStale     == [j \in 0 .. Cells - 1 |->
                  IF j < Total(ca) THEN SetCell(ca, FALSE, RootClus, 1, j) ELSE End]
===========================================================================
