------------------------------ MODULE FdtTree ------------------------------
(***************************************************************************)
(* Flattened device trees (kernel/fdt.c, fdt_ro.c, fdt_check.c,            *)
(* fdt_addresses.c): what a blob is and what the read-only functions of    *)
(* libfdt find in it.                                                      *)
(*                                                                         *)
(* A blob is a record.  Its structure block, tree, is the sequence of its  *)
(* tags, an offset the number of tags before the one it designates; sizes  *)
(* are in 32-bit words.  A node name is <<base, unit>>: unit 0 when there  *)
(* is no '@', -1 when nothing follows it.  A cell of a property's value is *)
(* such a pair too: <<"#", n>> is the number n, the components of a path   *)
(* are node names, the strings of a list <<s, 0>>, or <<s, 1>> when its    *)
(* terminator is missing.  The strings block is the sequence of property   *)
(* names, each of one word, in the order of addresses: a nameoff counts    *)
(* from its start in a complete blob, backwards from its end in one that   *)
(* is still being written.                                                 *)
(***************************************************************************)
EXTENDS Integers, Sequences, FiniteSets

NOTFOUND == -1
EXISTS == -2
NOSPACE == -3
BADOFFSET == -4
BADPATH == -5
BADPHANDLE == -6
BADSTATE == -7
TRUNCATED == -8
BADMAGIC == -9
BADVERSION == -10
BADSTRUCTURE == -11
BADLAYOUT == -12
INTERNAL == -13
BADNCELLS == -14
BADVALUE == -15
BADOVERLAY == -16
NOPHANDLES == -17

RsvWords == 4

Begin(n) == [tag |-> "begin", name |-> n]
Prop(off, v) == [tag |-> "prop", off |-> off, val |-> v]
EndNode == [tag |-> "end"]
Nop == [tag |-> "nop"]
Fin == [tag |-> "fin"]

(* The words of a tag: a name of a node fits one word, a property has its  *)
(* length and nameoff before its value.                                    *)
TagWords(t) == CASE t.tag = "begin" -> 2
                 [] t.tag = "prop" -> 3 + Len(t.val)
                 [] OTHER -> 1

Words(s) == LET f[i \in 0..Len(s)] == IF i = 0 THEN 0 ELSE f[i-1] + TagWords(s[i])
            IN f[Len(s)]

(* fdt_ro_probe_: the magic number, then the version. *)
fdt_ro_probe(b) == CASE b.magic = "dtb" -> IF b.ver < 2 THEN BADVERSION ELSE 0
                     [] b.magic = "sw" -> IF b.tree = <<>> THEN BADSTATE ELSE 0
                     [] OTHER -> BADMAGIC

(* fdt_next_tag: the tag at o and the offset after it.  An offset past the *)
(* block is a premature end.                                               *)
fdt_next_tag(b, o) == IF o < 0 \/ o >= Len(b.tree) THEN <<"fin", TRUNCATED>>
                      ELSE <<b.tree[o+1].tag, o + 1>>

IsNode(b, o) == fdt_next_tag(b, o)[1] = "begin"
IsProp(b, o) == fdt_next_tag(b, o)[1] = "prop"

(* The scan of fdt_next_node: <<offset, depth>> of the next node, or the   *)
(* offset after the tag that closes the tree's part below depth 0.         *)
RECURSIVE NodeScan(_, _, _, _)
NodeScan(b, o, depth, counted) ==
    LET t == fdt_next_tag(b, o) IN
    CASE t[1] = "begin" -> <<o, depth + 1>>
      [] t[1] = "end" -> IF counted /\ depth = 0 THEN <<t[2], -1>>
                         ELSE NodeScan(b, t[2], depth - 1, counted)
      [] t[1] = "fin" -> IF t[2] >= 0 \/ (t[2] = TRUNCATED /\ ~counted)
                         THEN <<NOTFOUND, depth>> ELSE <<t[2], depth>>
      [] OTHER -> NodeScan(b, t[2], depth, counted)

fdt_next_node(b, o, depth, counted) ==
    IF o >= 0 /\ ~IsNode(b, o) THEN <<BADOFFSET, depth>>
    ELSE NodeScan(b, IF o >= 0 THEN o + 1 ELSE 0, depth, counted)

fdt_first_subnode(b, o) ==
    LET n == fdt_next_node(b, o, 0, TRUE)
    IN IF n[1] < 0 \/ n[2] # 1 THEN NOTFOUND ELSE n[1]

RECURSIVE SubnodeScan(_, _, _)
SubnodeScan(b, o, depth) ==
    LET n == fdt_next_node(b, o, depth, TRUE)
    IN IF n[1] < 0 \/ n[2] < 1 THEN NOTFOUND
       ELSE IF n[2] > 1 THEN SubnodeScan(b, n[1], n[2]) ELSE n[1]
fdt_next_subnode(b, o) == SubnodeScan(b, o, 1)

(* fdt_for_each_subnode: the children of the node at o, in order. *)
RECURSIVE SubnodesFrom(_, _)
SubnodesFrom(b, o) == IF o < 0 THEN <<>>
                      ELSE <<o>> \o SubnodesFrom(b, fdt_next_subnode(b, o))
Subnodes(b, o) == SubnodesFrom(b, fdt_first_subnode(b, o))

(* fdt_node_end_offset_: the offset after the end of the node at o. *)
RECURSIVE NodeEnd(_, _, _)
NodeEnd(b, o, depth) == IF o < 0 \/ depth < 0 THEN o
                        ELSE LET n == fdt_next_node(b, o, depth, TRUE)
                             IN NodeEnd(b, n[1], n[2])
fdt_node_end_offset(b, o) == NodeEnd(b, o, 0)

fdt_get_name(b, o) == b.tree[o+1].name

(* fdt_nodename_eq_: the unit address may be left out of the name asked. *)
fdt_nodename_eq(b, o, s) ==
    LET p == fdt_get_name(b, o) IN p = s \/ (s[2] = 0 /\ p[1] = s[1])

(* fdt_subnode_offset_namelen. *)
RECURSIVE SubnodeSearch(_, _, _, _)
SubnodeSearch(b, o, depth, s) ==
    IF o < 0 THEN IF depth < 0 THEN NOTFOUND ELSE o
    ELSE IF depth < 0 THEN NOTFOUND
    ELSE IF depth = 1 /\ fdt_nodename_eq(b, o, s) THEN o
    ELSE LET n == fdt_next_node(b, o, depth, TRUE)
         IN SubnodeSearch(b, n[1], n[2], s)
fdt_subnode_offset(b, o, s) ==
    IF fdt_ro_probe(b) < 0 THEN fdt_ro_probe(b) ELSE SubnodeSearch(b, o, 0, s)

(* fdt_get_string: the name a nameoff stands for, "" where it fails. *)
fdt_get_string(b, off) ==
    LET i == IF b.magic = "sw" THEN Len(b.strs) + off ELSE off
    IN IF (b.magic = "sw" /\ off >= 0) \/ i < 0 \/ i >= Len(b.strs) THEN ""
       ELSE b.strs[i+1]

(* nextprop_: the property at or after o, before any other tag. *)
RECURSIVE nextprop(_, _)
nextprop(b, o) ==
    LET t == fdt_next_tag(b, o) IN
    CASE t[1] = "fin" -> IF t[2] >= 0 THEN BADSTRUCTURE ELSE t[2]
      [] t[1] = "prop" -> o
      [] t[1] = "nop" -> nextprop(b, t[2])
      [] OTHER -> NOTFOUND
fdt_first_property_offset(b, o) == IF IsNode(b, o) THEN nextprop(b, o + 1) ELSE BADOFFSET
fdt_next_property_offset(b, o) == IF IsProp(b, o) THEN nextprop(b, o + 1) ELSE BADOFFSET

RECURSIVE PropsFrom(_, _)
PropsFrom(b, o) == IF o < 0 THEN <<>>
                   ELSE <<o>> \o PropsFrom(b, fdt_next_property_offset(b, o))
(* fdt_for_each_property_offset. *)
Properties(b, o) == PropsFrom(b, fdt_first_property_offset(b, o))

PropName(b, p) == fdt_get_string(b, b.tree[p+1].off)
PropVal(b, p) == b.tree[p+1].val

(* fdt_get_property_namelen_: the offset of the property, or the error. *)
RECURSIVE PropSearch(_, _, _)
PropSearch(b, p, name) == IF p < 0 \/ PropName(b, p) = name THEN p
                          ELSE PropSearch(b, fdt_next_property_offset(b, p), name)
fdt_get_property(b, o, name) == PropSearch(b, fdt_first_property_offset(b, o), name)

Number(v) == v[1][2]
IsNumber(v) == Len(v) = 1 /\ v[1][1] = "#"

fdt_get_phandle(b, o) ==
    LET p == fdt_get_property(b, o, "phandle")
        q == fdt_get_property(b, o, "linux,phandle")
    IN IF p >= 0 /\ Len(PropVal(b, p)) = 1 THEN Number(PropVal(b, p))
       ELSE IF q >= 0 /\ Len(PropVal(b, q)) = 1 THEN Number(PropVal(b, q)) ELSE 0

(* Nodes in order, by fdt_next_node from -1 without a depth. *)
RECURSIVE NodesFrom(_, _)
NodesFrom(b, o) == LET n == fdt_next_node(b, o, 0, FALSE)[1]
                   IN IF n < 0 THEN <<>> ELSE <<n>> \o NodesFrom(b, n)
AllNodes(b) == NodesFrom(b, -1)

fdt_find_max_phandle(b) ==
    LET s == {fdt_get_phandle(b, AllNodes(b)[i]) : i \in 1..Len(AllNodes(b))} \cup {0}
    IN CHOOSE m \in s : \A n \in s : n <= m

FirstNode(b, Test(_), from) ==
    LET s == NodesFrom(b, from)
        hit == {i \in 1..Len(s) : Test(s[i])}
    IN IF hit = {} THEN NOTFOUND ELSE s[CHOOSE i \in hit : \A j \in hit : i <= j]

fdt_node_offset_by_phandle(b, ph) ==
    IF ph = 0 THEN BADPHANDLE
    ELSE FirstNode(b, LAMBDA o : fdt_get_phandle(b, o) = ph, -1)

fdt_node_offset_by_prop_value(b, from, name, v) ==
    FirstNode(b, LAMBDA o : LET p == fdt_get_property(b, o, name)
                            IN p >= 0 /\ PropVal(b, p) = v, from)

(* fdt_path_offset of a path from the root, "/" being <<>>. *)
RECURSIVE PathFrom(_, _, _)
PathFrom(b, o, path) ==
    IF path = <<>> \/ o < 0 THEN o
    ELSE PathFrom(b, fdt_subnode_offset(b, o, Head(path)), Tail(path))
fdt_path_offset(b, path) ==
    IF fdt_ro_probe(b) < 0 THEN fdt_ro_probe(b) ELSE PathFrom(b, 0, path)

(* fdt_supernode_atdepth_offset: <<offset, depth of the node>>. *)
RECURSIVE SupernodeScan(_, _, _, _, _, _)
SupernodeScan(b, node, want, o, depth, best) ==
    IF o < 0 \/ o > node
    THEN <<IF o = NOTFOUND \/ o >= 0 THEN BADOFFSET
           ELSE IF o = BADOFFSET THEN BADSTRUCTURE ELSE o, depth>>
    ELSE LET super == IF depth = want THEN o ELSE best
             n == fdt_next_node(b, o, depth, TRUE)
         IN IF o = node THEN <<IF want > depth THEN NOTFOUND ELSE super, depth>>
            ELSE SupernodeScan(b, node, want, n[1], n[2], super)
fdt_supernode_atdepth_offset(b, node, want) ==
    IF fdt_ro_probe(b) < 0 THEN <<fdt_ro_probe(b), 0>>
    ELSE IF want < 0 THEN <<NOTFOUND, 0>>
    ELSE SupernodeScan(b, node, want, 0, 0, INTERNAL)

fdt_node_depth(b, node) ==
    LET s == fdt_supernode_atdepth_offset(b, node, 0)
    IN IF s[1] # 0 THEN (IF s[1] < 0 THEN s[1] ELSE INTERNAL) ELSE s[2]
fdt_parent_offset(b, node) ==
    LET d == fdt_node_depth(b, node)
    IN IF d < 0 THEN d ELSE fdt_supernode_atdepth_offset(b, node, d - 1)[1]

(* fdt_get_path into a buffer for room components: buf holds the names of  *)
(* the nodes from the root to the last node that fitted.                   *)
RECURSIVE PathScan(_, _, _, _, _, _)
PathScan(b, node, room, o, depth, buf) ==
    IF o < 0 \/ o > node
    THEN [ret |-> IF o = NOTFOUND \/ o >= 0 THEN BADOFFSET
                  ELSE IF o = BADOFFSET THEN BADSTRUCTURE ELSE o, path |-> <<>>]
    ELSE LET kept == SubSeq(buf, 1, IF Len(buf) > depth THEN depth ELSE Len(buf))
             now == IF Len(kept) >= depth /\ Len(kept) < room + 1
                    THEN Append(kept, fdt_get_name(b, o)) ELSE kept
             n == fdt_next_node(b, o, depth, TRUE)
         IN IF o = node
            THEN IF Len(now) < depth + 1 THEN [ret |-> NOSPACE, path |-> <<>>]
                 ELSE [ret |-> 0, path |-> Tail(now)]
            ELSE PathScan(b, node, room, n[1], n[2], now)
fdt_get_path(b, node, room) == PathScan(b, node, room, 0, 0, <<>>)

(* String lists.  The comparison of fdt_stringlist_contains reads the byte *)
(* after the value, the zero that padding and tags begin with, and takes a *)
(* string without its terminator; the others refuse one.                   *)
fdt_stringlist_contains(v, s) ==
    \E i \in 1..Len(v) : v[i][1] = s /\ \A j \in 1..i-1 : v[j][2] = 0
fdt_stringlist_count(v) == IF \E i \in 1..Len(v) : v[i][2] = 1 THEN BADVALUE ELSE Len(v)
fdt_stringlist_search(v, s) ==
    LET stop == {i \in 1..Len(v) : v[i][2] = 1 \/ v[i][1] = s}
        i == CHOOSE k \in stop : \A j \in stop : k <= j
    IN IF stop = {} THEN NOTFOUND ELSE IF v[i][2] = 1 THEN BADVALUE ELSE i - 1
fdt_stringlist_get(v, idx) ==
    LET upto == {i \in 1..Len(v) : i <= idx + 1}
    IN IF \E i \in upto : v[i][2] = 1 THEN "?" ELSE IF idx < Len(v) THEN v[idx+1][1] ELSE ""

(* fdt_cells and the two functions that read #address-cells, #size-cells. *)
fdt_cells(b, o, name) ==
    LET p == fdt_get_property(b, o, name)
    IN IF p < 0 THEN p
       ELSE IF Len(PropVal(b, p)) # 1 \/ Number(PropVal(b, p)) > 4 THEN BADNCELLS
       ELSE Number(PropVal(b, p))
fdt_address_cells(b, o) ==
    LET c == fdt_cells(b, o, "#address-cells")
    IN IF c = 0 THEN BADNCELLS ELSE IF c = NOTFOUND THEN 2 ELSE c
fdt_size_cells(b, o) ==
    LET c == fdt_cells(b, o, "#size-cells") IN IF c = NOTFOUND THEN 1 ELSE c

(* The reserve map: the entries before the first of size 0. *)
fdt_num_mem_rsv(b) ==
    LET z == {i \in 1..Len(b.rsv) : b.rsv[i] = 0}
    IN IF z = {} THEN TRUNCATED ELSE (CHOOSE i \in z : \A j \in z : i <= j) - 1

(* Where the structure block starts, and where the data of a blob ends     *)
(* whose blocks are in order.                                              *)
StructOff(b) == b.base + RsvWords * Len(b.rsv)
DataSize(b) == StructOff(b) + Words(b.tree) + Len(b.strs)

(* fdt_check_header and the walk of fdt_check_full. *)
fdt_check_header(b) ==
    IF b.magic # "dtb" THEN BADMAGIC
    ELSE IF b.ver < 2 THEN BADVERSION
    ELSE IF DataSize(b) > b.total THEN TRUNCATED ELSE 0

RECURSIVE CheckFrom(_, _, _, _)
CheckFrom(b, o, depth, done) ==
    LET t == fdt_next_tag(b, o) IN
    IF t[2] < 0 THEN t[2]
    ELSE IF done /\ t[1] # "fin" THEN BADSTRUCTURE
    ELSE CASE t[1] = "fin" -> IF depth # 0 THEN BADSTRUCTURE ELSE 0
           [] t[1] = "nop" -> CheckFrom(b, t[2], depth, done)
           [] t[1] = "begin" -> IF depth = 0 /\ fdt_get_name(b, o)[1] # "" THEN BADSTRUCTURE
                                ELSE CheckFrom(b, t[2], depth + 1, done)
           [] t[1] = "end" -> IF depth = 0 THEN BADSTRUCTURE
                              ELSE CheckFrom(b, t[2], depth - 1, depth = 1)
           [] t[1] = "prop" -> IF PropName(b, o) = "" THEN BADOFFSET
                               ELSE CheckFrom(b, t[2], depth, done)
fdt_check_full(b, bufsize) ==
    IF fdt_check_header(b) # 0 THEN fdt_check_header(b)
    ELSE IF bufsize < b.total THEN TRUNCATED
    ELSE IF fdt_num_mem_rsv(b) < 0 THEN fdt_num_mem_rsv(b)
    ELSE CheckFrom(b, 0, 0, FALSE)

(***************************************************************************)
(* The reference: the tree a structure block stands for, by nesting alone. *)
(***************************************************************************)
Offsets(b) == 0 .. Len(b.tree) - 1
NodeSet(b) == {o \in Offsets(b) : b.tree[o+1].tag = "begin"}

Count(b, tag, from, to) == Cardinality({i \in from .. to : b.tree[i+1].tag = tag})

(* The end tag that closes the node at o. *)
Closing(b, o) == CHOOSE e \in Offsets(b) : e > o /\ Count(b, "begin", o, e) = Count(b, "end", o, e)
                     /\ \A k \in o .. e - 1 : Count(b, "begin", o, k) > Count(b, "end", o, k)

(* The nodes around offset o, the node at o included. *)
Around(b, o) == {p \in NodeSet(b) : p <= o /\ o <= Closing(b, p)}
ParentOf(b, o) == LET s == Around(b, o) \ {o} IN CHOOSE p \in s : \A q \in s : q <= p
ChildrenOf(b, o) == {c \in NodeSet(b) \ {0} : ParentOf(b, c) = o}

(* The names on the way from the root down to the node at o. *)
PathOf(b, o) == LET s == Around(b, o) \ {0}
                    at(i) == CHOOSE p \in s : Cardinality({q \in s : q <= p}) = i
                IN [i \in 1..Cardinality(s) |-> fdt_get_name(b, at(i))]

(* What a complete blob says: for each node, by path, its properties. *)
OwnProps(b, o) == {p \in Offsets(b) : b.tree[p+1].tag = "prop" /\ ParentOf(b, p) = o}
Content(b) == {[path |-> PathOf(b, o),
                props |-> {<<PropName(b, p), PropVal(b, p)>> : p \in OwnProps(b, o)}]
               : o \in NodeSet(b)}
=============================================================================
