-------------------------------- MODULE Fdt --------------------------------
(***************************************************************************)
(* Editing a flattened device tree: the sequential writer (kernel/         *)
(* fdt_sw.c), the read-write functions (fdt_rw.c), those that work in      *)
(* place (fdt_wip.c), fdt_create_empty_tree, and what the boot loader does *)
(* with them (lib/fdt.c, the loops over /memory nodes of protos/limine.c   *)
(* and protos/linux_risc.c).                                               *)
(*                                                                         *)
(* A function of the library is an operator that gives its result and the  *)
(* blob it leaves, [ret, b]; an action is one call of it.  last records    *)
(* the call.  The caller gets an offset from the tree as it is; it closes  *)
(* every node it begins, writes a node's properties before its subnodes    *)
(* and gives no two of either the same name: the writer checks none of it. *)
(***************************************************************************)
EXTENDS FdtTree

CONSTANTS Sizes,      \* sizes of the buffers, in words
          NodeNames,  \* names of subnodes, <<base, unit>>
          PropNames,  \* property names
          Values,     \* property values, sequences of cells
          MaxRsv,     \* bound on entries of the reserve map
          Received    \* blobs that firmware hands over

VARIABLES fdt, last

fdtVars == <<fdt, last>>

Result(ret, b) == [ret |-> ret, b |-> b]
Fail(b, e) == Result(e, b)

(* A call that goes on only when the one before it did not fail. *)
Then(r, Op(_)) == IF r.ret < 0 THEN r ELSE Op(r.b)

Insert(s, at, new) == SubSeq(s, 1, at) \o new \o SubSeq(s, at + 1, Len(s))
Remove(s, at, n) == SubSeq(s, 1, at) \o SubSeq(s, at + n + 1, Len(s))

(***************************************************************************)
(* The sequential writer.  off_dt_strings, 0 while the reserve map is      *)
(* written and the size of the buffer afterwards, is phase.  The strings   *)
(* block grows down from the end of the buffer.                            *)
(***************************************************************************)
fdt_sw_probe(b, phase) ==
    IF b.magic = "dtb" THEN BADSTATE
    ELSE IF b.magic # "sw" THEN BADMAGIC
    ELSE IF phase # "any" /\ b.phase # phase THEN BADSTATE ELSE 0

fdt_create_with_flags(size, dedup) ==
    [magic |-> "sw", ver |-> 17, ordered |-> TRUE, base |-> 12, total |-> size, rsv |-> <<>>,
     tree |-> <<>>, strs |-> <<>>, phase |-> "memrsv", dedup |-> dedup]

fdt_grab_space(b, w) == Words(b.tree) + w <= b.total - StructOff(b) - Len(b.strs)

fdt_resize(b, size) ==
    IF fdt_sw_probe(b, "any") # 0 THEN Fail(b, fdt_sw_probe(b, "any"))
    ELSE IF DataSize(b) > b.total THEN Fail(b, INTERNAL)
    ELSE IF DataSize(b) > size THEN Fail(b, NOSPACE)
    ELSE Result(0, [b EXCEPT !.total = size])

fdt_add_reservemap_entry(b, size) ==
    IF fdt_sw_probe(b, "memrsv") # 0 THEN Fail(b, fdt_sw_probe(b, "memrsv"))
    ELSE IF StructOff(b) + RsvWords > b.total THEN Fail(b, NOSPACE)
    ELSE Result(0, [b EXCEPT !.rsv = Append(b.rsv, size)])

fdt_finish_reservemap(b) ==
    Then(fdt_add_reservemap_entry(b, 0), LAMBDA c : Result(0, [c EXCEPT !.phase = "struct"]))

WriteTag(b, t) ==
    IF fdt_sw_probe(b, "struct") # 0 THEN Fail(b, fdt_sw_probe(b, "struct"))
    ELSE IF ~fdt_grab_space(b, TagWords(t)) THEN Fail(b, NOSPACE)
    ELSE Result(0, [b EXCEPT !.tree = Append(b.tree, t)])

fdt_begin_node(b, name) == WriteTag(b, Begin(name))
fdt_end_node(b) == WriteTag(b, EndNode)

IndexIn(s, x) == CHOOSE i \in 1..Len(s) : s[i] = x /\ \A j \in 1..i-1 : s[j] # x

(* fdt_find_add_string_ of fdt_sw.c: [off, strs], off 0 without room. *)
SwString(b, name) ==
    IF b.dedup /\ \E i \in 1..Len(b.strs) : b.strs[i] = name
    THEN [off |-> IndexIn(b.strs, name) - 1 - Len(b.strs), strs |-> b.strs]
    ELSE IF b.total - (Len(b.strs) + 1) < StructOff(b) + Words(b.tree)
    THEN [off |-> 0, strs |-> b.strs]
    ELSE [off |-> -(Len(b.strs) + 1), strs |-> <<name>> \o b.strs]

(* fdt_property: without room for the property its string goes too. *)
fdt_property(b, name, v) ==
    LET s == SwString(b, name)
        c == [b EXCEPT !.strs = s.strs] IN
    IF fdt_sw_probe(b, "struct") # 0 THEN Fail(b, fdt_sw_probe(b, "struct"))
    ELSE IF s.off = 0 THEN Fail(b, NOSPACE)
    ELSE IF ~fdt_grab_space(c, 3 + Len(v)) THEN Fail(b, NOSPACE)
    ELSE Result(0, [c EXCEPT !.tree = Append(c.tree, Prop(s.off, v))])

(* fdt_finish: the strings move down behind the tags, and every nameoff    *)
(* counts from their start.                                                *)
RebasedNot(b) == b.tree
Rebased(b) == [i \in 1..Len(b.tree) |->
                 IF b.tree[i].tag = "prop"
                 THEN [b.tree[i] EXCEPT !.off = @ + Len(b.strs)] ELSE b.tree[i]]
fdt_finish(b) ==
    Then(WriteTag(b, Fin), LAMBDA c :
         Result(0, [c EXCEPT !.tree = Rebased(c), !.total = DataSize(c),
                             !.magic = "dtb", !.phase = "done"]))

(***************************************************************************)
(* The read-write functions.                                               *)
(***************************************************************************)
fdt_rw_probe(b) == IF fdt_ro_probe(b) < 0 THEN fdt_ro_probe(b)
                   ELSE IF b.ver < 17 THEN BADVERSION
                   ELSE IF ~b.ordered THEN BADLAYOUT ELSE 0

(* fdt_splice_: room for what an edit adds. *)
fdt_splice(b, old, new) == DataSize(b) - old + new <= b.total

(* fdt_splice_struct_ with the tags new for the n tags after offset at. *)
fdt_splice_struct(b, at, n, new) ==
    LET out == SubSeq(b.tree, at + 1, at + n) IN
    IF ~fdt_splice(b, Words(out), Words(new)) THEN Fail(b, NOSPACE)
    ELSE Result(0, [b EXCEPT !.tree = Insert(Remove(b.tree, at, n), at, new)])

fdt_add_mem_rsv(b, size) ==
    IF fdt_rw_probe(b) # 0 THEN Fail(b, fdt_rw_probe(b))
    ELSE IF ~fdt_splice(b, 0, RsvWords) THEN Fail(b, NOSPACE)
    ELSE Result(0, [b EXCEPT !.rsv = Insert(b.rsv, fdt_num_mem_rsv(b), <<size>>)])

fdt_del_mem_rsv(b, n) ==
    IF fdt_rw_probe(b) # 0 THEN Fail(b, fdt_rw_probe(b))
    ELSE IF n >= fdt_num_mem_rsv(b) THEN Fail(b, NOTFOUND)
    ELSE Result(0, [b EXCEPT !.rsv = Remove(b.rsv, n, 1)])

(* fdt_find_add_string_ of fdt_rw.c, then the property right after the     *)
(* node's begin tag; a string just added goes when there is no room.       *)
fdt_add_property(b, o, name, v) ==
    LET known == \E i \in 1..Len(b.strs) : b.strs[i] = name
        c == IF known THEN b ELSE [b EXCEPT !.strs = Append(b.strs, name)]
        r == fdt_splice_struct(c, o + 1, 0, <<Prop(IndexIn(c.strs, name) - 1, v)>>)
    IN IF ~IsNode(b, o) THEN Fail(b, BADOFFSET)
       ELSE IF ~known /\ ~fdt_splice(b, 0, 1) THEN Fail(b, NOSPACE)
       ELSE IF r.ret < 0 THEN Fail(b, r.ret) ELSE r

(* A property found, given v behind its value or in its place, or added. *)
EditProperty(b, o, name, v, append) ==
    LET p == fdt_get_property(b, o, name) IN
    IF fdt_rw_probe(b) # 0 THEN Fail(b, fdt_rw_probe(b))
    ELSE IF p >= 0
    THEN fdt_splice_struct(b, p, 1, <<Prop(b.tree[p+1].off, IF append THEN PropVal(b, p) \o v ELSE v)>>)
    ELSE IF p # NOTFOUND THEN Fail(b, p) ELSE fdt_add_property(b, o, name, v)

fdt_setprop(b, o, name, v) == EditProperty(b, o, name, v, FALSE)
fdt_appendprop(b, o, name, v) == EditProperty(b, o, name, v, TRUE)

(* An address and a size, in the cells the parent asks for; with one cell  *)
(* the range stays below 2^32, here Top.                                   *)
Top == 2
fdt_appendprop_addrrange(b, parent, o, name, addr, size) ==
    LET ac == fdt_address_cells(b, parent)
        sc == fdt_size_cells(b, parent)
        cells(c, n) == IF c = 1 THEN <<<<"#", n>>>> ELSE <<<<"#", n \div Top>>, <<"#", n % Top>>>>
    IN IF ac < 0 THEN Fail(b, ac)
       ELSE IF sc < 0 THEN Fail(b, sc)
       ELSE IF ac = 1 /\ (addr >= Top \/ Top - addr < size) THEN Fail(b, BADVALUE)
       ELSE IF ac \notin {1, 2} THEN Fail(b, BADNCELLS)
       ELSE IF sc = 1 /\ size >= Top THEN Fail(b, BADVALUE)
       ELSE IF sc \notin {1, 2} THEN Fail(b, BADNCELLS)
       ELSE fdt_appendprop(b, o, name, cells(ac, addr) \o cells(sc, size))

fdt_delprop(b, o, name) ==
    LET p == fdt_get_property(b, o, name) IN
    IF fdt_rw_probe(b) # 0 THEN Fail(b, fdt_rw_probe(b))
    ELSE IF p < 0 THEN Fail(b, p) ELSE fdt_splice_struct(b, p, 1, <<>>)

fdt_set_name(b, o, name) ==
    IF fdt_rw_probe(b) # 0 THEN Fail(b, fdt_rw_probe(b))
    ELSE IF ~IsNode(b, o) THEN Fail(b, BADOFFSET)
    ELSE fdt_splice_struct(b, o, 1, <<Begin(name)>>)

(* fdt_add_subnode: after the parent's properties; the result is where. *)
RECURSIVE AfterProps(_, _)
AfterProps(b, o) == IF fdt_next_tag(b, o)[1] \in {"prop", "nop"} THEN AfterProps(b, o + 1) ELSE o
AddFirst(b, parent, name) ==
    IF fdt_rw_probe(b) # 0 THEN Fail(b, fdt_rw_probe(b))
    ELSE IF fdt_subnode_offset(b, parent, name) >= 0 THEN Fail(b, EXISTS)
    ELSE fdt_splice_struct(b, parent + 1, 0, <<Begin(name), EndNode>>)
fdt_add_subnode(b, parent, name) ==
    LET s == fdt_subnode_offset(b, parent, name)
        at == AfterProps(b, parent + 1)
        r == fdt_splice_struct(b, at, 0, <<Begin(name), EndNode>>)
    IN IF fdt_rw_probe(b) # 0 THEN Fail(b, fdt_rw_probe(b))
       ELSE IF s >= 0 THEN Fail(b, EXISTS)
       ELSE IF s # NOTFOUND THEN Fail(b, s)
       ELSE IF r.ret < 0 THEN r ELSE Result(at, r.b)

fdt_del_node(b, o) ==
    LET e == fdt_node_end_offset(b, o) IN
    IF fdt_rw_probe(b) # 0 THEN Fail(b, fdt_rw_probe(b))
    ELSE IF e < 0 THEN Fail(b, e) ELSE fdt_splice_struct(b, o, e - o, <<>>)

(* fdt_open_into another buffer: a blob whose blocks are out of order is   *)
(* packed on the way, without the entries after the reserve map's end.     *)
Packed(b) == [b EXCEPT !.base = 10, !.ordered = TRUE,
                       !.rsv = SubSeq(b.rsv, 1, fdt_num_mem_rsv(b) + 1)]
fdt_open_into(b, size) ==
    LET c == IF b.ordered THEN b ELSE Packed(b)
        need == IF b.ordered THEN b.total ELSE DataSize(c)
    IN IF fdt_ro_probe(b) < 0 THEN Fail(b, fdt_ro_probe(b))
       ELSE IF b.ver < 16 THEN Fail(b, BADVERSION)
       ELSE IF need > size THEN Fail(b, NOSPACE)
       ELSE Result(0, [c EXCEPT !.total = size, !.ver = 17])

fdt_pack(b) ==
    IF fdt_rw_probe(b) # 0 THEN Fail(b, fdt_rw_probe(b))
    ELSE Result(0, [Packed(b) EXCEPT !.total = DataSize(Packed(b))])

(***************************************************************************)
(* In place: no tag moves.                                                 *)
(***************************************************************************)
fdt_setprop_inplace_partial(b, o, name, idx, v) ==
    LET p == fdt_get_property(b, o, name)
        old == PropVal(b, p)
        new == [i \in 1..Len(old) |-> IF i > idx /\ i <= idx + Len(v) THEN v[i - idx] ELSE old[i]]
    IN IF p < 0 THEN Fail(b, p)
       ELSE IF Len(old) < idx + Len(v) THEN Fail(b, NOSPACE)
       ELSE Result(0, [b EXCEPT !.tree[p+1].val = new])

fdt_setprop_inplace(b, o, name, v) ==
    LET p == fdt_get_property(b, o, name) IN
    IF p < 0 THEN Fail(b, p)
    ELSE IF Len(PropVal(b, p)) # Len(v) THEN Fail(b, NOSPACE)
    ELSE fdt_setprop_inplace_partial(b, o, name, 0, v)

(* fdt_nop_region_: a no-op tag in every word of the n tags at o. *)
fdt_nop_region(b, o, n) ==
    LET w == Words(SubSeq(b.tree, o + 1, o + n))
    IN [b EXCEPT !.tree = Insert(Remove(b.tree, o, n), o, [i \in 1..w |-> Nop])]

fdt_nop_property(b, o, name) ==
    LET p == fdt_get_property(b, o, name)
    IN IF p < 0 THEN Fail(b, p) ELSE Result(0, fdt_nop_region(b, p, 1))

fdt_nop_node(b, o) ==
    LET e == fdt_node_end_offset(b, o)
    IN IF e < 0 THEN Fail(b, e) ELSE Result(0, fdt_nop_region(b, o, e - o))

(***************************************************************************)
(* What the boot loader builds from these.                                 *)
(***************************************************************************)
Root == <<"", 0>>
fdt_create_empty_tree(size) ==
    LET b == fdt_create_with_flags(size, TRUE)
        t == Then(Then(fdt_finish_reservemap(b), LAMBDA c : fdt_begin_node(c, Root)), fdt_end_node)
    IN Then(Then(t, fdt_finish), LAMBDA c : fdt_open_into(c, size))

(* fdt_set_chosen_string, _uint64 and _uint32. *)
Chosen == <<"chosen", 0>>
fdt_set_chosen(b, name, v) ==
    LET c == fdt_subnode_offset(b, 0, Chosen)
        n == IF c = NOTFOUND THEN fdt_add_subnode(b, 0, Chosen) ELSE Result(c, b)
    IN IF n.ret < 0 THEN n ELSE fdt_setprop(n.b, n.ret, name, v)

(* The loop over "memory@" of both protocols: seven characters are asked   *)
(* for, '@' among them, so the unit address asked for is empty.            *)
MemoryAt == <<"memory", -1>>
RECURSIVE delete_memory_nodes(_)
delete_memory_nodes(b) ==
    LET o == fdt_subnode_offset(b, 0, MemoryAt) IN
    IF o = NOTFOUND THEN Result(0, b)
    ELSE IF o < 0 THEN Fail(b, o)
    ELSE LET r == fdt_del_node(b, o) IN IF r.ret < 0 THEN r ELSE delete_memory_nodes(r.b)

(***************************************************************************)
(* The calls.                                                              *)
(***************************************************************************)
Called(op, path, name, v, r) ==
    /\ fdt' = r.b
    /\ last' = [op |-> op, path |-> path, name |-> name, val |-> v, ret |-> r.ret]

FdtInit ==
    /\ fdt \in Received \cup {fdt_create_with_flags(n, d) : n \in Sizes, d \in BOOLEAN}
    /\ last = [op |-> "none", path |-> <<>>, name |-> "", val |-> <<>>, ret |-> 0]

Depth == Count(fdt, "begin", 0, Len(fdt.tree) - 1) - Count(fdt, "end", 0, Len(fdt.tree) - 1)
LastTag == IF fdt.tree = <<>> THEN "none" ELSE fdt.tree[Len(fdt.tree)].tag
Complete == fdt.magic = "dtb"

(* The writer: calls made too early or too late are answered BADSTATE. *)
SwRsv == \E n \in {0, 1} : Len(fdt.rsv) < MaxRsv
             /\ Called("rsv", <<>>, "", <<>>, fdt_add_reservemap_entry(fdt, n))
SwRsvEnd == Called("rsvend", <<>>, "", <<>>, fdt_finish_reservemap(fdt))
Closed(i) == \E j \in i..Len(fdt.tree) :
                 Count(fdt, "begin", i - 1, j - 1) < Count(fdt, "end", i - 1, j - 1)
SwBegin == \E n \in NodeNames :
    LET name == IF fdt.tree = <<>> THEN Root ELSE n
    IN /\ Depth > 0 \/ fdt.tree = <<>>
       /\ \A i \in 1..Len(fdt.tree) :
              fdt.tree[i].tag = "begin" /\ fdt.tree[i].name = name => Closed(i)
       /\ Called("begin", <<name>>, "", <<>>, fdt_begin_node(fdt, name))
SwEnd == Depth > 0 /\ Called("end", <<>>, "", <<>>, fdt_end_node(fdt))
SwProp == \E n \in PropNames, v \in Values :
    /\ LastTag \in {"begin", "prop"}
    /\ \A i \in 1..Len(fdt.tree) : fdt.tree[i].tag = "prop" /\ PropName(fdt, i - 1) = n =>
           \E j \in i..Len(fdt.tree) : fdt.tree[j].tag = "begin"
    /\ Called("property", <<>>, n, v, fdt_property(fdt, n, v))
SwResize == \E n \in Sizes : Called("resize", <<>>, "", <<>>, fdt_resize(fdt, n))
SwFinish == fdt.tree # <<>> /\ Depth = 0 /\ Called("finish", <<>>, "", <<>>, fdt_finish(fdt))

(* The editor, on a complete tree. *)
At(Op(_), op, name, v) ==
    \E o \in NodeSet(fdt) : Called(op, PathOf(fdt, o), name, v, Op(o))
RwRsv == Len(fdt.rsv) < MaxRsv
         /\ \E n \in {0, 1} : Called("rsv", <<>>, "", <<>>, fdt_add_mem_rsv(fdt, n))
RwRsvDel == \E n \in 0..MaxRsv : Called("rsv", <<>>, "", <<>>, fdt_del_mem_rsv(fdt, n))
RwSet == \E n \in PropNames, v \in Values :
             At(LAMBDA o : fdt_setprop(fdt, o, n, v), "set", n, v)
RwAppend == \E n \in PropNames, v \in Values :
             At(LAMBDA o : fdt_appendprop(fdt, o, n, v), "append", n, v)
RwRange == \E n \in PropNames, a \in {0, Top}, s \in {1, Top} : \E o \in NodeSet(fdt) \ {0} :
             Called("range", PathOf(fdt, o), n, <<<<"#", a>>, <<"#", s>>>>,
                    fdt_appendprop_addrrange(fdt, ParentOf(fdt, o), o, n, a, s))
RwDelProp == \E n \in PropNames : At(LAMBDA o : fdt_delprop(fdt, o, n), "delprop", n, <<>>)
RwName == \E n \in NodeNames : \E o \in NodeSet(fdt) \ {0} :
             /\ \A c \in ChildrenOf(fdt, ParentOf(fdt, o)) : fdt_get_name(fdt, c) # n
             /\ Called("name", PathOf(fdt, o), "", <<n>>, fdt_set_name(fdt, o, n))
RwAdd == \E n \in NodeNames : At(LAMBDA o : fdt_add_subnode(fdt, o, n), "add", "", <<n>>)
RwDel == \E o \in NodeSet(fdt) \ {0} : Called("del", PathOf(fdt, o), "", <<>>, fdt_del_node(fdt, o))
RwOpen == \E n \in Sizes : Called("open", <<>>, "", <<>>, fdt_open_into(fdt, n))
RwPack == Called("pack", <<>>, "", <<>>, fdt_pack(fdt))
InPlace == \E n \in PropNames, v \in Values :
             At(LAMBDA o : fdt_setprop_inplace(fdt, o, n, v), "inplace", n, v)
NopProp == \E n \in PropNames : At(LAMBDA o : fdt_nop_property(fdt, o, n), "delprop", n, <<>>)
NopNode == \E o \in NodeSet(fdt) \ {0} : Called("del", PathOf(fdt, o), "", <<>>, fdt_nop_node(fdt, o))

(* The loader. *)
EmptyTree == \E n \in Sizes : Called("empty", <<>>, "", <<>>, fdt_create_empty_tree(n))
SetChosen == \E n \in PropNames, v \in Values :
             Called("chosen", <<Chosen>>, n, v, fdt_set_chosen(fdt, n, v))
DeleteMemory == Called("memory", <<>>, "", <<>>, delete_memory_nodes(fdt))

FdtNext == \/ SwRsv \/ SwRsvEnd \/ SwBegin \/ SwEnd \/ SwProp \/ SwResize \/ SwFinish
           \/ EmptyTree
           \/ Complete /\ (\/ RwRsv \/ RwRsvDel \/ RwSet \/ RwAppend \/ RwRange \/ RwDelProp
                           \/ RwName \/ RwAdd \/ RwDel \/ RwOpen \/ RwPack
                           \/ InPlace \/ NopProp \/ NopNode \/ SetChosen \/ DeleteMemory)

(***************************************************************************)
(* Properties                                                              *)
(***************************************************************************)
First(s) == IF s = {} THEN NOTFOUND ELSE CHOOSE o \in s : \A q \in s : o <= q
Elems(s) == {s[i] : i \in 1..Len(s)}

(* A complete tree passes the library's own full check and fits its        *)
(* buffer, and every search of fdt_ro.c finds in it what the nesting of    *)
(* its tags says: parents, depths, paths, children, names, properties.     *)
TreeSound == Complete =>
    /\ fdt_check_full(fdt, fdt.total) = 0
    /\ Elems(AllNodes(fdt)) = NodeSet(fdt)
    /\ \A o \in NodeSet(fdt) :
         /\ fdt_parent_offset(fdt, o) = IF o = 0 THEN NOTFOUND ELSE ParentOf(fdt, o)
         /\ fdt_node_depth(fdt, o) = Len(PathOf(fdt, o))
         /\ fdt_get_path(fdt, o, Len(PathOf(fdt, o))) = [ret |-> 0, path |-> PathOf(fdt, o)]
         /\ fdt_path_offset(fdt, PathOf(fdt, o)) <= o
         /\ Elems(Subnodes(fdt, o)) = ChildrenOf(fdt, o)
         /\ fdt_node_end_offset(fdt, o) = Closing(fdt, o) + 1
         /\ \A n \in NodeNames : fdt_subnode_offset(fdt, o, n) =
               First({c \in ChildrenOf(fdt, o) : fdt_nodename_eq(fdt, c, n)})
         /\ \A n \in PropNames : fdt_get_property(fdt, o, n) =
               First({p \in OwnProps(fdt, o) : PropName(fdt, p) = n})

Flat(b) == [i \in 1..Len(b.tree) |->
             LET t == b.tree[i]
             IN [tag |-> t.tag, name |-> IF t.tag = "begin" THEN t.name ELSE Root,
                 prop |-> IF t.tag = "prop" THEN PropName(b, i - 1) ELSE "",
                 val |-> IF t.tag = "prop" THEN t.val ELSE <<>>]]

Without(ps, n) == {x \in ps : x[1] # n}
Under(e, path) == Len(e.path) >= Len(path) /\ SubSeq(e.path, 1, Len(path)) = path
Edited(C, path, F(_)) == {IF e.path = path THEN [e EXCEPT !.props = F(@)] ELSE e : e \in C}
With(C, path) == IF \E e \in C : e.path = path THEN C ELSE C \cup {[path |-> path, props |-> {}]}

(* What a call means for the tree C, as the comments of libfdt.h say. *)
Meant(C, c) ==
    CASE c.op \in {"set", "inplace"} ->
           {Edited(C, c.path, LAMBDA ps : Without(ps, c.name) \cup {<<c.name, c.val>>})}
      [] c.op = "chosen" ->
           {Edited(With(C, c.path), c.path, LAMBDA ps : Without(ps, c.name) \cup {<<c.name, c.val>>})}
      [] c.op = "append" ->
           {Edited(C, c.path, LAMBDA ps :
              IF \E x \in ps : x[1] = c.name
              THEN {IF x[1] = c.name THEN <<x[1], x[2] \o c.val>> ELSE x : x \in ps}
              ELSE ps \cup {<<c.name, c.val>>})}
      [] c.op = "delprop" -> {Edited(C, c.path, LAMBDA ps : Without(ps, c.name))}
      [] c.op = "add" -> {With(C, c.path \o c.val)}
      [] c.op = "del" -> {{e \in C : ~Under(e, c.path)}}
      [] c.op = "name" ->
           {{IF Under(e, c.path) THEN [e EXCEPT !.path[Len(c.path)] = c.val[1]] ELSE e : e \in C}}
      [] c.op = "memory" -> {{e \in C : ~Under(e, <<MemoryAt>>)}}
      [] OTHER -> {C}

(* A call that succeeds changes the tree as it says and nothing else, and  *)
(* one that fails leaves it alone, whichever step ran out of room; moving  *)
(* and packing a blob, and finishing one, keep every name and value.       *)
(* Exceptions: fdt_set_chosen that fails may leave an empty /chosen behind *)
(* (the node is added before the property), and of the operation that      *)
(* appends a range only the other nodes are checked, which stay as they    *)
(* were, not the property it writes.                                       *)
EditMeans ==
    IF last'.op = "empty" THEN last'.ret = 0 => Content(fdt') = {[path |-> <<>>, props |-> {}]}
    ELSE IF last'.op = "finish" /\ last'.ret = 0 THEN Flat(fdt') = Flat(fdt) \o <<Flat(fdt')[Len(fdt'.tree)]>>
    ELSE IF fdt.magic = "sw" /\ last'.op \in {"begin", "end", "property"} /\ last'.ret = 0 THEN
           LET new == Flat(fdt')[Len(fdt'.tree)] IN
           /\ Flat(fdt') = Append(Flat(fdt), new)
           /\ last'.op = "property" => new.prop = last'.name /\ new.val = last'.val
           /\ DataSize(fdt') <= fdt'.total
    ELSE IF fdt.magic = "sw" THEN Flat(fdt') = Flat(fdt)
    ELSE IF last'.op = "range" THEN \A e \in Content(fdt) : e.path # last'.path => e \in Content(fdt')
    ELSE IF last'.ret >= 0 THEN Content(fdt') \in Meant(Content(fdt), last')
    ELSE IF last'.op = "chosen" THEN Content(fdt') \in {Content(fdt), With(Content(fdt), last'.path)}
    ELSE Content(fdt') = Content(fdt)
EditsMean == [][EditMeans]_fdtVars

(* The comments above the two loops: "Delete all /memory@... nodes". *)
MemoryNodesGone == last.op = "memory" /\ last.ret = 0 =>
    \A o \in ChildrenOf(fdt, 0) : fdt_get_name(fdt, o)[1] = "memory" => fdt_get_name(fdt, o)[2] = 0

FdtSpec == FdtInit /\ [][FdtNext]_fdtVars
=============================================================================
