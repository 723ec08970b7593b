----------------------------- MODULE FdtOverlay -----------------------------
(***************************************************************************)
(* fdt_overlay_apply (kernel/fdt_overlay.c): an overlay over is merged     *)
(* into the tree base, one stage of the function a step.  RefProps are the *)
(* names of properties that hold phandles other than a node's own.  In a   *)
(* property of /__fixups__ an entry is the path of a node, then the cell   *)
(* <<p, i>>: cell i of its property p.  Phandles end at MaxPhandle, the    *)
(* last below the two reserved values of their width.                      *)
(***************************************************************************)
EXTENDS Fdt

CONSTANTS RefProps, MaxPhandle, Inputs

VARIABLES base, over, stage, ret, base0, over0

ovVars == <<base, over, stage, ret, base0, over0>>

(* A step for each element of s, as long as none fails. *)
Each(r, s, Op(_, _)) ==
    LET f[i \in 0..Len(s)] == IF i = 0 THEN r
                              ELSE IF f[i-1].ret < 0 THEN f[i-1] ELSE Op(f[i-1].b, s[i])
    IN f[Len(s)]

Overlay == <<"__overlay__", 0>>
LocalFixups == <<"__local_fixups__", 0>>
Fixups == <<"__fixups__", 0>>
Symbols == <<"__symbols__", 0>>

(* overlay_get_target_phandle and fdt_overlay_target_offset. *)
fdt_overlay_target_offset(b, o, frag) ==
    LET t == fdt_get_property(o, frag, "target")
        ph == IF t < 0 THEN 0 ELSE Number(PropVal(o, t))
        p == fdt_get_property(o, frag, "target-path")
    IN IF t >= 0 /\ Len(PropVal(o, t)) # 1 THEN BADPHANDLE
       ELSE IF ph # 0 THEN fdt_node_offset_by_phandle(b, ph)
       ELSE IF p >= 0 THEN fdt_path_offset(b, PropVal(o, p))
       ELSE IF p = NOTFOUND THEN BADOVERLAY ELSE p

(* overlay_phandle_add_offset; a node without the property is let be. *)
overlay_phandle_add_offset(o, node, name, delta) ==
    LET p == fdt_get_property(o, node, name) IN
    IF p = NOTFOUND THEN Result(0, o)
    ELSE IF p < 0 THEN Fail(o, p)
    ELSE IF Len(PropVal(o, p)) # 1 THEN Fail(o, BADPHANDLE)
    ELSE IF Number(PropVal(o, p)) + delta > MaxPhandle THEN Fail(o, NOPHANDLES)
    ELSE Result(0, [o EXCEPT !.tree[p+1].val = <<<<"#", Number(@) + delta>>>>])

(* overlay_adjust_local_phandles: parents before children, in order. *)
overlay_adjust_local_phandles(o, delta) ==
    Each(Result(0, o), AllNodes(o), LAMBDA c, n :
         Then(overlay_phandle_add_offset(c, n, "phandle", delta),
              LAMBDA d : overlay_phandle_add_offset(d, n, "linux,phandle", delta)))

(* The cells a fixup property points at, each given its new value. *)
NewRefAny(how, n) == IF how.op = "add" THEN n + how.delta ELSE how.to
NewRef(how, n) == IF how.op = "add" THEN n + how.delta ELSE IF n = how.from THEN how.to ELSE n
FixProp(o, p, cells, how) ==
    [o EXCEPT !.tree[p+1].val = [i \in 1..Len(@) |->
        IF \E k \in 1..Len(cells) : cells[k][2] + 1 = i THEN <<"#", NewRef(how, @[i][2])>> ELSE @[i]]]

(* overlay_update_local_node_references, and with how.op = "swap"          *)
(* overlay_update_node_conflicting_references: the tree of fixups walked   *)
(* beside the overlay itself.                                              *)
RECURSIVE update_node_references(_, _, _, _)
update_node_references(o, node, fix, how) ==
    LET props == Each(Result(0, o), Properties(o, fix), LAMBDA c, f :
                   LET p == fdt_get_property(c, node, PropName(c, f))
                   IN IF p = NOTFOUND THEN Fail(c, BADOVERLAY)
                      ELSE IF p < 0 THEN Fail(c, p)
                      ELSE Result(0, FixProp(c, p, PropVal(c, f), how)))
    IN IF props.ret < 0 THEN props
       ELSE Each(props, Subnodes(o, fix), LAMBDA c, f :
                   LET n == fdt_subnode_offset(c, node, fdt_get_name(c, f))
                   IN IF n = NOTFOUND THEN Fail(c, BADOVERLAY)
                      ELSE IF n < 0 THEN Fail(c, n) ELSE update_node_references(c, n, f, how))

overlay_update_references(o, how) ==
    LET f == fdt_path_offset(o, <<LocalFixups>>) IN
    IF f = NOTFOUND THEN Result(0, o)
    ELSE IF f < 0 THEN Fail(o, f) ELSE update_node_references(o, 0, f, how)

(* The entries of a fixup property, each ended by a cell for a property. *)
FixupEntries(v) ==
    LET ends == {i \in 1..Len(v) : v[i][1] \in RefProps}
    IN {<<SubSeq(v, 1 + (IF \E j \in ends : j < i THEN CHOOSE j \in ends : j < i /\
                          \A k \in ends : k < i => k <= j ELSE 0), i - 1), v[i]>> : i \in ends}
FixupEnded(v) == v # <<>> /\ v[Len(v)][1] \in RefProps

(* overlay_fixup_phandle and overlay_fixup_one_phandle. *)
RECURSIVE fixup_each(_, _, _)
fixup_each(o, entries, ph) ==
    IF entries = {} THEN Result(0, o)
    ELSE LET e == CHOOSE x \in entries : TRUE
             n == fdt_path_offset(o, e[1])
         IN IF n = NOTFOUND THEN Fail(o, BADOVERLAY)
            ELSE IF n < 0 THEN Fail(o, n)
            ELSE Then(fdt_setprop_inplace_partial(o, n, e[2][1], e[2][2], <<<<"#", ph>>>>),
                      LAMBDA c : fixup_each(c, entries \ {e}, ph))
overlay_fixup_phandle(b, o, symbols, f) ==
    LET s == fdt_get_property(b, symbols, PropName(o, f))
        n == IF s < 0 THEN s ELSE fdt_path_offset(b, PropVal(b, s))
        ph == IF n < 0 THEN 0 ELSE fdt_get_phandle(b, n)
    IN IF n < 0 THEN Fail(o, n)
       ELSE IF ph = 0 THEN Fail(o, NOTFOUND)
       ELSE IF ~FixupEnded(PropVal(o, f)) THEN Fail(o, BADOVERLAY)
       ELSE fixup_each(o, FixupEntries(PropVal(o, f)), ph)

overlay_fixup_phandles(b, o) ==
    LET f == fdt_path_offset(o, <<Fixups>>)
        s == fdt_path_offset(b, <<Symbols>>)
    IN IF f = NOTFOUND THEN Result(0, o)
       ELSE IF f < 0 THEN Fail(o, f)
       ELSE IF s < 0 /\ s # NOTFOUND THEN Fail(o, s)
       ELSE Each(Result(0, o), Properties(o, f), LAMBDA c, p : overlay_fixup_phandle(b, c, s, p))

(* overlay_adjust_local_conflicting_phandle: both names of the property. *)
SetPhandle(o, node, name, ph) ==
    LET p == fdt_get_property(o, node, name)
    IN IF p >= 0 /\ Len(PropVal(o, p)) = 1 THEN [o EXCEPT !.tree[p+1].val = <<<<"#", ph>>>>] ELSE o

(* overlay_prevent_phandle_overwrite_node. *)
RECURSIVE prevent_overwrite_node(_, _, _, _)
prevent_overwrite_node(b, bn, o, on) ==
    LET bp == fdt_get_phandle(b, bn)
        op == fdt_get_phandle(o, on)
        own == SetPhandle(SetPhandle(o, on, "phandle", bp), on, "linux,phandle", bp)
        c == IF bp = 0 \/ op = 0 THEN Result(0, o)
             ELSE overlay_update_references(own, [op |-> "swap", from |-> op, to |-> bp])
    IN Each(c, Subnodes(o, on), LAMBDA d, n :
            LET m == fdt_subnode_offset(b, bn, fdt_get_name(d, n))
            IN IF m = NOTFOUND THEN Result(0, d) ELSE prevent_overwrite_node(b, m, d, n))

overlay_prevent_phandle_overwrite(b, o) ==
    Each(Result(0, o), Subnodes(o, 0), LAMBDA c, frag :
         LET n == fdt_subnode_offset(c, frag, Overlay)
             t == fdt_overlay_target_offset(b, c, frag)
         IN IF n = NOTFOUND THEN Result(0, c)
            ELSE IF n < 0 THEN Fail(c, n)
            ELSE IF t = NOTFOUND THEN Result(0, c)
            ELSE IF t < 0 THEN Fail(c, t) ELSE prevent_overwrite_node(b, t, c, n))

(* overlay_apply_node: the properties, then the subnodes, new or not. *)
RECURSIVE overlay_apply_node(_, _, _, _)
overlay_apply_node(b, target, o, node) ==
    LET props == Each(Result(0, b), Properties(o, node), LAMBDA c, p :
                      fdt_setprop(c, target, PropName(o, p), PropVal(o, p)))
    IN Each(props, Subnodes(o, node), LAMBDA c, n :
            LET a == fdt_add_subnode(c, target, fdt_get_name(o, n))
                at == IF a.ret = EXISTS THEN fdt_subnode_offset(c, target, fdt_get_name(o, n))
                      ELSE a.ret
            IN IF at < 0 THEN Fail(c, IF a.ret = EXISTS /\ at = NOTFOUND THEN INTERNAL ELSE at)
               ELSE overlay_apply_node(a.b, at, o, n))

overlay_merge(b, o) ==
    Each(Result(0, b), Subnodes(o, 0), LAMBDA c, frag :
         LET n == fdt_subnode_offset(o, frag, Overlay)
             t == fdt_overlay_target_offset(c, o, frag)
         IN IF n = NOTFOUND THEN Result(0, c)
            ELSE IF n < 0 THEN Fail(c, n)
            ELSE IF t < 0 THEN Fail(c, t) ELSE overlay_apply_node(c, t, o, n))

(* overlay_symbol_update: a symbol of the overlay whose path goes through  *)
(* the fragment's __overlay__ becomes one of the tree, of the same node.   *)
SymbolPath(b, o, path) ==
    LET frag == fdt_subnode_offset(o, 0, path[1])
        t == fdt_overlay_target_offset(b, o, frag)
        tp == fdt_get_property(o, frag, "target-path")
    IN [ret |-> IF frag < 0 THEN BADOVERLAY
                ELSE IF fdt_subnode_offset(o, frag, Overlay) < 0 THEN BADOVERLAY ELSE t,
        path |-> (IF fdt_get_property(o, frag, "target") < 0 /\ tp >= 0 THEN PropVal(o, tp)
                  ELSE fdt_get_path(b, t, Cardinality(NodeSet(b))).path)
                 \o SubSeq(path, 3, Len(path))]
overlay_symbol_update(b, o) ==
    LET os == fdt_subnode_offset(o, 0, Symbols)
        bs == fdt_subnode_offset(b, 0, Symbols)
        r == IF bs = NOTFOUND THEN fdt_add_subnode(b, 0, Symbols) ELSE Result(bs, b)
    IN IF os < 0 THEN Result(0, b)
       ELSE IF r.ret < 0 THEN r
       ELSE Each(Result(0, r.b), Properties(o, os), LAMBDA c, p :
                 LET path == PropVal(o, p)
                     s == SymbolPath(c, o, path)
                 IN IF Len(path) < 2 \/ path[2] # Overlay THEN Result(0, c)
                    ELSE IF s.ret < 0 THEN Fail(c, s.ret)
                    ELSE fdt_setprop(c, r.ret, PropName(o, p), s.path))

(***************************************************************************)
(* fdt_overlay_apply.                                                      *)
(***************************************************************************)
OvInit == /\ \E in \in Inputs : base = in.base /\ over = in.over
          /\ base0 = base /\ over0 = over
          /\ stage = "phandles" /\ ret = 0

(* The end of the function: a failure takes both magic numbers away. *)
Done(e, b, o) == /\ stage' = "done" /\ ret' = e
                 /\ base' = IF e < 0 THEN [b EXCEPT !.magic = "none"] ELSE b
                 /\ over' = [o EXCEPT !.magic = "none"]

OnOverlay(from, to, r) ==
    /\ stage = from
    /\ \/ r.ret >= 0 /\ over' = r.b /\ stage' = to /\ UNCHANGED <<base, ret>>
       \/ r.ret < 0 /\ Done(r.ret, base, r.b)
OnBase(from, to, r) ==
    /\ stage = from
    /\ \/ r.ret >= 0 /\ to # "done" /\ base' = r.b /\ stage' = to /\ UNCHANGED <<over, ret>>
       \/ r.ret >= 0 /\ to = "done" /\ Done(0, r.b, over)
       \/ r.ret < 0 /\ Done(r.ret, r.b, over)

Delta == fdt_find_max_phandle(base)
OvNext ==
    /\ \/ OnOverlay("phandles", "references", overlay_adjust_local_phandles(over, Delta))
       \/ OnOverlay("references", "fixups", overlay_update_references(over, [op |-> "add", delta |-> Delta]))
       \/ OnOverlay("fixups", "prevent", overlay_fixup_phandles(base, over))
       \/ OnOverlay("prevent", "merge", overlay_prevent_phandle_overwrite(base, over))
       \/ OnBase("merge", "symbols", overlay_merge(base, over))
       \/ OnBase("symbols", "done", overlay_symbol_update(base, over))
    /\ UNCHANGED <<base0, over0>>

(***************************************************************************)
(* Properties                                                              *)
(***************************************************************************)
NodeAt(b, path) == CHOOSE o \in NodeSet(b) : PathOf(b, o) = path
HasNode(b, path) == \E o \in NodeSet(b) : PathOf(b, o) = path
ValueOf(b, path, name) == PropVal(b, fdt_get_property(b, NodeAt(b, path), name))

(* Where a node of the overlay, by its path there, lands in the tree. *)
Landing(path) == LET frag == NodeAt(over0, <<path[1]>>)
                     t == fdt_get_property(over0, frag, "target-path")
                     fix == CHOOSE f \in OwnProps(over0, NodeAt(over0, <<Fixups>>)) :
                               <<<<path[1]>>, <<"target", 0>>>> \in FixupEntries(PropVal(over0, f))
                 IN (IF t >= 0 THEN PropVal(over0, t)
                     ELSE ValueOf(base0, <<Symbols>>, PropName(over0, fix)))
                    \o SubSeq(path, 3, Len(path))
Merged(path) == Len(path) >= 2 /\ path[2] = Overlay
PhandleAt(b, path) == fdt_get_phandle(b, NodeAt(b, path))

(* The cells of the overlay that name nodes of the overlay. *)
LocalRefs == {<<Tail(PathOf(over0, ParentOf(over0, f))), PropName(over0, f), PropVal(over0, f)[i][2]>>
              : f \in {p \in UNION {OwnProps(over0, n) : n \in NodeSet(over0)} :
                         LET q == PathOf(over0, ParentOf(over0, p))
                         IN q # <<>> /\ q[1] = LocalFixups /\ PropVal(over0, p) # <<>>}, i \in {1}}

(* A merge that succeeds gives a tree that passes the full check, in which *)
(* no two nodes share a phandle, every node of the old tree keeps its own, *)
(* what the overlay says of a node is said of the node it lands on, a      *)
(* reference from the overlay, to a node of its own or to a label of the   *)
(* tree, names the node that was meant, and the overlay's symbols lead to  *)
(* its nodes.  One that fails leaves no tree anyone will take for sound.   *)
OverlaySound == stage = "done" =>
    IF ret < 0 THEN fdt_ro_probe(base) < 0 /\ fdt_ro_probe(over) < 0
    ELSE /\ fdt_check_full(base, base.total) = 0
         /\ \A m, n \in NodeSet(base) : m # n /\ fdt_get_phandle(base, m) # 0 =>
                fdt_get_phandle(base, m) # fdt_get_phandle(base, n)
         /\ \A n \in NodeSet(base0) : HasNode(base, PathOf(base0, n)) /\
                (fdt_get_phandle(base0, n) # 0 =>
                   PhandleAt(base, PathOf(base0, n)) = fdt_get_phandle(base0, n))
         /\ \A n \in NodeSet(over0) : Merged(PathOf(over0, n)) =>
                /\ HasNode(base, Landing(PathOf(over0, n)))
                /\ \A p \in OwnProps(over0, n) :
                      fdt_get_property(base, NodeAt(base, Landing(PathOf(over0, n))), PropName(over0, p)) >= 0
         /\ \A r \in LocalRefs : \A n \in NodeSet(over0) :
                Merged(PathOf(over0, n)) /\ Merged(r[1])
                /\ fdt_get_phandle(over0, n) = ValueOf(over0, r[1], r[2])[r[3] + 1][2]
                => ValueOf(base, Landing(r[1]), r[2])[r[3] + 1][2] = PhandleAt(base, Landing(PathOf(over0, n)))
         /\ HasNode(over0, <<Symbols>>) => \A p \in OwnProps(over0, NodeAt(over0, <<Symbols>>)) :
                Merged(PropVal(over0, p)) =>
                  ValueOf(base, <<Symbols>>, PropName(over0, p)) = Landing(PropVal(over0, p))
=============================================================================
