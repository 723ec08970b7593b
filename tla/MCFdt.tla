------------------------------- MODULE MCFdt -------------------------------
(***************************************************************************)
(* Either a tree is written and edited, or an overlay is merged.           *)
(***************************************************************************)
EXTENDS FdtOverlay

VARIABLE part

MCSizes == {14, 24, 28}
MCNodeNames == {<<"cpu", 1>>, <<"cpu", 0>>}
MCPropNames == {"reg", "#address-cells"}
MCValues == {<<>>, <<<<"#", 1>>>>}
Fw(ver, ordered, rsv) ==
    [magic |-> "dtb", ver |-> ver, ordered |-> ordered, base |-> 10, total |-> 22 + RsvWords * Len(rsv),
     rsv |-> rsv, phase |-> "done", dedup |-> TRUE, strs |-> <<"reg">>,
     tree |-> <<Begin(Root), Prop(0, <<<<"#", 1>>>>), Begin(<<"memory", 1>>), EndNode, EndNode, Fin>>]
MCReceived == {Fw(17, TRUE, <<0>>), Fw(16, TRUE, <<0>>), Fw(17, FALSE, <<1, 0, 1>>)}

(* Trees for the merge, written with names in place of name offsets. *)
Cat(s) == LET f[i \in 0..Len(s)] == IF i = 0 THEN <<>> ELSE f[i-1] \o s[i] IN f[Len(s)]
Nd(name, props, kids) == <<Begin(name)>> \o props \o Cat(kids) \o <<EndNode>>
Named == <<"phandle", "linux,phandle", "target", "target-path", "ref", "la", "lb", "lx">>
Pr(name, v) == <<Prop(IndexIn(Named, name) - 1, v)>>
Num(n) == <<<<"#", n>>>>
Blob(tree, total) == [magic |-> "dtb", ver |-> 17, ordered |-> TRUE, base |-> 10, total |-> total,
                      rsv |-> <<0>>, phase |-> "done", dedup |-> TRUE, strs |-> Named, tree |-> Append(tree, Fin)]
A == <<"a", 1>>
B == <<"b", 0>>
F == <<"fragment", 1>>
G == <<"fragment", 2>>

(* /a has phandle 1, /a/b phandle 2 or none; /__symbols__ may be missing. *)
BaseTrees == {Nd(Root, <<>>, <<Nd(A, Pr("phandle", Num(1)), <<Nd(B, bp, <<>>)>>)>> \o sy) :
                bp \in {<<>>, Pr("phandle", Num(2)), Pr("linux,phandle", Num(2))},
                sy \in {<<>>, <<Nd(Symbols, Pr("la", <<A>>) \o Pr("lb", <<A, B>>), <<>>)>>}}

(* One fragment lands on /a by label or by path, may give it a phandle and *)
(* names a node; the other lands on the root, on nothing or nowhere.  Its  *)
(* node, or the first fragment's, is the one the reference means.          *)
OverTrees ==
    {Nd(Root, <<>>,
        <<Nd(F, ft, <<Nd(Overlay, fp \o Pr("ref", <<<<"#", 7>>, <<"#", to>>>>),
                        <<Nd(B, Pr("phandle", Num(2)), <<>>)>>)>>),
          Nd(G, gt, <<Nd(Overlay, <<>>, <<Nd(<<"c", 0>>, Pr("phandle", Num(cp)), <<>>)>>)>>),
          Nd(LocalFixups, <<>>, <<Nd(F, <<>>, <<Nd(Overlay, Pr("ref", Num(1)), <<>>)>>)>>)>>
        \o fx \o <<Nd(Symbols, Pr("lx", lx), <<>>)>>)
     : ft \in {Pr("target", Num(0)), Pr("target-path", <<A>>)},
       fp \in {<<>>, Pr("phandle", Num(1))}, to \in {2, 3}, cp \in {3, 4},
       gt \in {Pr("target-path", <<>>), Pr("target-path", <<<<"x", 0>>>>), <<>>},
       fx \in {<<>>, <<Nd(Fixups, Pr("la", <<F, <<"target", 0>>>>), <<>>)>>},
       lx \in {<<G, Overlay, <<"c", 0>>>>, <<F, Overlay>>, <<G>>}}
MCInputs == {[base |-> Blob(b, n), over |-> Blob(o, 200)] : b \in BaseTrees, o \in OverTrees, n \in {60, 200}}

(* String lists of up to two strings, the last perhaps without its end. *)
Lists == {v \in UNION {[1..n -> {"x", "y"} \X {0, 1}] : n \in 0..2} :
            \A i \in 1..Len(v) - 1 : v[i][2] = 0}
ASSUME StringListsAgree == \A v \in Lists, s \in {"x", "y", "z"} :
    LET at == {i \in 1..Len(v) : v[i] = <<s, 0>>}
        whole == \A i \in 1..Len(v) : v[i][2] = 0
    IN /\ fdt_stringlist_search(v, s) =
            IF at # {} THEN First(at) - 1 ELSE IF whole THEN NOTFOUND ELSE BADVALUE
       /\ at # {} => fdt_stringlist_get(v, First(at) - 1) = s /\ fdt_stringlist_contains(v, s)
       /\ fdt_stringlist_count(v) = IF whole THEN Len(v) ELSE BADVALUE
       /\ whole => fdt_stringlist_contains(v, s) = (at # {})

(* Searches over whole trees, on the trees of the merge: the first node    *)
(* after a given one, in the order of the tags.                            *)
ASSUME SearchesAgree == \A t \in BaseTrees :
    LET b == Blob(t, 200)
        holds(n, v) == {o \in NodeSet(b) : \E p \in OwnProps(b, o) : PropName(b, p) = n /\ PropVal(b, p) = v}
    IN /\ \A from \in NodeSet(b) \cup {-1} :
            fdt_node_offset_by_prop_value(b, from, "phandle", Num(1)) =
                First({o \in holds("phandle", Num(1)) : o > from})
       /\ \A n \in 1..3 : fdt_node_offset_by_phandle(b, n) =
             First(holds("phandle", Num(n)) \cup holds("linux,phandle", Num(n)))

(* In the part that is not run the other's state stays as it is here. *)
Init == \/ part = "edit" /\ FdtInit
           /\ base = 0 /\ over = 0 /\ base0 = 0 /\ over0 = 0 /\ stage = "off" /\ ret = 0
        \/ part = "merge" /\ OvInit /\ fdt = fdt_create_with_flags(14, TRUE)
           /\ last = [op |-> "none", path |-> <<>>, name |-> "", val |-> <<>>, ret |-> 0]
Next == \/ part = "edit" /\ FdtNext /\ UNCHANGED <<part, ovVars>>
        \/ part = "merge" /\ OvNext /\ UNCHANGED <<part, fdtVars>>
Spec == Init /\ [][Next]_<<part, fdtVars, ovVars>>

(* Neither the calls nor the invariants depend on the call before. *)
MCView == <<fdt, ovVars>>
=============================================================================
