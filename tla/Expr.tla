-------------------------------- MODULE Expr --------------------------------
(***************************************************************************)
(* cuex/opn.c, iteration.c, compound.c, labelling.c and set.c: expressions *)
(* and the views of their elements; cuex/algo.c, algo_fv.c, tuple.c and    *)
(* str_algo.c: recursive algorithms on them.                               *)
(*                                                                         *)
(* An operation is its operator followed by the operands, <<"v", x>> is a  *)
(* variable, <<"o", i>> an identifier or other atomic object.  Compounds   *)
(* are objects that give their elements themselves: "seq" (a monoid        *)
(* element) in order only, "set" without order only, "lab" (a labelling)   *)
(* both as values and as labelled values.  Expressions are hash-consed, so *)
(* that equal ones are the same, and Atree, of which labellings and sets   *)
(* are made, is canonical: here the elements are put in one order that     *)
(* stands for that of their addresses.                                     *)
(*                                                                         *)
(* con is an expression, ref the same one as a map of its occurrences,     *)
(* which are sequences of operand positions, to the operator or what else  *)
(* is there: what the recursions do is stated of occurrences.              *)
(***************************************************************************)
EXTENDS Integers, Sequences, FiniteSets, SequencesExt, FiniteSetsExt

CONSTANTS
    Oprs,               \* operators of a fixed rank
    Scoping,            \* operators of the group cuex_og_scoping
    Qcode,              \* the quantification of each variable
    Letter,             \* the first letter of each identifier: "uvw", "xyz" or another
    Leaves, Exprs,      \* what expressions are made of, and compared to
    MaxNodes            \* bounds the expressions, unless made from a leaf

VARIABLES con, ref

NULL == << >>
Var(x) == <<"v", x>>
IsVar(e) == e[1] = "v"
IsOpn(e) == e[1] \in Oprs \cup {"tuple", "pair"}
IsCompound(e) == e[1] \in {"seq", "set", "lab"}
IsIdr(e) == e[1] = "o"
Operands(e) == IF IsOpn(e) THEN Tail(e) ELSE << >>
cuex_opr_r(e) == Len(e) - 1
cuex_opn_at(e, i) == e[i + 2]
cuex_opn_by_arr(opr, args) == <<opr>> \o args
Pair(k, e) == <<"pair", <<"i", k>>, e>>
Image(F(_), s) == [i \in DOMAIN s |-> F(s[i])]
OPN_TRAN(e, F(_)) == cuex_opn_by_arr(e[1], Image(F, Operands(e)))
-----------------------------------------------------------------------------
(* The elements of expressions.  Where only an order is given, the view    *)
(* without order has the positions.                                        *)
Indexed(s) == [i \in DOMAIN s |-> Pair(i - 1, s[i])]
LabelOf(p) == p[2]
ValueOf(p) == p[3]

cuex_ncomm_source(e) ==
    CASE IsOpn(e) -> Operands(e)
      [] e[1] = "seq" -> Tail(e)
      [] e[1] = "lab" -> Image(ValueOf, Tail(e))
      [] OTHER -> << >>

cuex_comm_source(e) ==
    CASE IsOpn(e) -> Indexed(Operands(e))
      [] e[1] = "seq" -> Indexed(Tail(e))
      [] e[1] \in {"lab", "set"} -> Tail(e)
      [] OTHER -> << >>

cuex_compound_pref_iter_source(e) ==
    IF e[1] = "set" THEN cuex_comm_source(e) ELSE cuex_ncomm_source(e)
cuex_pref_source(e) ==
    IF IsOpn(e) THEN cuex_ncomm_source(e)
    ELSE IF IsCompound(e) THEN cuex_compound_pref_iter_source(e) ELSE << >>

Source(view, e) ==
    CASE view = "pref" -> cuex_pref_source(e)
      [] view = "fcomm" -> cuex_comm_source(e)
      [] view = "scomm" -> IF IsOpn(e) THEN Operands(e) ELSE cuex_comm_source(e)

cuex_arity(e) == Len(cuex_pref_source(e))

InOrder(kind, S) == <<kind>> \o SetToSeq(S)
Elems(C) == ToSet(Tail(C))
LabelsOf(S) == {LabelOf(p) : p \in S}

\* Labelled values with the labels of S not among those of T.
Without(S, T) == {p \in S : LabelOf(p) \notin LabelsOf(T)}

\* _comm_build_sinktor: what is put into a labelling is a labelled value or
\* another labelling; the first with a label stays.
build_put(kind, C, e) ==
    IF kind = "set" THEN InOrder("set", Elems(C) \cup {e})
    ELSE LET new == IF e[1] = "lab" THEN Elems(e) ELSE {e}
         IN  InOrder("lab", Elems(C) \cup Without(new, Elems(C)))
comm_union_sinktor(kind, C, s) == FoldLeft(LAMBDA D, e : build_put(kind, D, e), C, s)
comm_build(kind, s) == comm_union_sinktor(kind, <<kind>>, s)

\* A product of one factor is that factor.
Factors(e) == IF e[1] = "seq" THEN Tail(e) ELSE <<e>>
Product(s) == IF Len(s) = 1 THEN s[1] ELSE <<"seq">> \o s
cuex_monoid_product(x, y) == Product(Factors(x) \o Factors(y))

\* The operands go where the positions in the images say.
opn_comm_iterimg(opr, image) ==
    cuex_opn_by_arr(opr, [k \in DOMAIN image |-> ValueOf(image[CHOOSE j \in DOMAIN image :
                                                               LabelOf(image[j]) = <<"i", k - 1>>])])

\* The expression with its elements replaced.  _comm_by_ncomm_image_adaptor
\* asserts that positions stay.
image_junctor_finish(view, C, image) ==
    CASE C[1] = "seq" -> Product(IF view = "pref" THEN image ELSE Image(ValueOf, image))
      [] C[1] = "set" -> comm_build("set", image)
      [] C[1] = "lab" -> IF view = "pref"
                         THEN InOrder("lab", {<<"pair", LabelOf(C[i + 1]), image[i]>> : i \in DOMAIN image})
                         ELSE comm_build("lab", image)
ByImage(view, e, image) ==
    IF IsCompound(e) THEN image_junctor_finish(view, e, image)
    ELSE IF ~IsOpn(e) THEN e
    ELSE IF view = "fcomm" THEN opn_comm_iterimg(e[1], image) ELSE cuex_opn_by_arr(e[1], image)

cuex_iterimg_operands_view(view, F(_), e) == ByImage(view, e, Image(F, Source(view, e)))
cuex_iterimg_operands(F(_), e) == cuex_iterimg_operands_view("pref", F, e)

\* The closure also gets the number of the call.
Imagek(F(_, _), s) == [i \in DOMAIN s |-> F(i - 1, s[i])]
cuex_iterimgk_operands_view(view, F(_, _), e) == ByImage(view, e, Imagek(F, Source(view, e)))
cuex_iterimgk_operands(F(_, _), e) == cuex_iterimgk_operands_view("pref", F, e)

\* The calls made until one fails, or in iterE succeeds, and the result.
Until(src, stop, all) ==
    LET hits == {i \in DOMAIN src : src[i] \in stop}
    IN  [seen |-> IF hits = {} THEN src ELSE SubSeq(src, 1, Min(hits)), r |-> (hits = {}) = all]
cuex_iterA_operands_view(view, failing, e) == Until(Source(view, e), failing, TRUE)
cuex_iterA_operands(failing, e) == Until(cuex_pref_source(e), failing, TRUE)
cuex_iterAk_operands_view(view, failing, e) == Until(Imagek(LAMBDA k, d : <<k, d>>, Source(view, e)), failing, TRUE)
cuex_iterAk_operands(failing, e) == cuex_iterAk_operands_view("pref", failing, e)
cuex_iterE_operand(passing, e) == Until(cuex_pref_source(e), passing, FALSE)
-----------------------------------------------------------------------------
(* Labellings.  Merge(x, y) is the closure of the caller.                  *)
cuex_labelling_empty == <<"lab">>
cuex_labelling_singleton(l, e) == <<"lab", <<"pair", l, e>>>>
cuex_labelling_insert(L, l, e) == build_put("lab", L, <<"pair", l, e>>)
cuex_labelling_card(L) == Len(L) - 1
cuex_labelling_find(L, l) ==
    IF l \in LabelsOf(Elems(L)) THEN ValueOf(CHOOSE p \in Elems(L) : LabelOf(p) = l) ELSE NULL
cuex_labelling_erase(L, l) == InOrder("lab", {p \in Elems(L) : LabelOf(p) # l})
cuex_labelling_find_erase(L, l) ==
    IF cuex_labelling_find(L, l) = NULL THEN [L |-> L, r |-> NULL]
    ELSE [L |-> cuex_labelling_erase(L, l), r |-> cuex_labelling_find(L, l)]
cuex_labelling_left_union(L0, L1) == build_put("lab", L0, L1)
cuex_labelling_disjoint_union(L0, L1) ==
    IF L0 = cuex_labelling_empty THEN L1
    ELSE IF LabelsOf(Elems(L0)) \cap LabelsOf(Elems(L1)) = {} THEN cuex_labelling_left_union(L0, L1) ELSE NULL

BothMerged(Merge(_, _), L0, L1) ==
    {<<"pair", l, Merge(cuex_labelling_find(L0, l), cuex_labelling_find(L1, l))>> :
        l \in LabelsOf(Elems(L0)) \cap LabelsOf(Elems(L1))}
UnionWith(L0, L1, merged) ==
    InOrder("lab", Without(Elems(L0), Elems(L1)) \cup Without(Elems(L1), Elems(L0)) \cup merged)
cuex_labelling_deep_union(Merge(_, _), L0, L1) == UnionWith(L0, L1, BothMerged(Merge, L0, L1))
cuex_labelling_deep_isecn(Merge(_, _), L0, L1) == InOrder("lab", BothMerged(Merge, L0, L1))
cuex_labelling_left_isecn(L0, L1) == cuex_labelling_deep_isecn(LAMBDA x, y : x, L0, L1)
WithValues(L, v) == InOrder("lab", {<<"pair", LabelOf(p), v[p]>> : p \in Elems(L)})
cuex_labelling_image_kv(L, F(_, _)) == WithValues(L, [p \in Elems(L) |-> F(LabelOf(p), ValueOf(p))])
cuex_labelling_image(L, F(_)) == cuex_labelling_image_kv(L, LAMBDA l, e : F(e))

RECURSIVE cuex_labelling_expand_all(_), cuex_labelling_contract_all(_)
ExpandedFactors(s) == FoldLeft(LAMBDA x, e : cuex_monoid_product(x, cuex_labelling_expand_all(e)), <<"seq">>, s)

cuex_labelling_expand_all(e) ==
    IF e[1] = "lab" THEN IF e = cuex_labelling_empty THEN e ELSE ExpandedFactors(cuex_comm_source(e))
    ELSE cuex_iterimg_operands(cuex_labelling_expand_all, e)

\* The labelled factors are gathered at the end; a labelled value that is no
\* factor keeps its value as it is.
ContractFactor(LM, e) ==
    CASE e[1] = "pair" ->
            [LM EXCEPT !.L = cuex_labelling_insert(@, e[2], cuex_labelling_contract_all(e[3]))]
      [] e[1] = "lab" -> [LM EXCEPT !.L = cuex_labelling_deep_union(cuex_monoid_product, @, e)]
      [] OTHER -> [LM EXCEPT !.M = cuex_monoid_product(@, cuex_labelling_contract_all(e))]

cuex_labelling_contract_all(e) ==
    IF e[1] = "seq"
    THEN LET LM == FoldLeft(ContractFactor, [L |-> cuex_labelling_empty, M |-> <<"seq">>], Tail(e))
         IN  IF LM.L = cuex_labelling_empty THEN LM.M
             ELSE IF LM.M = <<"seq">> THEN LM.L
             ELSE cuex_monoid_product(LM.M, LM.L)
    ELSE IF e[1] = "pair" THEN cuex_labelling_singleton(e[2], e[3])
    ELSE cuex_iterimg_operands(cuex_labelling_contract_all, e)
-----------------------------------------------------------------------------
(* Sets.                                                                   *)
cuex_singleton_set(e) == <<"set", e>>
cuex_set_insert(S, e) == build_put("set", S, e)
cuex_set_erase(S, e) == InOrder("set", Elems(S) \ {e})
cuex_set_union(S0, S1) == InOrder("set", Elems(S0) \cup Elems(S1))
cuex_set_isecn(S0, S1) == InOrder("set", Elems(S0) \cap Elems(S1))
cuex_set_contains(S, e) == e \in Elems(S)
cuex_set_subeq(S0, S1) == Elems(S0) \subseteq Elems(S1)
-----------------------------------------------------------------------------
(* cuex_intf_compound_finish.  A member that is missing is "none", one of  *)
(* the implementation "own", others say what they are made from.           *)
Prefers(f, view) == f \in {view, "both"}
Has(m) == m # "none"

Bug(I) ==
    \/ ~Has(I.comm_iter) /\ ~Has(I.ncomm_iter)
    \/ Prefers(I.prefer, "comm") /\ ~Has(I.comm_iter)
    \/ Prefers(I.prefer, "ncomm") /\ ~Has(I.ncomm_iter)
    \/ I.prefer = "none" /\ ~(Has(I.comm_iter) /\ Has(I.ncomm_iter))
    \/ ~Has(I.ncomm_iter) /\ (Has(I.ncomm_image) \/ Has(I.ncomm_build))
    \/ ~Has(I.comm_iter) /\ (Has(I.comm_image) \/ Has(I.comm_build) \/ Has(I.comm_union))
    \/ /\ Has(I.comm_iter) /\ ~Has(I.comm_image) /\ ~Has(I.comm_build)
       /\ Has(I.ncomm_image) \/ Has(I.ncomm_build)

cuex_intf_compound_finish(I) ==
    LET ni == ~Has(I.ncomm_image) /\ Has(I.ncomm_build)
        J == IF ni THEN [I EXCEPT !.ncomm_image = "build", !.nflags = {"filterable", "expansive"}] ELSE I
        K == IF Has(J.comm_iter) THEN J ELSE [J EXCEPT !.comm_iter = "ncomm"]
    IN  CASE Has(K.comm_image) -> K
          [] ~Has(K.comm_image) /\ Has(K.comm_build) ->
                [K EXCEPT !.comm_image = "build", !.cflags = {"filterable", "expansive"}]
          [] ~Has(K.comm_image) /\ ~Has(K.comm_build) /\ Has(K.ncomm_image) ->
                [K EXCEPT !.comm_image = "ncomm", !.cflags = @ \cup K.nflags]
          [] OTHER -> K
-----------------------------------------------------------------------------
cuex_meta(e) == IF IsVar(e) THEN Qcode[e[2]] ELSE e[1]
-----------------------------------------------------------------------------
(* Maps and visits.  A closure that is called for its result is an         *)
(* operator or function; one that may end the visit is the set of what it  *)
(* rejects, and the visit gives the calls made.                            *)
RECURSIVE cuex_max_arity(_), cuex_max_depth(_), depth_conj_vars(_), cuex_depthout_conj(_)
cuex_max_arity(e) ==
    Max({IF IsOpn(e) THEN cuex_opr_r(e) ELSE IF IsCompound(e) THEN 1 ELSE 0}
        \cup {cuex_max_arity(d) : d \in ToSet(cuex_pref_source(e))})
cuex_max_depth(e) ==
    IF IsOpn(e) THEN 1 + Max({0} \cup {cuex_max_depth(d) : d \in ToSet(Operands(e))}) ELSE 0

depth_conj_vars(e) ==
    IF IsOpn(e) THEN FlattenSeq(Image(depth_conj_vars, Operands(e))) ELSE IF IsVar(e) THEN <<e>> ELSE << >>
cuex_depth_conj_vars(e, rejected) == Until(depth_conj_vars(e), rejected, TRUE)
cuex_has_weak_var(e) == ~cuex_depth_conj_vars(e, {Var(x) : x \in {y \in DOMAIN Qcode : Qcode[y] = "w"}}).r
cuex_contains_var_in_pmap(e, pmap) == ~cuex_depth_conj_vars(e, DOMAIN pmap).r

cuex_depthout_conj(e) == FlattenSeq(Image(cuex_depthout_conj, Operands(e))) \o <<e>>
KindOf(e) == IF IsOpn(e) THEN "opn" ELSE IF ~IsVar(e) THEN "obj"
             ELSE IF Qcode[e[2]] \in {"u", "e", "w"} THEN Qcode[e[2]] ELSE "other"
cuex_stats(e) == [k \in {"opn", "obj", "u", "e", "w", "other"} |->
                    Len(SelectSeq(cuex_depthout_conj(e), LAMBDA d : KindOf(d) = k))]

RECURSIVE cuex_fallback_tran(_, _), cuex_depthout_tran(_, _), cuex_depth_tran_leaves(_, _), cuex_depth_tran_vars(_, _)
Call(f, e) == IF e \in DOMAIN f THEN f[e] ELSE e
cuex_fallback_tran(e, f) ==
    IF e \in DOMAIN f THEN f[e]
    ELSE IF IsOpn(e) THEN OPN_TRAN(e, LAMBDA d : cuex_fallback_tran(d, f)) ELSE e
cuex_depthout_tran(e, f) ==
    Call(f, IF IsOpn(e) THEN OPN_TRAN(e, LAMBDA d : cuex_depthout_tran(d, f)) ELSE e)
cuex_depth_tran_leaves(e, f) ==
    IF IsOpn(e) THEN OPN_TRAN(e, LAMBDA d : cuex_depth_tran_leaves(d, f)) ELSE Call(f, e)
cuex_depth_tran_vars(e, f) ==
    IF IsOpn(e) THEN OPN_TRAN(e, LAMBDA d : cuex_depth_tran_vars(d, f)) ELSE IF IsVar(e) THEN Call(f, e) ELSE e

RECURSIVE cuex_substitute_ex(_, _, _), cuex_substitute_pmap(_, _), cuex_contains_ex(_, _)
cuex_substitute_ex(e, var, value) ==
    IF e = var THEN value
    ELSE IF IsOpn(e) THEN OPN_TRAN(e, LAMBDA d : cuex_substitute_ex(d, var, value)) ELSE e
cuex_substitute_pmap(e, pmap) ==
    IF e \in DOMAIN pmap THEN pmap[e]
    ELSE IF IsOpn(e) THEN OPN_TRAN(e, LAMBDA d : cuex_substitute_pmap(d, pmap)) ELSE e
cuex_contains_ex(e, sub) == e = sub \/ \E d \in ToSet(Operands(e)) : cuex_contains_ex(d, sub)

\* The cache has the expressions met; a count goes on from it.
RECURSIVE count_unique_nodes(_, _)
count_unique_nodes(A, e) ==
    IF e \in A.cache THEN A
    ELSE FoldLeft(count_unique_nodes, [cache |-> A.cache \cup {e}, n |-> A.n + 1], Operands(e))
cuex_count_unique_nodes_except(e, cache) == count_unique_nodes([cache |-> cache, n |-> 0], e)
cuex_count_unique_nodes(e) == cuex_count_unique_nodes_except(e, {}).n
-----------------------------------------------------------------------------
(* Matching and generalising.                                              *)
NoMatch == [ok |-> FALSE, vm |-> << >>]
RECURSIVE cuex_match_pmap(_, _, _), MatchOperands(_, _, _, _)
MatchOperands(p, e, i, vm) ==
    IF i = cuex_opr_r(p) THEN [ok |-> TRUE, vm |-> vm]
    ELSE LET m == cuex_match_pmap(cuex_opn_at(p, i), cuex_opn_at(e, i), vm)
         IN  IF m.ok THEN MatchOperands(p, e, i + 1, m.vm) ELSE m
cuex_match_pmap(p, e, vm) ==
    CASE IsOpn(p) -> IF IsOpn(e) /\ cuex_opr_r(p) = cuex_opr_r(e) THEN MatchOperands(p, e, 0, vm) ELSE NoMatch
      [] IsVar(p) -> IF p \in DOMAIN vm THEN IF vm[p] = e THEN [ok |-> TRUE, vm |-> vm] ELSE NoMatch
                     ELSE [ok |-> TRUE, vm |-> [x \in DOMAIN vm \cup {p} |-> IF x = p THEN e ELSE vm[x]]]
      [] OTHER -> IF p = e THEN [ok |-> TRUE, vm |-> vm] ELSE NoMatch

RECURSIVE cuex_msg_unify(_, _), cuex_msg_unify_by_arr(_)
Gen(arr) == <<"gen", arr>>     \* what the closure makes of expressions that differ
cuex_msg_unify(e0, e1) ==
    IF e0 = e1 THEN e0
    ELSE IF cuex_meta(e0) = cuex_meta(e1) /\ IsOpn(e0)
    THEN cuex_opn_by_arr(e0[1], [j \in 1..cuex_opr_r(e0) |-> cuex_msg_unify(e0[j + 1], e1[j + 1])])
    ELSE Gen(<<e0, e1>>)

cuex_msg_unify_by_arr(arr) ==
    LET e == arr[1]
    IN  IF IsOpn(e)
        THEN IF \E d \in ToSet(arr) : cuex_meta(d) # cuex_meta(e) THEN Gen(arr)
             ELSE cuex_opn_by_arr(e[1], [j \in 1..cuex_opr_r(e) |->
                      cuex_msg_unify_by_arr([i \in DOMAIN arr |-> arr[i][j + 1]])])
        ELSE IF \E d \in ToSet(arr) : d # e THEN Gen(arr) ELSE e
-----------------------------------------------------------------------------
(* Searching from one side.                                                *)
FirstFound(s) == LET hits == {i \in DOMAIN s : s[i] # NULL} IN IF hits = {} THEN NULL ELSE s[Min(hits)]
RECURSIVE cuex_leftmost_with_meta(_, _), cuex_leftmost_var(_, _), cuex_rightmost_var(_, _)
cuex_leftmost_with_meta(e, meta) ==
    FirstFound(Image(LAMBDA d : cuex_leftmost_with_meta(d, meta), Operands(e))
               \o <<IF cuex_meta(e) = meta THEN e ELSE NULL>>)
cuex_leftmost_var(e, qcset) ==
    IF IsVar(e) THEN IF Qcode[e[2]] \in qcset THEN e ELSE NULL
    ELSE FirstFound(Image(LAMBDA d : cuex_leftmost_var(d, qcset), Operands(e)))
cuex_rightmost_var(e, qcset) ==
    IF IsVar(e) THEN IF Qcode[e[2]] \in qcset THEN e ELSE NULL
    ELSE FirstFound(Image(LAMBDA d : cuex_rightmost_var(d, qcset), Reverse(Operands(e))))

RECURSIVE cuex_opr_depth_at(_, _, _), binary_subex(_, _, _), cuex_binary_inject_left(_, _, _)
cuex_opr_depth_at(opr, i, e) ==
    IF cuex_meta(e) = opr THEN 1 + cuex_opr_depth_at(opr, i, cuex_opn_at(e, i)) ELSE 0
binary_subex(e, depth, i) == IF depth = 0 THEN e ELSE binary_subex(cuex_opn_at(e, i), depth - 1, i)
cuex_binary_left_subex(e, depth) == binary_subex(e, depth, 0)
cuex_binary_right_subex(e, depth) == binary_subex(e, depth, 1)
cuex_binary_inject_left(opr, e, lhs) ==
    IF cuex_meta(e) = opr
    THEN <<opr, cuex_binary_inject_left(opr, cuex_opn_at(e, 0), lhs), cuex_opn_at(e, 1)>>
    ELSE <<opr, lhs, e>>

\* Fault: factors further down are not moved.
cuex_opn2_right_Once(opr, x, y) ==
    IF cuex_meta(x) = opr THEN <<opr, cuex_opn_at(x, 0), <<opr, cuex_opn_at(x, 1), y>>>> ELSE <<opr, x, y>>

RECURSIVE cuex_opn2_left(_, _, _), cuex_opn2_right(_, _, _), cuex_left_idrjoin(_, _, _)
cuex_opn2_left(opr, x, y) ==
    IF cuex_meta(y) = opr
    THEN cuex_opn2_left(opr, cuex_opn2_left(opr, x, cuex_opn_at(y, 0)), cuex_opn_at(y, 1))
    ELSE <<opr, x, y>>
cuex_opn2_right(opr, x, y) ==
    IF cuex_meta(x) = opr
    THEN cuex_opn2_right(opr, cuex_opn_at(x, 0), cuex_opn2_right(opr, cuex_opn_at(x, 1), y))
    ELSE <<opr, x, y>>

\* cuex_left_idrjoin_charbuf; the names are the identifiers.
cuex_left_idrjoin(opr, e, delim) ==
    IF cuex_meta(e) # opr THEN IF IsIdr(e) THEN <<e>> ELSE NULL
    ELSE IF ~IsIdr(cuex_opn_at(e, 1)) THEN NULL
    ELSE LET front == cuex_left_idrjoin(opr, cuex_opn_at(e, 0), delim)
         IN  IF front = NULL THEN NULL ELSE front \o <<delim, cuex_opn_at(e, 1)>>

cuex_tuple_sub(t, begin) == <<"tuple">> \o SubSeq(Operands(t), begin + 1, cuex_opr_r(t))
cuex_tuple_sub_carg(carg, t, begin) == <<"tuple", carg>> \o SubSeq(Operands(t), begin + 1, cuex_opr_r(t))
cuex_tuple_append(t0, t1) == <<"tuple">> \o Operands(t0) \o Operands(t1)
-----------------------------------------------------------------------------
(* Subtrees all of whose leaves pass a test, as large as possible.         *)
Tran(e) == <<"f", e>>
RECURSIVE cuex_maxtrees_of_leaftest_iter(_, _), maxtrees_of_leaftest_tran(_, _)
cuex_maxtrees_of_leaftest_iter(e, test) ==
    IF ~IsOpn(e) THEN [acc |-> e \in test, got |-> << >>]
    ELSE LET c == Image(LAMBDA d : cuex_maxtrees_of_leaftest_iter(d, test), Operands(e))
             acc == \A i \in DOMAIN c : c[i].acc
         IN  [acc |-> acc,
              got |-> FlattenSeq(Image(LAMBDA x : x.got, c))
                      \o (IF acc THEN << >> ELSE Image(LAMBDA i : cuex_opn_at(e, i - 1),
                                                       SelectSeq([i \in DOMAIN c |-> i], LAMBDA i : c[i].acc)))]

maxtrees_of_leaftest_tran(e, test) ==
    IF ~IsOpn(e) THEN [all |-> e \in test, e |-> e]
    ELSE LET x == Image(LAMBDA d : maxtrees_of_leaftest_tran(d, test), Operands(e))
         IN  IF \A i \in DOMAIN x : x[i].all THEN [all |-> TRUE, e |-> e]
             ELSE [all |-> FALSE,
                   e |-> cuex_opn_by_arr(e[1], Image(LAMBDA y : IF y.all THEN Tran(y.e) ELSE y.e, x))]
cuex_maxtrees_of_leaftest_tran(e, test) ==
    LET x == maxtrees_of_leaftest_tran(e, test) IN IF x.all THEN Tran(x.e) ELSE x.e
-----------------------------------------------------------------------------
(* Free variables.  S has the variables bound so far, the calls made to    *)
(* the closure with what was bound then, and how many are made until the   *)
(* closure ends the visit.                                                 *)
RECURSIVE free_vars_conj(_, _)
\* Fault: what an outer operator has bound is forgotten as well.
Bound_Nested(S, vars, body) ==
    LET T == FoldLeft(free_vars_conj, [S EXCEPT !.excl = @ \cup vars], body)
    IN  [T EXCEPT !.excl = @ \ vars]

Bound(S, vars, body) ==
    LET T == FoldLeft(free_vars_conj, [S EXCEPT !.excl = @ \cup vars], body)
    IN  [T EXCEPT !.excl = @ \ (vars \ S.excl)]

free_vars_conj(S, e) ==
    IF ~S.ok THEN S
    ELSE IF IsOpn(e) /\ e[1] \in Scoping
    THEN LET var == cuex_opn_at(e, 0)
             body == Tail(Operands(e))
         IN  IF var[1] = "lab"
             THEN Bound(S, LabelsOf(Elems(var)), Image(ValueOf, cuex_comm_source(var)) \o body)
             ELSE Bound(S, {var}, body)
    ELSE IF IsVar(e)
    THEN IF Qcode[e[2]] \in S.qcset /\ e \notin S.excl
         THEN [S EXCEPT !.calls = Append(@, <<e, S.excl>>), !.ok = Len(S.calls) + 1 # S.stop]
         ELSE S
    ELSE FoldLeft(free_vars_conj, S, cuex_pref_source(e))

Start(qcset, excl, stop) == [qcset |-> qcset, excl |-> excl, stop |-> stop, calls |-> << >>, ok |-> TRUE]
cuex_free_vars_conj(e, qcset, excl, stop) == free_vars_conj(Start(qcset, excl, stop), e)
VarsCalled(S) == {c[1] : c \in ToSet(S.calls)}
cuex_free_vars_insert(e, qcset, excl, accu) == accu \cup VarsCalled(cuex_free_vars_conj(e, qcset, excl, 0))
cuex_free_vars_erase(e, qcset, excl, accu) == accu \ VarsCalled(cuex_free_vars_conj(e, qcset, excl, 0))
cuex_free_vars_count(e, qcset, excl) == Len(cuex_free_vars_conj(e, qcset, excl, 0).calls)

\* Of expressions without scoping operators.
RECURSIVE free_vars_tran(_, _)
free_vars_tran(e, f) ==
    IF IsVar(e) THEN Call(f, e) ELSE cuex_iterimg_operands(LAMBDA d : free_vars_tran(d, f), e)
Restricted(pmap, vars) == [x \in DOMAIN pmap \cap vars |-> pmap[x]]
cuex_free_vars_tran_pmap(e, pmap) ==
    free_vars_tran(e, Restricted(pmap, {Var(x) : x \in {y \in DOMAIN Qcode : Qcode[y] = "n"}}))

\* Identifiers become new variables, by what env already has for them.
QcodeOf == [uvw |-> "w", xyz |-> "u"]
NewVar(env, qcode) ==
    Var(Min({x \in DOMAIN Qcode : x > 10 /\ Qcode[x] = qcode /\ \A i \in DOMAIN env : env[i] # Var(x)}))
\* Fault: an identifier met again gets a new variable.
autoquantify_uvw_xyz_Anew(env, e) ==
    IF IsIdr(e) /\ Letter[e[2]] \in DOMAIN QcodeOf
    THEN [i \in DOMAIN env \cup {e} |-> IF i = e THEN NewVar(env, QcodeOf[Letter[e[2]]]) ELSE env[i]]
    ELSE env
autoquantify_uvw_xyz(env, e) ==
    IF IsIdr(e) /\ Letter[e[2]] \in DOMAIN QcodeOf /\ e \notin DOMAIN env
    THEN [i \in DOMAIN env \cup {e} |-> IF i = e THEN NewVar(env, QcodeOf[Letter[e[2]]]) ELSE env[i]]
    ELSE env
cuex_autoquantify_uvw_xyz(e, env) ==
    LET env1 == FoldLeft(autoquantify_uvw_xyz, env, cuex_depthout_conj(e))
    IN  [e |-> cuex_depthout_tran(e, env1), env |-> env1]

cuex_outmost_quantify_vars(opr, vars, e) == FoldLeft(LAMBDA d, x : <<opr, x, d>>, e, vars)
-----------------------------------------------------------------------------
(* Occurrences.                                                            *)
Label(e) == IF IsOpn(e) THEN <<e[1]>> ELSE e
Under(label, ms) ==
    [p \in {<< >>} \cup UNION {{<<i>> \o q : q \in DOMAIN ms[i]} : i \in DOMAIN ms} |->
        IF p = << >> THEN label ELSE ms[p[1]][Tail(p)]]
RECURSIVE Occ(_), Deep(_)
Occ(e) == Under(Label(e), Image(Occ, Operands(e)))
\* With the elements of compounds, and of labellings the values.
Deep(e) == Under(e, Image(Deep, cuex_pref_source(e)))

Subtree(m, p) == [q \in {SubSeq(r, Len(p) + 1, Len(r)) : r \in {r \in DOMAIN m : IsPrefix(p, r)}} |-> m[p \o q]]
Outermost(P) == {p \in P : \A q \in P : IsPrefix(q, p) => q = p}
Graft(m, P, by(_)) ==
    LET keep == {q \in DOMAIN m : ~\E p \in P : IsPrefix(p, q)}
        new == UNION {{<<p, q>> : q \in DOMAIN by(p)} : p \in P}
    IN  [r \in keep \cup {n[1] \o n[2] : n \in new} |->
            IF r \in keep THEN m[r] ELSE LET n == CHOOSE n \in new : n[1] \o n[2] = r IN by(n[1])[n[2]]]

Operator(l) == Len(l) = 1 /\ l[1] \in Oprs \cup {"tuple", "pair"}
Before(p, q) ==         \* in the order of a visit, operators first
    IF IsPrefix(p, q) THEN p # q
    ELSE ~IsPrefix(q, p) /\ LET i == Min({j \in DOMAIN p \cap DOMAIN q : p[j] # q[j]}) IN p[i] < q[i]
InVisit(P) == IF P = {} THEN << >> ELSE SetToSortSeq(P, Before)
VarPaths == {p \in DOMAIN ref : IsVar(ref[p])}

\* The occurrences of factors of a product by opr, and the leftmost one.
FactorPaths(m, opr) ==
    {p \in DOMAIN m : m[p] # <<opr>> /\ \A q \in DOMAIN m : IsPrefix(q, p) /\ q # p => m[q] = <<opr>>}

\* Occurrences below which all leaves pass the test.
Passing(test) == {p \in DOMAIN ref : \A q \in DOMAIN ref : IsPrefix(p, q) => Operator(ref[q]) \/ ref[q] \in test}
-----------------------------------------------------------------------------
Maps == {[x \in {Var(1)} |-> <<"f", Var(2)>>], [x \in {Var(1), Var(2)} |-> IF x = Var(1) THEN Var(2) ELSE Var(1)],
         [x \in {<<"f", Var(1)>>, <<"o", 1>>} |-> <<"k">>]}

Init == con \in Leaves /\ ref = Occ(con)

Becomes(e, m) ==
    /\ \/ con \in Leaves
       \/ Cardinality(DOMAIN m) <= MaxNodes
       \/ Cardinality(DOMAIN m) <= Cardinality(DOMAIN ref)
    /\ con' = e /\ ref' = m

Make ==
    \/ Becomes(<<"f", con>>, Under(<<"f">>, <<ref>>))
    \/ \E d \in Leaves : Becomes(<<"g", con, d>>, Under(<<"g">>, <<ref, Occ(d)>>))
    \/ \E d \in Leaves : Becomes(<<"g", d, con>>, Under(<<"g">>, <<Occ(d), ref>>))
    \/ \E V \in {<<Var(1)>>, <<Var(2), Var(1)>>} :
          Becomes(cuex_outmost_quantify_vars("q", V, con),
                  FoldLeft(LAMBDA m, x : Under(<<"q">>, <<Occ(x), m>>), ref, V))
    \/ \E L \in {l \in Leaves : l[1] = "lab"} : Becomes(<<"q", L, con>>, Under(<<"q">>, <<Occ(L), ref>>))

Substitute ==
    \/ \E x \in {Var(1), <<"f", Var(1)>>}, y \in {<<"k">>, <<"g", Var(1), Var(2)>>} :
          Becomes(cuex_substitute_ex(con, x, y),
                  Graft(ref, {p \in DOMAIN ref : Subtree(ref, p) = Occ(x)}, LAMBDA p : Occ(y)))
    \/ \E f \in Maps :
          LET at == Outermost({p \in DOMAIN ref : \E x \in DOMAIN f : Subtree(ref, p) = Occ(x)})
          IN  Becomes(cuex_substitute_pmap(con, f),
                      Graft(ref, at, LAMBDA p : Occ(f[CHOOSE x \in DOMAIN f : Subtree(ref, p) = Occ(x)])))

Associate ==
    \E d \in Exprs :
       LET F == Image(LAMBDA p : Subtree(Occ(d), p), InVisit(FactorPaths(Occ(d), "g")))
           left == InVisit(FactorPaths(ref, "g"))[1]
       IN  \/ Becomes(cuex_opn2_left("g", con, d), FoldLeft(LAMBDA m, n : Under(<<"g">>, <<m, n>>), ref, F))
           \/ Becomes(cuex_opn2_right("g", d, con), FoldLeft(LAMBDA m, n : Under(<<"g">>, <<n, m>>), ref, Reverse(F)))
           \/ Becomes(cuex_binary_inject_left("g", con, d),
                      Graft(ref, {left}, LAMBDA p : Under(<<"g">>, <<Occ(d), Subtree(ref, p)>>)))

Widen ==
    \E test \in {{Var(1), <<"o", 1>>}, {Var(2)}} :
        Becomes(cuex_maxtrees_of_leaftest_tran(con, test),
                Graft(ref, Outermost(Passing(test)), LAMBDA p : Under(<<"f">>, <<Subtree(ref, p)>>)))

Next == Make \/ Substitute \/ Associate \/ Widen
-----------------------------------------------------------------------------
(* The transformations make their changes at the occurrences they are      *)
(* meant for, and nowhere else.                                            *)
Occurrences == ref = Occ(con)

At(p) == Subtree(ref, p)
LabelMeta(l) == IF IsVar(l) THEN Qcode[l[2]] ELSE l[1]
LastOf(s) == s[Len(s)]

(* Counts, searches and visits agree with the occurrences: a visit makes   *)
(* its calls in order and ends with the first that is rejected.            *)
Searches ==
    LET vars == Image(LAMBDA p : ref[p], InVisit(VarPaths))
        Leading(i) == {k \in 0..Len(vars) : k = Len(vars) \/ vars[k + 1] \in i}
    IN  /\ cuex_max_depth(con) = Max({0} \cup {Len(p) + 1 : p \in {q \in DOMAIN ref : Operator(ref[q])}})
        /\ cuex_max_arity(con) =
              LET D == Deep(con)
              IN  Max({0} \cup {IF IsOpn(D[p]) THEN cuex_opr_r(D[p]) ELSE IF IsCompound(D[p]) THEN 1 ELSE 0 :
                                    p \in DOMAIN D})
        /\ \A R \in {{}, {Var(1)}, {Var(2), Var(3)}} :
              LET k == Min(Leading(R))
                  c == cuex_depth_conj_vars(con, R)
              IN  /\ c.r = (k = Len(vars))
                  /\ c.seen = IF c.r THEN vars ELSE SubSeq(vars, 1, k + 1)
        /\ cuex_has_weak_var(con) = \E p \in VarPaths : LabelMeta(ref[p]) = "w"
        /\ \A f \in Maps : cuex_contains_var_in_pmap(con, f) = \E p \in VarPaths : ref[p] \in DOMAIN f
        /\ \A k \in {"u", "w", "e", "other"} :
              cuex_stats(con)[k] = Cardinality({p \in VarPaths : LabelMeta(ref[p]) = k
                                                \/ (k = "other" /\ LabelMeta(ref[p]) \notin {"u", "w", "e"})})
        /\ cuex_stats(con).opn = Cardinality({p \in DOMAIN ref : Operator(ref[p])})
        /\ cuex_stats(con).opn + cuex_stats(con).obj + Len(vars) = Cardinality(DOMAIN ref)
        /\ cuex_count_unique_nodes(con) = Cardinality({At(p) : p \in DOMAIN ref})
        /\ \A d \in Exprs :
              /\ cuex_contains_ex(con, d) = \E p \in DOMAIN ref : At(p) = Occ(d)
              /\ LET n == cuex_count_unique_nodes_except(d, cuex_count_unique_nodes_except(con, {}).cache)
                 IN  n.n = Cardinality({Subtree(Occ(d), p) : p \in DOMAIN Occ(d)} \ {At(p) : p \in DOMAIN ref})
        /\ \A meta \in {"g", "f", "u"} :
              LET hits == {p \in DOMAIN ref : LabelMeta(ref[p]) = meta}
                  Innermost == {p \in hits : ~\E q \in hits : q # p /\ IsPrefix(p, q)}
                  r == cuex_leftmost_with_meta(con, meta)
              IN  IF hits = {} THEN r = NULL ELSE Occ(r) = At(InVisit(Innermost)[1])
        /\ \A Q \in {{"u"}, {"u", "w", "n"}} :
              LET hits == InVisit({p \in VarPaths : LabelMeta(ref[p]) \in Q})
              IN  /\ cuex_leftmost_var(con, Q) = IF hits = << >> THEN NULL ELSE ref[hits[1]]
                  /\ cuex_rightmost_var(con, Q) = IF hits = << >> THEN NULL ELSE ref[LastOf(hits)]
        /\ \A i \in {0, 1} :
              LET n == cuex_opr_depth_at("g", i, con)
                  spine == [j \in 1..n |-> i + 1]
              IN  /\ \A j \in 0..n : (ref[SubSeq(spine, 1, j)] = <<"g">>) = (j < n)
                  /\ Occ(binary_subex(con, n, i)) = At(spine)
        /\ \A test \in {{Var(1), <<"o", 1>>}, {Var(2)}} :
              LET r == cuex_maxtrees_of_leaftest_iter(con, test)
                  P == Outermost(Passing(test))
              IN  /\ r.acc = (<< >> \in P)
                  /\ \A d \in Exprs \cup Leaves :
                        Cardinality({i \in DOMAIN r.got : r.got[i] = d})
                          = Cardinality({p \in P \ {<< >>} : At(p) = Occ(d)})
                  /\ Len(r.got) = Cardinality(P \ {<< >>})

(* Names of a product associated to the left are joined in order, and of   *)
(* nothing else.                                                           *)
Joined ==
    LET F == InVisit(FactorPaths(ref, "g"))
        left == \A p \in DOMAIN ref : ref[p] = <<"g">> /\ p # << >> /\ (\A q \in DOMAIN ref : IsPrefix(q, p) => ref[q] = <<"g">>)
                    => LastOf(p) = 1
        r == cuex_left_idrjoin("g", con, "/")
    IN  IF left /\ \A i \in DOMAIN F : IsIdr(ref[F[i]])
        THEN r = [i \in 1..(2 * Len(F) - 1) |-> IF i % 2 = 0 THEN "/" ELSE ref[F[(i + 1) \div 2]]]
        ELSE r = NULL

(* A pattern matches if there are values for its variables that make it    *)
(* the expression, but for the names of operators, which are not compared. *)
Matches ==
    \A d \in Exprs :
        LET m == Occ(d)
            ok == /\ DOMAIN m \subseteq DOMAIN ref
                  /\ \A p \in DOMAIN m :
                        CASE Operator(m[p]) -> /\ Operator(ref[p])
                                               /\ {q \in DOMAIN m : Len(q) = Len(p) + 1 /\ IsPrefix(p, q)}
                                                  = {q \in DOMAIN ref : Len(q) = Len(p) + 1 /\ IsPrefix(p, q)}
                          [] IsVar(m[p]) -> \A q \in DOMAIN m : m[q] = m[p] => At(q) = At(p)
                          [] OTHER -> ref[p] = m[p]
            r == cuex_match_pmap(d, con, << >>)
        IN  /\ r.ok = ok
            /\ ok => \A p \in DOMAIN m : IsVar(m[p]) => Occ(r.vm[m[p]]) = At(p)
            /\ ok => cuex_match_pmap(d, con, r.vm).ok

RECURSIVE Ungen(_, _)
Ungen(e, i) == IF e[1] = "gen" THEN e[2][i] ELSE IF IsOpn(e) THEN OPN_TRAN(e, LAMBDA d : Ungen(d, i)) ELSE e

(* The most specific generalisation has both expressions as instances, and *)
(* generalises only where they differ; the two ways to compute it agree.   *)
Generalises ==
    \A d \in Exprs :
        LET r == cuex_msg_unify(con, d)
            m == Occ(r)
        IN  /\ Ungen(r, 1) = con /\ Ungen(r, 2) = d
            /\ \A p \in DOMAIN m : m[p][1] = "gen" => ref[p] # Occ(d)[p]
            /\ r = cuex_msg_unify_by_arr(<<con, d>>)
            /\ LET t == cuex_msg_unify_by_arr(<<con, d, con>>)
               IN  Occ(t) = [p \in DOMAIN m |-> IF m[p][1] # "gen" THEN m[p] ELSE Gen(<<m[p][2][1], m[p][2][2], m[p][2][1]>>)]

(* A variable is visited where it occurs and nothing above binds it, in    *)
(* order, with what is bound there, also in compounds; when the closure    *)
(* ends the visit, the set of bound variables is as it was.                *)
FreeVariables ==
    LET D == Deep(con)
        Binders(p) ==       \* occurrences of scoping operators that p is in the scope of
            {q \in DOMAIN D : /\ q # p /\ IsPrefix(q, p) /\ IsOpn(D[q]) /\ D[q][1] \in Scoping
                              /\ p[Len(q) + 1] = 1 => D[q][2][1] = "lab" /\ Len(p) > Len(q) + 1}
        BoundBy(q) == IF D[q][2][1] = "lab" THEN LabelsOf(Elems(D[q][2])) ELSE {D[q][2]}
        Outside(p) == \A q \in DOMAIN D :
                          q # p /\ IsPrefix(q, p) /\ IsOpn(D[q]) /\ D[q][1] \in Scoping => q \in Binders(p)
        BoundAt(p) == UNION {BoundBy(q) : q \in Binders(p)}
    IN  \A Q \in {{"u", "w", "n"}, {"e"}}, excl \in {{}, {Var(2)}}, stop \in {0, 1, 2} :
            LET free == InVisit({p \in DOMAIN D : /\ IsVar(D[p]) /\ Outside(p) /\ LabelMeta(D[p]) \in Q
                                                  /\ D[p] \notin excl \cup BoundAt(p)})
                calls == Image(LAMBDA p : <<D[p], excl \cup BoundAt(p)>>, free)
                r == cuex_free_vars_conj(con, Q, excl, stop)
                early == stop \in 1..Len(calls)
            IN  /\ r.calls = IF early THEN SubSeq(calls, 1, stop) ELSE calls
                /\ r.ok = ~early
                /\ r.excl = excl
                /\ stop = 0 =>
                      /\ cuex_free_vars_count(con, Q, excl) = Len(free)
                      /\ cuex_free_vars_insert(con, Q, excl, {Var(3)}) = {Var(3)} \cup {D[p] : p \in ToSet(free)}
                      /\ cuex_free_vars_erase(con, Q, excl, {Var(1), Var(3)})
                           = {Var(1), Var(3)} \ {D[p] : p \in ToSet(free)}

\* Replaced where a map has the label; only leaves or variables are.
Replaced(f, P) == Graft(ref, {p \in P : ref[p] \in DOMAIN f}, LAMBDA p : Occ(f[ref[p]]))
LeafPaths == {p \in DOMAIN ref : ~Operator(ref[p])}
HasScoping == \E p \in DOMAIN ref : ref[p][1] \in Scoping
SimpleMaps == {f \in Maps : \A x \in DOMAIN f : ~IsOpn(x)}

(* The transformations by a closure replace what they are meant to: whole  *)
(* subexpressions from outside or from inside, leaves, variables, and free *)
(* variables also in compounds.                                            *)
Transforms ==
    /\ \A f \in SimpleMaps :
          /\ Occ(cuex_depth_tran_leaves(con, f)) = Replaced(f, LeafPaths)
          /\ Occ(cuex_depth_tran_vars(con, f)) = Replaced(f, VarPaths)
          /\ cuex_depthout_tran(con, f) = cuex_depth_tran_leaves(con, f)
    /\ \A f \in Maps : cuex_fallback_tran(con, f) = cuex_substitute_pmap(con, f)
    /\ LET f == [x \in {<<"f", Var(1)>>, Var(2)} |-> IF x = Var(2) THEN Var(1) ELSE <<"k">>]
           d == cuex_depthout_tran(con, f)
       IN  \A p \in DOMAIN Occ(d) : Subtree(Occ(d), p) # Occ(<<"f", Var(1)>>) /\ Occ(d)[p] # Var(2)
    /\ ~HasScoping =>
          \A y \in {Var(3), Var(4)} :
              LET f == [x \in {Var(1), Var(4)} |-> IF x = Var(4) THEN y ELSE Var(2)]
                  D == Deep(con)
                  E == Deep(cuex_free_vars_tran_pmap(con, f))
              IN  (\A p \in DOMAIN D : D[p][1] # "set") =>
                  /\ DOMAIN E = DOMAIN D
                  /\ \A p \in DOMAIN D : IsVar(D[p]) => E[p] = IF D[p] = Var(4) THEN y ELSE D[p]

(* Identifiers become variables one to one, the same in two expressions    *)
(* with one environment, and others stay.                                  *)
Quantifies ==
    \A d \in Exprs :
        LET a == cuex_autoquantify_uvw_xyz(con, << >>)
            b == cuex_autoquantify_uvw_xyz(d, a.env)
        IN  /\ \A i, j \in DOMAIN b.env : b.env[i] = b.env[j] => i = j
            /\ \A i \in DOMAIN a.env : b.env[i] = a.env[i]
            /\ \A p \in DOMAIN ref : Occ(a.e)[p] = IF ref[p] \in DOMAIN a.env THEN a.env[ref[p]] ELSE ref[p]
            /\ \A p \in DOMAIN ref :
                  IsIdr(ref[p]) /\ Letter[ref[p][2]] \in DOMAIN QcodeOf
                    => LabelMeta(a.env[ref[p]]) = QcodeOf[Letter[ref[p][2]]]

Swap(p) == IF p[1] = "pair" /\ p[2] \in {<<"i", 0>>, <<"i", 1>>} THEN <<"pair", <<"i", 1 - p[2][2]>>, p[3]>> ELSE p
InValue(F(_), p) == <<"pair", LabelOf(p), F(ValueOf(p))>>
F1(e) == <<"f", e>>
F2(e) == IF IsVar(e) THEN <<"k">> ELSE e

(* The views of operands and elements: each has them all, an image by the  *)
(* identity is the expression itself, images compose, and the image of an  *)
(* operation in the view without order puts operands where it says.        *)
Views ==
    LET Id(x) == x
        Both(x) == F1(F2(x))
    IN  /\ \A view \in {"pref", "scomm", "fcomm"} :
              /\ cuex_iterimg_operands_view(view, Id, con) = con
              /\ Len(Source(view, con)) = cuex_arity(con)
              /\ \A failing \in {{}, {Var(1)}, {Pair(0, Var(1))}} :
                    LET r == cuex_iterA_operands_view(view, failing, con)
                    IN  /\ r.r = ~\E x \in ToSet(Source(view, con)) : x \in failing
                        /\ \A i \in 1..(Len(r.seen) - 1) : r.seen[i] \notin failing
              /\ \A k \in 0..1 :
                    LET src == Source(view, con)
                        n == IF k < Len(src) THEN k + 1 ELSE Len(src)
                    IN  cuex_iterAk_operands_view(view, {<<k, src[i]>> : i \in DOMAIN src}, con)
                          = [seen |-> [i \in 1..n |-> <<i - 1, src[i]>>], r |-> k >= Len(src)]
        /\ cuex_iterimg_operands(F1, cuex_iterimg_operands(F2, con)) = cuex_iterimg_operands(Both, con)
        /\ con[1] # "set" =>
              cuex_iterimg_operands_view("fcomm", LAMBDA p : InValue(F2, p), con) = cuex_iterimg_operands(F2, con)
        /\ IsOpn(con) /\ cuex_opr_r(con) = 2 =>
              cuex_iterimg_operands_view("fcomm", Swap, con) = <<con[1], con[3], con[2]>>
        /\ cuex_iterimgk_operands(LAMBDA k, d : F2(d), con) = cuex_iterimg_operands(F2, con)
        /\ IsOpn(con) =>
              LET Mirror(k, p) == <<"pair", <<"i", cuex_opr_r(con) - 1 - k>>, ValueOf(p)>>
              IN  cuex_iterimgk_operands_view("fcomm", Mirror, con) = <<con[1]>> \o Reverse(Operands(con))
        /\ con[1] = "set" => comm_build("set", cuex_comm_source(con)) = con
        /\ con[1] = "lab" => comm_build("lab", cuex_comm_source(con)) = con
        /\ LET t == <<"tuple">> \o Operands(con)
               u == <<"tuple", con>>
           IN  /\ \A i \in 0..cuex_opr_r(t) :
                     cuex_tuple_append(<<"tuple">> \o SubSeq(Operands(t), 1, i), cuex_tuple_sub(t, i)) = t
               /\ cuex_tuple_append(u, t) = cuex_tuple_sub_carg(con, t, 0)

(* Labellings are maps of which the first argument wins, unless values are *)
(* merged.  What was expanded to labelled factors is contracted again to   *)
(* what it was, but in a labelling of one label with labellings inside.    *)
MapOf(L) == [l \in LabelsOf(Elems(L)) |-> cuex_labelling_find(L, l)]
IsMap(L, S, f(_)) == DOMAIN MapOf(L) = S /\ \A l \in S : MapOf(L)[l] = f(l)
Labels == {<<"o", 1>>, <<"o", 2>>, Var(1)}
FlatLabellings ==
    {InOrder("lab", {<<"pair", l, m[l]>> : l \in DOMAIN m}) :
        m \in UNION {[S -> {<<"o", 1>>, <<"o", 3>>}] : S \in SUBSET Labels}}

LabellingsAreMaps ==
    \A L \in FlatLabellings :
        LET m == MapOf(L)
            S == DOMAIN m
        IN  /\ cuex_labelling_card(L) = Cardinality(S)
            /\ \A l \in Labels :
                  /\ IsMap(cuex_labelling_insert(L, l, <<"k">>), S \cup {l}, LAMBDA x : IF x \in S THEN m[x] ELSE <<"k">>)
                  /\ IsMap(cuex_labelling_erase(L, l), S \ {l}, LAMBDA x : m[x])
                  /\ LET r == cuex_labelling_find_erase(L, l)
                     IN  r.L = cuex_labelling_erase(L, l) /\ (r.r = NULL) = (l \notin S)
            /\ cuex_labelling_image(L, F1) = cuex_iterimg_operands(F1, L)
            /\ \A M \in FlatLabellings :
                  LET n == MapOf(M)
                      T == DOMAIN n
                      Pairs(x, y) == <<"g", x, y>>
                  IN  /\ IsMap(cuex_labelling_left_union(L, M), S \cup T, LAMBDA x : IF x \in S THEN m[x] ELSE n[x])
                      /\ comm_union_sinktor("lab", L, cuex_comm_source(M)) = cuex_labelling_left_union(L, M)
                      /\ cuex_labelling_disjoint_union(L, M)
                           = IF S \cap T = {} THEN cuex_labelling_left_union(L, M) ELSE NULL
                      /\ IsMap(cuex_labelling_left_isecn(L, M), S \cap T, LAMBDA x : m[x])
                      /\ IsMap(cuex_labelling_deep_isecn(Pairs, L, M), S \cap T, LAMBDA x : <<"g", m[x], n[x]>>)
                      /\ IsMap(cuex_labelling_deep_union(Pairs, L, M), S \cup T,
                               LAMBDA x : IF x \notin T THEN m[x] ELSE IF x \notin S THEN n[x] ELSE <<"g", m[x], n[x]>>)

RECURSIVE Nests(_)
Nests(e) ==     \* a labelling of one label has a labelling inside
    \/ e[1] = "lab" /\ Len(e) = 2 /\ \E p \in DOMAIN Deep(e[2][3]) : Deep(e[2][3])[p][1] = "lab"
    \/ \E d \in ToSet(cuex_pref_source(e)) : Nests(d)
Contracts ==
    \A L \in FlatLabellings, M \in {l \in FlatLabellings : Len(l) # 3}, l \in Labels :
        LET e == IF l = Var(1) THEN <<"f", M>> ELSE M
            N == cuex_labelling_insert(cuex_labelling_erase(L, l), l, e)
        IN  ~Nests(N) => cuex_labelling_contract_all(cuex_labelling_expand_all(N)) = N

Interfaces ==
    [prefer : {"none", "comm", "ncomm", "both"}, nflags : {{}, {"filterable"}}, cflags : {{}},
     ncomm_iter : {"none", "own"}, ncomm_image : {"none", "own"}, ncomm_build : {"none", "own"},
     comm_iter : {"none", "own"}, comm_image : {"none", "own"}, comm_build : {"none", "own"},
     comm_union : {"none", "own"}]

(* An interface of a compound that cuex_intf_compound_finish accepts has   *)
(* the sources its preferred view and the view without order need; an      *)
(* image goes through the elements that the iteration of that view gives;  *)
(* finishing an interface twice is harmless.                               *)
FinishedInterfaces ==
    \A I \in Interfaces :
        LET J == cuex_intf_compound_finish(I)
        IN  ~Bug(I) =>
            /\ Has(J.comm_iter)
            /\ Has(IF Prefers(J.prefer, "ncomm") THEN J.ncomm_iter ELSE J.comm_iter)
            /\ J.comm_image = "ncomm" => J.comm_iter = "ncomm"
            /\ J.comm_image \in {"own", "build"} => J.comm_iter = "own"
            /\ Has(J.ncomm_image) => Has(J.ncomm_iter) /\ Has(J.comm_image)
            /\ "expansive" \in J.nflags => Has(J.ncomm_build)
            /\ "expansive" \in J.cflags => Has(J.comm_build) \/ Has(J.ncomm_build)
            /\ ~Bug(J) /\ cuex_intf_compound_finish(J) = J
=============================================================================
