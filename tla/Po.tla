--------------------------------- MODULE Po ---------------------------------
(***************************************************************************)
(* cucon/po.c: a partial order as the graph of its immediate neighbours.   *)
(* Each element knows its immediate successors and predecessors, the last  *)
(* linked first, and a level that grows along the order.  Elements are     *)
(* numbers; 0 is the bottom and 1 the top element.  Hash sets of elements  *)
(* (pmap) are sets.                                                        *)
(***************************************************************************)
EXTENDS Integers, Sequences, FiniteSets, SequencesExt

CONSTANT MaxElts        \* bound on the elements

VARIABLES
    con,                    \* isuccs, ipreds and level of each element
    ref                     \* lt, the pairs e0 before e1 of the order; ret, what the last
                            \* constraint returned and what it should have

Q == INSTANCE Heaps WITH ReduceAbove <- 8, Elems <- {}, Pri <- << >>, Pris <- {}, Keep <- {}
bot == 0
top == 1
Elts(po) == DOMAIN po.level
Max2(x, y) == IF x > y THEN x ELSE y

cucon_po_cct_2elt_cct ==
    [isuccs |-> [e \in {bot, top} |-> IF e = bot THEN <<top>> ELSE << >>],
     ipreds |-> [e \in {bot, top} |-> IF e = top THEN <<bot>> ELSE << >>],
     level |-> [e \in {bot, top} |-> e]]

Linked(po, e0, e1) == [po EXCEPT !.isuccs[e0] = <<e1>> \o @, !.ipreds[e1] = <<e0>> \o @]
Unlinked(po, e0, e1) ==
    [po EXCEPT !.isuccs[e0] = SelectSeq(@, LAMBDA x : x # e1),
               !.ipreds[e1] = SelectSeq(@, LAMBDA x : x # e0)]

RECURSIVE po_update_level_to(_, _, _)
RaiseSuccs(po, e, level) ==
    FoldLeft(LAMBDA p, s : IF p.level[s] < level THEN po_update_level_to(p, s, level) ELSE p,
             po, po.isuccs[e])
po_update_level_to(po, e, level) == RaiseSuccs([po EXCEPT !.level[e] = level], e, level + 1)
po_update_level(po, e) ==
    LET level == 1 + FoldLeft(LAMBDA l, p : Max2(l, po.level[p]), 0, po.ipreds[e])
    IN  RaiseSuccs([po EXCEPT !.level[e] = level], e, level + 1)

cucon_po_insert_cct(po, e) ==
    LET new(f, v) == [x \in Elts(po) \cup {e} |-> IF x = e THEN v ELSE f[x]]
        alone == [isuccs |-> new(po.isuccs, << >>), ipreds |-> new(po.ipreds, << >>),
                  level |-> new(po.level, 0)]
    IN  po_update_level(Linked(Linked(alone, bot, e), e, top), e)
-----------------------------------------------------------------------------
(* Searches.  An accumulator a has found, whether the search is over, and  *)
(* seen, the elements inserted into the set the search was given.          *)
RECURSIVE po_prec_collect_uspan(_, _, _, _), po_prec(_, _, _, _)
Searched(po, e0, e1, acc, Deeper(_, _)) ==
    FoldLeft(LAMBDA a, e :
                 IF a.found \/ e = e1 THEN [a EXCEPT !.found = TRUE]
                 ELSE IF e \in a.seen THEN a
                 ELSE Deeper(e, [a EXCEPT !.seen = @ \cup {e}]),
             acc, po.isuccs[e0])
po_prec_collect_uspan(po, e0, e1, acc) ==
    Searched(po, e0, e1, acc, LAMBDA e, a : po_prec_collect_uspan(po, e, e1, a))
po_prec(po, e0, e1, acc) ==
    IF po.level[e0] >= po.level[e1] THEN acc
    ELSE Searched(po, e0, e1, acc, LAMBDA e, a : po_prec(po, e, e1, a))

NotFound == [found |-> FALSE, seen |-> {}]
cucon_po_prec(po, e0, e1) == po_prec(po, e0, e1, NotFound).found
cucon_po_preceq(po, e0, e1) == e0 = e1 \/ cucon_po_prec(po, e0, e1)

\* The links from e and below to elements of rm; a has the order and lspan.
RECURSIVE po_for_preceq_remove_succs_in_pmap(_, _, _)
po_for_preceq_remove_succs_in_pmap(e, rm, acc) ==
    LET cut == FoldLeft(LAMBDA p, s : IF s \in rm THEN Unlinked(p, e, s) ELSE p,
                        acc.po, acc.po.isuccs[e])
    IN  FoldLeft(LAMBDA a, p :
                     IF p \in a.lspan THEN a
                     ELSE po_for_preceq_remove_succs_in_pmap(p, rm, [a EXCEPT !.lspan = @ \cup {p}]),
                 [acc EXCEPT !.po = cut], cut.ipreds[e])

Cut(po, e0, rm) == po_for_preceq_remove_succs_in_pmap(e0, rm, [po |-> po, lspan |-> {}]).po
cucon_po_constrain_prec(po, e0, e1) ==
    IF e0 = e1 THEN [ret |-> FALSE, po |-> po]
    ELSE IF cucon_po_prec(po, e0, e1) THEN [ret |-> TRUE, po |-> po]
    ELSE LET up == po_prec_collect_uspan(po, e1, e0, NotFound)
         IN  IF up.found THEN [ret |-> FALSE, po |-> po]
             ELSE [ret |-> TRUE,
                   po |-> po_update_level(Linked(Cut(po, e0, up.seen \cup {e1}), e0, e1), e1)]
-----------------------------------------------------------------------------
(* Spans and ranges.                                                       *)
RECURSIVE cucon_po_lspan_accu(_, _, _), cucon_po_uspan_accu(_, _, _), conj_lspan_helper(_, _, _)
cucon_po_lspan_accu(po, max, accum) ==
    IF max \in accum THEN accum
    ELSE FoldLeft(LAMBDA a, p : cucon_po_lspan_accu(po, p, a), accum \cup {max}, po.ipreds[max])
cucon_po_uspan_accu(po, min, accum) ==
    IF min \in accum THEN accum
    ELSE FoldLeft(LAMBDA a, s : cucon_po_uspan_accu(po, s, a), accum \cup {min}, po.isuccs[min])
cucon_po_lspan(po, max) == cucon_po_lspan_accu(po, max, {})
cucon_po_uspan(po, min) == cucon_po_uspan_accu(po, min, {})
cucon_po_lspan_isecn(po, max, S) == cucon_po_lspan(po, max) \cap S
cucon_po_uspan_isecn(po, min, S) == cucon_po_uspan(po, min) \cap S

\* What cb is called with until it does not hold, in this order; ok, the result.
\* cb holds except for the elements of a.bad.
conj_lspan_helper(po, elt, acc) ==
    IF ~acc.ok \/ elt \in ToSet(acc.calls) THEN acc
    ELSE FoldLeft(LAMBDA a, p : conj_lspan_helper(po, p, a),
                  [acc EXCEPT !.calls = Append(@, elt), !.ok = elt \notin acc.bad], po.ipreds[elt])
cucon_po_conj_lspan(po, span, bad) ==
    FoldLeft(LAMBDA a, e : conj_lspan_helper(po, e, a), [calls |-> << >>, ok |-> TRUE, bad |-> bad], span)

\* reach is 0 for elements known not to be above low; the walk below an element
\* ends where it meets low.
RECURSIVE po_for_open_range_dw(_, _, _, _)
po_for_open_range_dw(po, low, high, acc) ==
    LET step(a, e) ==
            IF a.met THEN a
            ELSE IF e = low THEN [a EXCEPT !.met = TRUE, !.reach = TRUE]
            ELSE IF e \in a.visited THEN [a EXCEPT !.reach = @ \/ e \in ToSet(a.calls)]
            ELSE LET below == po_for_open_range_dw(po, low, e, [a EXCEPT !.visited = @ \cup {e}])
                 IN  [a EXCEPT !.visited = below.visited,
                               !.reach = @ \/ below.reach,
                               !.calls = IF below.reach THEN Append(below.calls, e) ELSE below.calls]
    IN  FoldLeft(step, [acc EXCEPT !.met = FALSE, !.reach = FALSE], po.ipreds[high])
RangeWalk(po, low, high) ==
    po_for_open_range_dw(po, low, high, [met |-> FALSE, reach |-> FALSE, visited |-> {}, calls |-> << >>])
cucon_po_iter_open_range(po, low, high) == RangeWalk(po, low, high).calls
IfReached(po, low, high, ends) == IF RangeWalk(po, low, high).reach THEN ends ELSE << >>
cucon_po_iter_left_range(po, min, high) ==
    cucon_po_iter_open_range(po, min, high) \o IfReached(po, min, high, <<min>>)
cucon_po_iter_right_range(po, low, max) ==
    cucon_po_iter_open_range(po, low, max) \o IfReached(po, low, max, <<max>>)
cucon_po_iter_closed_range(po, min, max) ==
    IF min = max THEN <<min>>
    ELSE cucon_po_iter_open_range(po, min, max) \o IfReached(po, min, max, <<min, max>>)

\* S gets elements; yes are those visited that were found to be in the range.
RECURSIVE po_open_range_accu(_, _, _, _)
po_open_range_accu(po, low, high, acc) ==
    LET step(a, succ) ==
            IF a.over THEN a
            ELSE IF succ = high THEN [a EXCEPT !.over = TRUE, !.ret = TRUE]
            ELSE LET b == IF succ \in a.visit THEN a
                          ELSE LET c == po_open_range_accu(po, succ, high, [a EXCEPT !.visit = @ \cup {succ}])
                               IN  [a EXCEPT !.visit = c.visit, !.S = c.S,
                                             !.yes = IF c.ret THEN c.yes \cup {succ} ELSE c.yes]
                 IN  IF succ \in b.yes THEN [b EXCEPT !.ret = TRUE, !.S = @ \cup {succ}] ELSE b
    IN  IF po.level[low] >= po.level[high] THEN [acc EXCEPT !.ret = TRUE]
        ELSE FoldLeft(step, [acc EXCEPT !.over = FALSE, !.ret = FALSE], po.isuccs[low])
cucon_po_open_range_accu(po, low, high, S) ==
    po_open_range_accu(po, low, high, [over |-> FALSE, ret |-> FALSE, visit |-> {}, yes |-> {}, S |-> S])
cucon_po_open_range(po, low, high) == cucon_po_open_range_accu(po, low, high, {}).S

\* cache has the elements visited; those of them in range are in the range.
RECURSIVE po_closed_range_and_succs(_, _, _, _)
Beyond(po, max, acc) ==
    LET new == ToSet(po.isuccs[max]) \ acc.cache
    IN  [acc EXCEPT !.range = @ \cup {max}, !.cache = @ \cup new, !.succs = @ \cup new, !.ret = TRUE]
po_closed_range_and_succs(po, min, max, acc) ==
    LET step(a, succ) ==
            IF succ \in a.cache
            THEN IF succ \in a.range THEN [a EXCEPT !.ret = TRUE]
                 ELSE [a EXCEPT !.rm = @ \cup {succ}]
            ELSE LET b == po_closed_range_and_succs(po, succ, max, [a EXCEPT !.cache = @ \cup {succ}])
                     c == [a EXCEPT !.cache = b.cache, !.range = b.range, !.succs = b.succs]
                 IN  IF b.ret THEN [c EXCEPT !.ret = TRUE] ELSE [c EXCEPT !.ins = @ \cup {succ}]
        done == FoldLeft(step, [acc EXCEPT !.ret = FALSE, !.ins = {}, !.rm = {}], po.isuccs[min])
    IN  IF min = max THEN Beyond(po, max, acc)
        ELSE IF done.ret THEN [done EXCEPT !.range = @ \cup {min}, !.succs = @ \cup done.ins]
        ELSE [done EXCEPT !.succs = @ \ done.rm]
cucon_po_closed_range_and_succs(po, min, max) ==
    po_closed_range_and_succs(po, min, max,
        [ret |-> FALSE, range |-> {}, succs |-> {}, cache |-> {}, ins |-> {}, rm |-> {}])
-----------------------------------------------------------------------------
(* Walks by level, with the heap of priq.c.                                *)
Levels(po, sign) == [e \in Elts(po) |-> sign * po.level[e]]
RECURSIVE TopoWalk(_, _, _, _)
TopoWalk(next, e, q, processed) ==
    LET new == SelectSeq(next[e], LAMBDA x : x \notin processed)
        r == FoldLeft(LAMBDA p, x : Q!cucon_priq_insert(p, x), q, new)
    IN  IF r.count = 0 THEN <<e>>
        ELSE <<e>> \o TopoWalk(next, r.arr[1], Q!cucon_priq_pop_front(r), processed \cup ToSet(new))
cucon_po_topological_succs(po, e) ==
    TopoWalk(po.isuccs, e, Q!cucon_priq_init(TRUE, Levels(po, -1)), {})
\* The comparison is the same one as for the successors.
cucon_po_topological_preds(po, e) ==
    TopoWalk(po.ipreds, e, Q!cucon_priq_init(TRUE, Levels(po, -1)), {})

\* R maps elements met to sets of elements below which have several successors.
RECURSIVE LjWalk(_, _, _)
LjWalk(po, q, R) ==
    LET elt == q.arr[1]
        lj == R[elt] \cup (IF Len(po.isuccs[elt]) > 1 THEN {elt} ELSE {})
        step(a, s) ==
            IF s \notin DOMAIN a.R
            THEN [R |-> [x \in DOMAIN a.R \cup {s} |-> IF x = s THEN lj ELSE a.R[x]],
                  q |-> Q!cucon_priq_insert(a.q, s)]
            ELSE IF lj \subseteq a.R[s] THEN a
            ELSE [R |-> [a.R EXCEPT ![s] = @ \cup lj], q |-> Q!cucon_priq_insert(a.q, s)]
        b == FoldLeft(step, [R |-> R, q |-> Q!cucon_priq_pop_front(q)], po.isuccs[elt])
    IN  IF q.count = 0 THEN R ELSE LjWalk(po, b.q, b.R)
cucon_po_ucollect_reachable_ljunctions(po, elt) ==
    LjWalk(po, Q!cucon_priq_insert(Q!cucon_priq_init(TRUE, Levels(po, -1)), elt), [x \in {elt} |-> {}])
-----------------------------------------------------------------------------
(* Pruning.                                                                *)
RECURSIVE po_pruned_lspanning_accu(_, _, _)
po_pruned_lspanning_accu(po, elt, acc) ==
    FoldLeft(LAMBDA a, s :
                 IF s \in a.uspan THEN [a EXCEPT !.pruned = @ \ {s}]
                 ELSE po_pruned_lspanning_accu(po, s, [a EXCEPT !.uspan = @ \cup {s}]),
             acc, po.isuccs[elt])
\* S in the order that the hash table gives.
cucon_po_pruned_lspanning(po, S) ==
    FoldLeft(LAMBDA a, e :
                 IF e \in a.uspan THEN a
                 ELSE po_pruned_lspanning_accu(po, e, [pruned |-> a.pruned \cup {e}, uspan |-> a.uspan \cup {e}]),
             [pruned |-> {}, uspan |-> {}], S).pruned

RECURSIVE PruneTo(_, _, _)
PruneTo(next, S, elt) ==
    LET a == FoldLeft(LAMBDA b, s : IF s \in b.S THEN [S |-> PruneTo(next, b.S, s), last |-> FALSE] ELSE b,
                      [S |-> S, last |-> TRUE], next[elt])
    IN  IF a.last THEN a.S ELSE a.S \ {elt}
cucon_po_connected_prune_to_max(po, S, elt) == PruneTo(po.isuccs, S, elt)
cucon_po_connected_prune_to_min(po, S, elt) == PruneTo(po.ipreds, S, elt)
cucon_po_inf_of_list(po, L) ==
    IF Len(L) = 1 THEN ToSet(L)
    ELSE cucon_po_connected_prune_to_max(po,
             FoldLeft(LAMBDA R, e : cucon_po_lspan_isecn(po, e, R), cucon_po_lspan(po, L[1]), Tail(L)), bot)
cucon_po_sup_of_list(po, L) ==
    IF Len(L) = 1 THEN ToSet(L)
    ELSE cucon_po_connected_prune_to_min(po,
             FoldLeft(LAMBDA R, e : cucon_po_uspan_isecn(po, e, R), cucon_po_uspan(po, L[1]), Tail(L)), top)

\* Where the client's function puts an element with respect to a range.  An
\* accumulator has the elements classified so far, cache.
RECURSIVE po_dcollect_range(_, _, _, _), po_dcollect_range_and_succs(_, _, _, _), po_ucollect_preds(_, _, _, _)
po_dcollect_range(po, cmp, high, acc) ==
    FoldLeft(LAMBDA a, e :
                 IF e \in a.cache THEN a
                 ELSE LET b == [a EXCEPT !.cache = @ \cup {e}]
                      IN  IF cmp[e] = "eq" THEN po_dcollect_range(po, cmp, e, b) ELSE b,
             [acc EXCEPT !.range = @ \cup {high}], po.ipreds[high])
po_dcollect_range_and_succs(po, cmp, high, acc) ==
    LET step(a, e) ==
            IF e \in a.cache THEN [a EXCEPT !.have = @ \/ cmp[e] = "succ"]
            ELSE LET b == [a EXCEPT !.cache = @ \cup {e}]
                 IN  IF cmp[e] = "prec"
                     THEN [po_dcollect_range_and_succs(po, cmp, e, b) EXCEPT !.have = TRUE]
                     ELSE IF cmp[e] = "eq" THEN po_dcollect_range(po, cmp, e, b)
                     ELSE b
        done == FoldLeft(step, [acc EXCEPT !.have = FALSE], po.ipreds[high])
    IN  IF done.have THEN done ELSE [done EXCEPT !.succs = @ \cup {high}]
po_ucollect_preds(po, cmp, low, acc) ==
    LET step(a, e) ==
            IF cmp[e] # "prec" THEN [a EXCEPT !.cache = @ \cup {e}]
            ELSE IF e \in a.cache THEN [a EXCEPT !.have = TRUE]
            ELSE [po_ucollect_preds(po, cmp, e, [a EXCEPT !.cache = @ \cup {e}]) EXCEPT !.have = TRUE]
        done == FoldLeft(step, [acc EXCEPT !.have = FALSE], po.isuccs[low])
    IN  IF done.have THEN done ELSE [done EXCEPT !.preds = @ \cup {low}]
cucon_po_range_and_bounds_of_fn(po, cmp) ==
    LET none == [range |-> {}, preds |-> {}, succs |-> {}, cache |-> {top}, have |-> FALSE]
        down == CASE cmp[top] = "eq" -> po_dcollect_range(po, cmp, top, none)
                  [] cmp[top] = "prec" -> po_dcollect_range_and_succs(po, cmp, top, none)
        both == [down EXCEPT !.cache = @ \cup {bot}]
    IN  IF cmp[bot] = "succ" THEN po_ucollect_preds(po, cmp, bot, both) ELSE both
-----------------------------------------------------------------------------
Init == con = cucon_po_cct_2elt_cct /\ ref = [lt |-> {<<bot, top>>}, ret |-> <<TRUE, TRUE>>]

Insert ==
    LET e == Cardinality(Elts(con))
    IN  /\ e < MaxElts
        /\ con' = cucon_po_insert_cct(con, e)
        /\ ref' = [ref EXCEPT !.lt = @ \cup {<<bot, e>>, <<e, top>>}]

Before(e) == {x \in Elts(con) : <<x, e>> \in ref.lt}
After(e) == {x \in Elts(con) : <<e, x>> \in ref.lt}
Constrain(e0, e1) ==
    LET r == cucon_po_constrain_prec(con, e0, e1)
        may == e0 # e1 /\ <<e1, e0>> \notin ref.lt
    IN  /\ con' = r.po
        /\ ref' = [lt |-> IF may THEN ref.lt \cup ((Before(e0) \cup {e0}) \X (After(e1) \cup {e1})) ELSE ref.lt,
                   ret |-> <<r.ret, may>>]

Next == Insert \/ \E e0, e1 \in Elts(con) : Constrain(e0, e1)
-----------------------------------------------------------------------------
Between(x, y) == After(x) \cap Before(y)
RECURSIVE Height(_)
Height(e) == IF e = bot THEN 0 ELSE 1 + Max(LET H(x) == Height(x) IN {H(x) : x \in Before(e)})

(* Whatever constraints were imposed, in whatever order, the links are     *)
(* those between immediate neighbours, in both directions, and no others;  *)
(* only the first one, from bottom to top, stays until there is the first  *)
(* constraint among other elements.  The level of an element is the length *)
(* of the longest chain up to it, as cucon_po_depth says, and a constraint *)
(* is refused exactly if it would close a cycle.                           *)
Unconstrained == \A p \in ref.lt : p[1] = bot \/ p[2] = top
Reduced ==
    /\ \A x, y \in Elts(con) :
        /\ y \in ToSet(con.isuccs[x]) <=>
               <<x, y>> \in ref.lt /\ (Between(x, y) = {} \/ (<<x, y>> = <<bot, top>> /\ Unconstrained))
        /\ y \in ToSet(con.isuccs[x]) <=> x \in ToSet(con.ipreds[y])
    /\ \A x \in Elts(con) : IsInjective(con.isuccs[x]) /\ IsInjective(con.ipreds[x])
    /\ \A x \in Elts(con) : con.level[x] = Height(x)
    /\ ref.ret[1] = ref.ret[2]

(* Comparisons, spans and ranges are those of the order.                   *)
Minimal(S) == {x \in S : Before(x) \cap S = {}}
Maximal(S) == {x \in S : After(x) \cap S = {}}
Once(s, S) == IsInjective(s) /\ ToSet(s) = S
Ordered ==
    /\ \A x, y \in Elts(con) :
        /\ cucon_po_prec(con, x, y) <=> <<x, y>> \in ref.lt
        /\ cucon_po_preceq(con, x, y) <=> x = y \/ <<x, y>> \in ref.lt
    /\ \A x \in Elts(con) :
        /\ cucon_po_lspan(con, x) = Before(x) \cup {x}
        /\ cucon_po_uspan(con, x) = After(x) \cup {x}
        /\ Once(cucon_po_topological_preds(con, x), Before(x) \cup {x})
        /\ LET s == cucon_po_topological_succs(con, x)
           IN  /\ Once(s, After(x) \cup {x})
               /\ \A i, j \in DOMAIN s : <<s[i], s[j]>> \in ref.lt => i < j

LowerBounds(L) == {x \in Elts(con) : \A i \in DOMAIN L : x = L[i] \/ <<x, L[i]>> \in ref.lt}
UpperBounds(L) == {x \in Elts(con) : \A i \in DOMAIN L : x = L[i] \/ <<L[i], x>> \in ref.lt}

(* The infimums and supremums of two elements are among the bounds that    *)
(* are returned for them.                                                  *)
Bounds ==
    \A L \in Elts(con) \X Elts(con) :
        LET inf == cucon_po_inf_of_list(con, L)
            sup == cucon_po_sup_of_list(con, L)
        IN  /\ Maximal(LowerBounds(L)) \subseteq inf /\ inf \subseteq LowerBounds(L)
            /\ Minimal(UpperBounds(L)) \subseteq sup /\ sup \subseteq UpperBounds(L)

(* The ranges between two elements, and what is just above a range.        *)
(* cucon_po_open_range takes an element of the level of the upper end, or  *)
(* more, for the upper end, so that it does not return the range which     *)
(* po.h promises but also elements beside it, if there are such above the  *)
(* lower end: only then, and otherwise the range.                          *)
Closed(x, y) == Between(x, y) \cup {x, y}
Ranges ==
    /\ \A x, y \in Elts(con) :
        LET R == IF <<x, y>> \in ref.lt THEN Closed(x, y) ELSE {}
        IN  /\ Once(cucon_po_iter_open_range(con, x, y), R \ {x, y})
            /\ Once(cucon_po_iter_left_range(con, x, y), R \ {y})
            /\ Once(cucon_po_iter_right_range(con, x, y), R \ {x})
            /\ Once(cucon_po_iter_closed_range(con, x, y), IF x = y THEN {x} ELSE R)
    /\ \A L \in ref.lt :
        LET open == cucon_po_open_range_accu(con, L[1], L[2], {})
            closed == cucon_po_closed_range_and_succs(con, L[1], L[2])
            R == Closed(L[1], L[2])
        IN  /\ open.ret /\ open.S \cap Before(L[2]) = Between(L[1], L[2])
            /\ open.S \subseteq After(L[1])
            /\ After(L[1]) \subseteq R \cup After(L[2]) => open.S = Between(L[1], L[2])
            /\ closed.ret /\ closed.range = R
            /\ closed.succs = Minimal(UNION {After(x) : x \in R} \ R)

(* Each element above x is given those from x up to it where ways up part, *)
(* although an element may be given more after it was left.                *)
Junctions ==
    \A x \in Elts(con) :
        LET R == cucon_po_ucollect_reachable_ljunctions(con, x)
        IN  /\ DOMAIN R = After(x) \cup {x}
            /\ R[x] = {}
            /\ \A y \in After(x) : R[y] = {z \in Between(x, y) \cup {x} : Len(con.isuccs[z]) > 1}

(* Whatever order a hash table gives elements in, pruning leaves those     *)
(* that have no other one below, and a conjunction over what is below them *)
(* asks for each element once, unless one before has ended it.             *)
Some == {s \in UNION {[1..k -> Elts(con) \ {bot, top}] : k \in 1..3} : IsInjective(s)}
Pruned ==
    \A s \in Some :
        /\ cucon_po_pruned_lspanning(con, s) = Minimal(ToSet(s))
        /\ \A bad \in {{}} \cup {{b} : b \in Before(s[1])} :
            LET r == cucon_po_conj_lspan(con, s, bad)
                below == UNION {Before(x) \cup {x} : x \in ToSet(s)}
            IN  /\ r.ok <=> bad \cap below = {}
                /\ IsInjective(r.calls) /\ ToSet(r.calls) \subseteq below
                /\ r.ok => ToSet(r.calls) = below

(* A range that a function describes is found, and the elements just above *)
(* it; below it, no more than the bottom element.                          *)
Classified ==
    ~Unconstrained =>
    \A L \in ref.lt \cup {<<x, x>> : x \in Elts(con)} :
        LET R == Closed(L[1], L[2])
            cmp == [e \in Elts(con) |-> IF e \in R THEN "eq" ELSE IF <<L[2], e>> \in ref.lt THEN "prec"
                                        ELSE IF <<e, L[1]>> \in ref.lt THEN "succ" ELSE "unord"]
            r == cucon_po_range_and_bounds_of_fn(con, cmp)
        IN  /\ r.range = R
            /\ Minimal(After(L[2])) \subseteq r.succs /\ r.succs \subseteq After(L[2])
            /\ r.preds \subseteq {bot}

Gathered ==
    /\ Bounds
    /\ Ranges
    /\ Junctions
    /\ Pruned
    /\ Classified

=============================================================================
