------------------------------- MODULE Atree -------------------------------
(***************************************************************************)
(* cuex/atree.c: hash-consed binary tries whose leaves are the elements,   *)
(* keyed by a word, and what cuex/set.c, cuex/labelling.c and              *)
(* cuex/semilattice.c make of them.  A node has the middle of a span as    *)
(* its centre and the elements below and above it as its subtrees, neither *)
(* of which is empty.  Keys are addresses of expressions: they are even,   *)
(* and in the lower half of the words.                                     *)
(***************************************************************************)
EXTENDS WordKey

CONSTANTS
    Keys, Values,       \* of the elements: an element has one of each
    Operands            \* the maps from keys to values it is combined with

VARIABLES
    con,                \* the tree
    ref                 \* the map it stands for

Null == [null |-> TRUE]
Elem(key, val) == [key |-> key, val |-> val]
node_new(centre, left, right) == [centre |-> centre, left |-> left, right |-> right]
IsNode(t) == "centre" \in DOMAIN t

\* The middle of the least block over both.  For words that differ in the
\* highest bit the sum of the code wraps around and gives the centre zero.
pair_centre(left, right) ==
    LET b == CHOOSE b \in {2^i : i \in 0..W} :
                 left \div b = right \div b /\ (b > 1 => left \div (b \div 2) # right \div (b \div 2))
    IN  (left \div b) * b + (b % WordCount) \div 2

centre_to_min(c) == KeyMin(c)
centre_to_max(c) == KeyMax(c)

\* The function that is called for two elements with the same key; Null makes
\* the whole operation give Null.
Merge(how, e0, e1) ==
    CASE how = "first" -> e0
      [] how = "second" -> e1
      [] how = "disjoin" -> Null
      [] how = "larger" -> IF e0.val < e1.val THEN e1 ELSE e0

NodeUnlessNull(centre, left, right) ==
    IF left = Null \/ right = Null THEN Null ELSE node_new(centre, left, right)
NodeOrChild(centre, left, right) ==
    IF left = Null THEN right ELSE IF right = Null THEN left
    ELSE node_new(centre, left, right)
-----------------------------------------------------------------------------
RECURSIVE cuex_atree_find(_, _)
cuex_atree_find(t, key) ==
    IF t = Null THEN Null
    ELSE IF ~IsNode(t) THEN IF t.key = key THEN t ELSE Null
    ELSE IF key < centre_to_min(t.centre) \/ key > centre_to_max(t.centre) THEN Null
    ELSE cuex_atree_find(IF key < t.centre THEN t.left ELSE t.right, key)

RECURSIVE atree_card(_)
atree_card(t) == IF IsNode(t) THEN atree_card(t.left) + atree_card(t.right) ELSE 1
cuex_atree_card(t) == IF t = Null THEN 0 ELSE atree_card(t)

\* The position of the element with key among all, or -1.
RECURSIVE FindIndex(_, _, _)
FindIndex(t, key, index) ==
    IF ~IsNode(t) THEN IF t.key = key THEN index ELSE -1
    ELSE IF key < centre_to_min(t.centre) \/ key > centre_to_max(t.centre) THEN -1
    ELSE IF key < t.centre THEN FindIndex(t.left, key, index)
    ELSE FindIndex(t.right, key, index + atree_card(t.left))
cuex_atree_find_index(t, key) == IF t = Null THEN -1 ELSE FindIndex(t, key, 0)

\* atree_insert, and atree_insert_rev if the new element is the first argument
\* of the merge function.
RECURSIVE InsertAs(_, _, _, _)
InsertAs(how, rev, t, e) ==
    IF ~IsNode(t)
    THEN IF e.key = t.key THEN IF rev THEN Merge(how, e, t) ELSE Merge(how, t, e)
         ELSE IF e.key < t.key THEN node_new(pair_centre(e.key, t.key), e, t)
         ELSE node_new(pair_centre(t.key, e.key), t, e)
    ELSE IF e.key < centre_to_min(t.centre) THEN node_new(pair_centre(e.key, t.centre), e, t)
    ELSE IF e.key > centre_to_max(t.centre) THEN node_new(pair_centre(t.centre, e.key), t, e)
    ELSE IF e.key < t.centre
    THEN NodeUnlessNull(t.centre, InsertAs(how, rev, t.left, e), t.right)
    ELSE NodeUnlessNull(t.centre, t.left, InsertAs(how, rev, t.right, e))

atree_insert(how, t, e) == InsertAs(how, FALSE, t, e)
atree_insert_rev(how, t, e) == InsertAs(how, TRUE, t, e)

\* cuex_atree_insert, cuex_atree_replace and cuex_atree_deep_insert.
cuex_atree_deep_insert(how, t, e) == IF t = Null THEN e ELSE atree_insert(how, t, e)
cuex_atree_insert(t, e) == cuex_atree_deep_insert("first", t, e)
cuex_atree_replace(t, e) == cuex_atree_deep_insert("second", t, e)

RECURSIVE atree_erase(_, _)
atree_erase(t, key) ==
    IF ~IsNode(t) THEN IF t.key = key THEN Null ELSE t
    ELSE IF key < centre_to_min(t.centre) \/ key > centre_to_max(t.centre) THEN t
    ELSE IF key < t.centre THEN NodeOrChild(t.centre, atree_erase(t.left, key), t.right)
    ELSE NodeOrChild(t.centre, t.left, atree_erase(t.right, key))
cuex_atree_erase(t, key) == IF t = Null THEN t ELSE atree_erase(t, key)
\* The element taken out and what is left.
cuex_atree_find_erase(t, key) ==
    [elt |-> cuex_atree_find(t, key), tree |-> cuex_atree_erase(t, key)]
-----------------------------------------------------------------------------
(* Two trees are walked together by where their spans are to each other.   *)
Place(c0, c1) ==
    IF c0 = c1 THEN "same"
    ELSE IF c0 < c1
    THEN IF centre_to_max(c0) >= c1 THEN "right of 0"
         ELSE IF centre_to_max(c0) < centre_to_min(c1) THEN "apart" ELSE "left of 1"
    ELSE IF centre_to_max(c1) >= c0 THEN "right of 1"
         ELSE IF centre_to_max(c1) < centre_to_min(c0) THEN "apart" ELSE "left of 0"

RECURSIVE atree_union(_, _, _)
atree_union(how, t0, t1) ==
    IF ~IsNode(t0) THEN atree_insert_rev(how, t1, t0)
    ELSE IF ~IsNode(t1) THEN atree_insert(how, t0, t1)
    ELSE CASE Place(t0.centre, t1.centre) = "same" ->
                NodeUnlessNull(t0.centre, atree_union(how, t0.left, t1.left),
                                          atree_union(how, t0.right, t1.right))
           [] Place(t0.centre, t1.centre) = "apart" ->
                IF t0.centre < t1.centre
                THEN node_new(pair_centre(t0.centre, t1.centre), t0, t1)
                ELSE node_new(pair_centre(t1.centre, t0.centre), t1, t0)
           [] Place(t0.centre, t1.centre) = "left of 0" ->
                NodeUnlessNull(t0.centre, atree_union(how, t0.left, t1), t0.right)
           [] Place(t0.centre, t1.centre) = "right of 0" ->
                NodeUnlessNull(t0.centre, t0.left, atree_union(how, t0.right, t1))
           [] Place(t0.centre, t1.centre) = "left of 1" ->
                NodeUnlessNull(t1.centre, atree_union(how, t0, t1.left), t1.right)
           [] Place(t0.centre, t1.centre) = "right of 1" ->
                NodeUnlessNull(t1.centre, t1.left, atree_union(how, t0, t1.right))

\* With "first", "disjoin" or a function of the client.
cuex_atree_deep_union(how, t0, t1) ==
    IF t0 = Null THEN t1 ELSE IF t1 = Null THEN t0 ELSE atree_union(how, t0, t1)
cuex_atree_left_union(t0, t1) == cuex_atree_deep_union("first", t0, t1)
cuex_atree_disjoint_union(t0, t1) == cuex_atree_deep_union("disjoin", t0, t1)

MergeFound(how, e0, e1) == IF e0 = Null \/ e1 = Null THEN Null ELSE Merge(how, e0, e1)

RECURSIVE atree_isecn(_, _, _)
atree_isecn(how, t0, t1) ==
    IF ~IsNode(t0) THEN MergeFound(how, t0, cuex_atree_find(t1, t0.key))
    ELSE IF ~IsNode(t1) THEN MergeFound(how, cuex_atree_find(t0, t1.key), t1)
    ELSE CASE Place(t0.centre, t1.centre) = "same" ->
                NodeOrChild(t0.centre, atree_isecn(how, t0.left, t1.left),
                                       atree_isecn(how, t0.right, t1.right))
           [] Place(t0.centre, t1.centre) = "apart" -> Null
           [] Place(t0.centre, t1.centre) = "left of 0" -> atree_isecn(how, t0.left, t1)
           [] Place(t0.centre, t1.centre) = "right of 0" -> atree_isecn(how, t0.right, t1)
           [] Place(t0.centre, t1.centre) = "left of 1" -> atree_isecn(how, t0, t1.left)
           [] Place(t0.centre, t1.centre) = "right of 1" -> atree_isecn(how, t0, t1.right)

cuex_atree_deep_isecn(how, t0, t1) ==
    IF t0 = Null \/ t1 = Null THEN Null ELSE atree_isecn(how, t0, t1)
cuex_atree_left_isecn(t0, t1) == cuex_atree_deep_isecn("first", t0, t1)

\* value_subseteq and value_order: always true and equal, or by the values.
Below(deep, e0, e1) == ~deep \/ e0.val <= e1.val
ElemOrder(deep, e0, e1) ==
    IF ~deep \/ e0.val = e1.val THEN "eq" ELSE IF e0.val < e1.val THEN "lt" ELSE "gt"
FoundBelow(deep, e, found) == found # Null /\ Below(deep, e, found)

\* The bound of the right half is strict: a span of one word above another is
\* not found there, which even keys do not have.
RECURSIVE atree_subseteq(_, _, _)
atree_subseteq(deep, t0, t1) ==
    \/ t0 = t1
    \/ ~IsNode(t0) /\ FoundBelow(deep, t0, cuex_atree_find(t1, t0.key))
    \/ /\ IsNode(t0) /\ IsNode(t1)
       /\ IF t0.centre = t1.centre
          THEN /\ atree_subseteq(deep, t0.left, t1.left)
               /\ atree_subseteq(deep, t0.right, t1.right)
          ELSE IF t0.centre < t1.centre
          THEN /\ centre_to_min(t1.centre) < t0.centre
               /\ atree_subseteq(deep, t0, t1.left)
          ELSE /\ centre_to_max(t1.centre) > t0.centre
               /\ atree_subseteq(deep, t0, t1.right)

\* Also cuex_atree_deep_subseteq and cuex_atree_deep_subseteq_kv.
cuex_atree_subseteq(deep, t0, t1) ==
    \/ t0 = t1
    \/ t0 = Null
    \/ t1 # Null /\ atree_subseteq(deep, t0, t1)

OrNone(P, order) == IF P THEN order ELSE "none"
BothOrders(left, right) ==
    IF left = right \/ right = "eq" THEN left ELSE IF left = "eq" THEN right ELSE "none"

RECURSIVE atree_order(_, _, _)
atree_order(deep, t0, t1) ==
    IF t0 = t1 THEN "eq"
    ELSE IF ~IsNode(t0) /\ ~IsNode(t1)
    THEN IF t0.key = t1.key THEN ElemOrder(deep, t0, t1) ELSE "none"
    ELSE IF ~IsNode(t0) THEN OrNone(FoundBelow(deep, t0, cuex_atree_find(t1, t0.key)), "lt")
    ELSE IF ~IsNode(t1) THEN OrNone(FoundBelow(deep, t1, cuex_atree_find(t0, t1.key)), "gt")
    ELSE CASE Place(t0.centre, t1.centre) = "same" ->
                BothOrders(atree_order(deep, t0.left, t1.left),
                           atree_order(deep, t0.right, t1.right))
           [] Place(t0.centre, t1.centre) = "apart" -> "none"
           [] Place(t0.centre, t1.centre) = "left of 0" -> OrNone(atree_subseteq(deep, t1, t0.left), "gt")
           [] Place(t0.centre, t1.centre) = "right of 0" -> OrNone(atree_subseteq(deep, t1, t0.right), "gt")
           [] Place(t0.centre, t1.centre) = "left of 1" -> OrNone(atree_subseteq(deep, t0, t1.left), "lt")
           [] Place(t0.centre, t1.centre) = "right of 1" -> OrNone(atree_subseteq(deep, t0, t1.right), "lt")

\* Also cuex_atree_deep_order_kv.
cuex_atree_order(deep, t0, t1) ==
    IF t0 = t1 THEN "eq" ELSE IF t0 = Null THEN "lt" ELSE IF t1 = Null THEN "gt"
    ELSE atree_order(deep, t0, t1)
-----------------------------------------------------------------------------
(* Visits, and images under functions f of the elements.                   *)

RECURSIVE atree_iter(_)
atree_iter(t) == IF IsNode(t) THEN atree_iter(t.left) \o atree_iter(t.right) ELSE <<t>>
cuex_atree_iter(t) == IF t = Null THEN << >> ELSE atree_iter(t)
\* Whether the callback, which is true of the values in P, is so to the end.
cuex_atree_conj(t, P) ==
    SelectInSeq(cuex_atree_iter(t), LAMBDA e : e.val \notin P) = 0

cuex_atree_image(t, f) ==
    FoldLeft(LAMBDA u, e : cuex_atree_insert(u, f[e]), Null, cuex_atree_iter(t))

RECURSIVE atree_isokey_image(_, _)
atree_isokey_image(t, f) ==
    IF IsNode(t)
    THEN node_new(t.centre, atree_isokey_image(t.left, f), atree_isokey_image(t.right, f))
    ELSE Elem(t.key, f[t.val])
cuex_atree_isokey_image(t, f) == IF t = Null THEN t ELSE atree_isokey_image(t, f)

RECURSIVE atree_depth(_)
atree_depth(t) ==
    IF ~IsNode(t) THEN 0
    ELSE 1 + (IF atree_depth(t.left) > atree_depth(t.right) THEN atree_depth(t.left)
              ELSE atree_depth(t.right))
cuex_atree_depth(t) == IF t = Null THEN 0 ELSE atree_depth(t)

\* An iterator is a stack of the trees still to visit, above a slot with NULL,
\* in memory for as many as the tree is deep and one more.
cuex_atree_itr_size(t) == cuex_atree_depth(t) + 1
cuex_atree_itr_init(t) == IF t = Null THEN << >> ELSE <<t>>
RECURSIVE ItrDescend(_)
ItrDescend(stack) ==
    IF ~IsNode(Last(stack)) THEN stack
    ELSE ItrDescend(Append(Append(Front(stack), Last(stack).right), Last(stack).left))
\* The stack has the element to return on its top; that slot is not written.
cuex_atree_itr_get(stack) == IF stack = << >> THEN stack ELSE ItrDescend(stack)
RECURSIVE ItrVisit(_, _)
ItrVisit(stack, size) ==
    IF stack = << >> THEN << >>
    ELSE IF Len(cuex_atree_itr_get(stack)) > size + 1 THEN <<"overrun">>
    ELSE <<Last(cuex_atree_itr_get(stack))>> \o ItrVisit(Front(cuex_atree_itr_get(stack)), size)

\* Get and put of the junctor of a labelling, for the labels that the client
\* keeps: the rest is left out of the new one.
ncomm_image_junctor(t, f, P) ==
    FoldLeft(LAMBDA u, e : IF e.key \in P THEN cuex_atree_insert(u, Elem(e.key, f[e.val])) ELSE u,
             Null, ItrVisit(cuex_atree_itr_init(t), cuex_atree_itr_size(t)))
-----------------------------------------------------------------------------
(* Meet-semilattices: meets of generators are sets of generators, and a    *)
(* singleton set is its generator.                                         *)
sl_new(t) == IF t # Null /\ ~IsNode(t) THEN t ELSE [sl |-> t]
IsMeet(x) == "sl" \in DOMAIN x
cuex_meetlattice_top == [sl |-> Null]

cuex_meetlattice_meet(x0, x1) ==
    IF x0 = x1 THEN x0
    ELSE IF IsMeet(x0) /\ IsMeet(x1) THEN sl_new(cuex_atree_left_union(x0.sl, x1.sl))
    ELSE IF IsMeet(x0) THEN sl_new(cuex_atree_insert(x0.sl, x1))
    ELSE IF IsMeet(x1) THEN sl_new(cuex_atree_insert(x1.sl, x0))
    ELSE sl_new(cuex_atree_insert(x0, x1))

cuex_meetlattice_semijoin(x0, x1) ==
    IF x0 = x1 THEN x0
    ELSE IF IsMeet(x0) /\ IsMeet(x1) THEN sl_new(cuex_atree_left_isecn(x0.sl, x1.sl))
    ELSE IF IsMeet(x0) THEN sl_new(cuex_atree_find(x0.sl, x1.key))
    ELSE IF IsMeet(x1) THEN sl_new(cuex_atree_find(x1.sl, x0.key))
    ELSE sl_new(Null)

cuex_meetlattice_order(x0, x1) ==
    IF x0 = x1 THEN "eq"
    ELSE IF IsMeet(x0) /\ IsMeet(x1) THEN cuex_atree_order(FALSE, x1.sl, x0.sl)
    ELSE IF IsMeet(x0) THEN OrNone(cuex_atree_find(x0.sl, x1.key) # Null, "lt")
    ELSE IF IsMeet(x1) THEN OrNone(cuex_atree_find(x1.sl, x0.key) # Null, "gt")
    ELSE "none"

cuex_meetlattice_leq(x0, x1) ==
    \/ x0 = x1
    \/ IsMeet(x0) /\ IsMeet(x1) /\ cuex_atree_subseteq(FALSE, x1.sl, x0.sl)
    \/ IsMeet(x0) /\ ~IsMeet(x1) /\ cuex_atree_find(x0.sl, x1.key) # Null
    \/ ~IsMeet(x0) /\ IsMeet(x1) /\ x1.sl = Null
-----------------------------------------------------------------------------
(* The tree of a map, by halving its span.                                 *)
RECURSIVE TreeOf(_)
TreeOf(f) ==
    LET asc == Ascending(DOMAIN f)
        part(S) == [k \in S |-> f[k]]
        c == key_join(asc[1], Last(asc))
    IN  IF asc = << >> THEN Null
        ELSE IF Len(asc) = 1 THEN Elem(asc[1], f[asc[1]])
        ELSE node_new(c, TreeOf(part({k \in DOMAIN f : k < c})),
                         TreeOf(part({k \in DOMAIN f : k >= c})))

ElemsInOrder(f) ==
    LET asc == Ascending(DOMAIN f) IN [i \in 1..Len(asc) |-> Elem(asc[i], f[asc[i]])]
Larger(x, y) == IF x < y THEN y ELSE x
Joined(how, f, g) ==
    [k \in DOMAIN f \cup DOMAIN g |->
        IF k \notin DOMAIN g THEN f[k] ELSE IF k \notin DOMAIN f THEN g[k]
        ELSE CASE how = "first" -> f[k] [] how = "second" -> g[k] [] how = "larger" -> Larger(f[k], g[k])]
Met(how, f, g) == [k \in DOMAIN f \cap DOMAIN g |-> Joined(how, f, g)[k]]
Single(k, v) == [j \in {k} |-> v]
MapBelow(deep, f, g) == DOMAIN f \subseteq DOMAIN g /\ \A k \in DOMAIN f : deep => f[k] <= g[k]
OrderOf(le, ge) == IF le /\ ge THEN "eq" ELSE IF le THEN "lt" ELSE OrNone(ge, "gt")

Init == con = Null /\ ref = << >>

Next ==
    \/ \E k \in Keys, v \in Values :
          \/ /\ con' = cuex_atree_insert(con, Elem(k, v))
             /\ ref' = Joined("first", ref, Single(k, v))
          \/ /\ con' = cuex_atree_replace(con, Elem(k, v))
             /\ ref' = Joined("second", ref, Single(k, v))
          \/ /\ con' = cuex_atree_deep_insert("larger", con, Elem(k, v))
             /\ ref' = Joined("larger", ref, Single(k, v))
    \/ \E k \in Keys :
          /\ con' = cuex_atree_find_erase(con, k).tree
          /\ ref' = [j \in DOMAIN ref \ {k} |-> ref[j]]
    \/ \E g \in Operands :
          \/ con' = cuex_atree_left_union(con, TreeOf(g)) /\ ref' = Joined("first", ref, g)
          \/ con' = cuex_atree_deep_union("larger", con, TreeOf(g)) /\ ref' = Joined("larger", ref, g)
          \/ con' = cuex_atree_left_isecn(TreeOf(g), con) /\ ref' = Met("first", g, ref)

(* A map has one tree, whatever operations it came from: expressions that  *)
(* contain sets and labellings are compared by their addresses.            *)
Canonical == con = TreeOf(ref)

(* Searches and comparisons agree with the map, the two comparisons with   *)
(* each other, and an iterator stays in the memory that it was given.      *)
Answers ==
    /\ \A k \in Keys :
         /\ cuex_atree_find_erase(con, k).elt = IF k \in DOMAIN ref THEN Elem(k, ref[k]) ELSE Null
         /\ cuex_atree_find_index(con, k) =
              IF k \in DOMAIN ref THEN Cardinality({j \in DOMAIN ref : j < k}) ELSE -1
    /\ cuex_atree_card(con) = Cardinality(DOMAIN ref)
    /\ cuex_atree_iter(con) = ElemsInOrder(ref)
    /\ ItrVisit(cuex_atree_itr_init(con), cuex_atree_itr_size(con)) = ElemsInOrder(ref)
    /\ \A P \in SUBSET Values : cuex_atree_conj(con, P) <=> \A k \in DOMAIN ref : ref[k] \in P
    /\ \A g \in Operands, deep \in BOOLEAN :
         /\ cuex_atree_subseteq(deep, con, TreeOf(g)) <=> MapBelow(deep, ref, g)
         /\ cuex_atree_order(deep, con, TreeOf(g)) = OrderOf(MapBelow(deep, ref, g), MapBelow(deep, g, ref))
         /\ cuex_atree_order(deep, TreeOf(g), con) = OrderOf(MapBelow(deep, g, ref), MapBelow(deep, ref, g))

(* Results that are made of trees are the trees of what they should be.    *)
(* The order of a semilattice is not claimed of its top and a generator:   *)
(* cuex_meetlattice_order finds them incomparable, cuex_meetlattice_leq    *)
(* does not.                                                               *)
Derived ==
    LET turn == [v \in Values |-> CHOOSE w \in Values : w # v]
        fold == [e \in {Elem(k, v) : k \in Keys, v \in Values} |-> Elem((e.key \div 4) * 4, e.val)]
        first(j) == CHOOSE k \in DOMAIN ref : (k \div 4) * 4 = j /\ \A i \in DOMAIN ref : (i \div 4) * 4 = j => k <= i
        flat(f) == [k \in DOMAIN f |-> 1]
    IN  /\ cuex_atree_isokey_image(con, turn) = TreeOf([k \in DOMAIN ref |-> turn[ref[k]]])
        /\ cuex_atree_image(con, fold) =
             TreeOf([j \in {(k \div 4) * 4 : k \in DOMAIN ref} |-> ref[first(j)]])
        /\ \A g \in Operands :
             /\ ncomm_image_junctor(con, turn, DOMAIN g) = TreeOf([k \in DOMAIN g \cap DOMAIN ref |-> turn[ref[k]]])
             /\ cuex_atree_disjoint_union(con, TreeOf(g)) =
                  IF DOMAIN g \cap DOMAIN ref = {} THEN TreeOf(Joined("first", ref, g)) ELSE Null
             /\ cuex_atree_deep_isecn("larger", con, TreeOf(g)) = TreeOf(Met("larger", ref, g))
             /\ LET x == sl_new(TreeOf(flat(ref)))
                    y == sl_new(TreeOf(flat(g)))
                IN  /\ cuex_meetlattice_meet(x, y) = sl_new(TreeOf(Joined("first", flat(ref), flat(g))))
                    /\ cuex_meetlattice_semijoin(x, y) = sl_new(TreeOf(Met("first", flat(ref), flat(g))))
                    /\ cuex_meetlattice_leq(x, y) <=> MapBelow(FALSE, g, ref)
                    /\ {Cardinality(DOMAIN ref), Cardinality(DOMAIN g)} # {0, 1} =>
                         cuex_meetlattice_order(x, y) =
                             OrderOf(MapBelow(FALSE, g, ref), MapBelow(FALSE, ref, g))
=============================================================================
