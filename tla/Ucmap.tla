------------------------------- MODULE Ucmap -------------------------------
(***************************************************************************)
(* cucon/ucmap.c: maps from words as immutable binary tries.  A node has a *)
(* key, whose value it holds if the low bit of its left link is set        *)
(* ("has"), and the keys below and above it as its subtrees; the value     *)
(* field of a node without a value is zero.  Key zero is over all others.  *)
(***************************************************************************)
EXTENDS WordKey

CONSTANTS
    Zero,               \* the word 0 as a value
    Merge(_, _),        \* the function of cucon_ucmap_combined_union
    Keys, Values,       \* what the client inserts
    Operands            \* the maps it joins with others

VARIABLES
    con,                \* the tree
    ref                 \* the function it stands for

Null == [null |-> TRUE]
node_new_val(key, left, right, val) ==
    [key |-> key, has |-> TRUE, left |-> left, right |-> right, val |-> val]
node_new_noval(key, left, right) ==
    [key |-> key, has |-> FALSE, left |-> left, right |-> right, val |-> Zero]
node_new_lr(src, left, right) == [src EXCEPT !.left = left, !.right = right]

key_covers(k0, k1) == SameSpan(k0, k1) /\ k1 % Span(k0) # 0
key_coverseq(k0, k1) == SameSpan(k0, k1)

cucon_ucmap_singleton(key, val) == node_new_val(key, Null, Null, val)
-----------------------------------------------------------------------------
(* Building from pairs in the order of their keys, of which the first one  *)
(* of several with the same key counts.  The operators return the tree and *)
(* the pairs not consumed.                                                 *)

SkipKey(arr) == SelectSeq(arr, LAMBDA e : e[1] # arr[1][1])

RECURSIVE ucmap_from_sorted_array(_, _), Outwards(_, _, _, _)
ucmap_from_sorted_array(max, arr) ==
    IF arr = << >> \/ arr[1][1] > max THEN [node |-> Null, arr |-> arr]
    ELSE LET key == arr[1][1]
             rest == SkipKey(arr)
             r == IF rest # << >> /\ key_covers(key, rest[1][1])
                  THEN ucmap_from_sorted_array(KeyMax(key), rest)
                  ELSE [node |-> Null, arr |-> rest]
         IN  Outwards(max, key, node_new_val(key, Null, r.node, arr[1][2]), r.arr)
Outwards(max, key, node, arr) ==
    IF arr = << >> \/ arr[1][1] > max THEN [node |-> node, arr |-> arr]
    ELSE LET next == arr[1][1]
             over == key_covers(next, key)
             up == IF over THEN next
                   ELSE IF key_covers(key, next) THEN key ELSE key_join(key, next)
             r == ucmap_from_sorted_array(KeyMax(up), IF over THEN SkipKey(arr) ELSE arr)
         IN  Outwards(max, up,
                      IF over THEN node_new_val(up, node, r.node, arr[1][2])
                      ELSE node_new_noval(up, node, r.node), r.arr)

cucon_ucmap_from_sorted_array(arr) == ucmap_from_sorted_array(UMAX, arr).node
-----------------------------------------------------------------------------
RECURSIVE cucon_ucmap_insert(_, _, _)
cucon_ucmap_insert(t, key, val) ==
    IF t = Null THEN cucon_ucmap_singleton(key, val)
    ELSE IF t.key = key
    THEN IF t.val = val THEN t ELSE node_new_val(key, t.left, t.right, val)
    ELSE IF key_covers(t.key, key)
    THEN IF key < t.key
         THEN node_new_lr(t, cucon_ucmap_insert(t.left, key, val), t.right)
         ELSE node_new_lr(t, t.left, cucon_ucmap_insert(t.right, key, val))
    ELSE IF key_covers(key, t.key)
    THEN IF t.key < key THEN node_new_val(key, t, Null, val)
         ELSE node_new_val(key, Null, t, val)
    ELSE LET j == key_join(key, t.key)
             n == cucon_ucmap_singleton(key, val)
         IN  IF key < t.key THEN node_new_noval(j, n, t) ELSE node_new_noval(j, t, n)

RECURSIVE cucon_ucmap_erase(_, _)
cucon_ucmap_erase(t, key) ==
    IF t = Null THEN Null
    ELSE IF t.key = key
    THEN IF ~t.has THEN t
         ELSE IF t.left = Null THEN t.right
         ELSE IF t.right = Null THEN t.left
         ELSE node_new_noval(key, t.left, t.right)
    ELSE IF ~key_covers(t.key, key) THEN t
    ELSE IF key < t.key
    THEN LET l == cucon_ucmap_erase(t.left, key)
         IN  IF l = Null /\ ~t.has THEN t.right ELSE node_new_lr(t, l, t.right)
    ELSE LET r == cucon_ucmap_erase(t.right, key)
         IN  IF r = Null /\ ~t.has THEN t.left ELSE node_new_lr(t, t.left, r)

\* The node that decides on key, or Null; cucon_ucmap_contains, find, find_ptr
\* and find_int differ in what they give for a key that is not there.
RECURSIVE FindNode(_, _)
FindNode(t, key) ==
    IF t = Null \/ t.key = key THEN t
    ELSE IF ~key_coverseq(t.key, key) THEN Null
    ELSE FindNode(IF key < t.key THEN t.left ELSE t.right, key)

cucon_ucmap_contains(t, key) == LET n == FindNode(t, key) IN n # Null /\ n.has
cucon_ucmap_find(t, key, none) ==
    IF cucon_ucmap_contains(t, key) THEN FindNode(t, key).val ELSE none

RECURSIVE cucon_ucmap_card(_)
cucon_ucmap_card(t) ==
    IF t = Null THEN 0
    ELSE cucon_ucmap_card(t.left) + (IF t.has THEN 1 ELSE 0) + cucon_ucmap_card(t.right)

\* The pairs in the order in which cucon_ucmap_iterA, iter_ptr, iter_int,
\* conj_ptr and conj_int call back, as long as the callback returns true.
Pair(t) == IF t.has THEN <<<<t.key, t.val>>>> ELSE << >>
RECURSIVE cucon_ucmap_iterA(_)
cucon_ucmap_iterA(t) ==
    IF t = Null THEN << >>
    ELSE cucon_ucmap_iterA(t.left) \o Pair(t) \o cucon_ucmap_iterA(t.right)

\* Fault: a range over the ends of the words is counted as if it were not.
RECURSIVE cucon_ucmap_clipped_card_NoWrap(_, _, _)
cucon_ucmap_clipped_card_NoWrap(t, min, max) ==
    IF t = Null THEN 0
    ELSE IF t.key < min THEN cucon_ucmap_clipped_card_NoWrap(t.right, min, max)
    ELSE IF t.key > max THEN cucon_ucmap_clipped_card_NoWrap(t.left, min, max)
    ELSE (IF t.has THEN 1 ELSE 0) + cucon_ucmap_clipped_card_NoWrap(t.left, min, max)
             + cucon_ucmap_clipped_card_NoWrap(t.right, min, max)

RECURSIVE cucon_ucmap_clipped_card(_, _, _)
cucon_ucmap_clipped_card(t, min, max) ==
    IF min > max
    THEN cucon_ucmap_clipped_card(t, min, UMAX) + cucon_ucmap_clipped_card(t, 0, max)
    ELSE IF t = Null THEN 0
    ELSE IF t.key < min THEN cucon_ucmap_clipped_card(t.right, min, max)
    ELSE IF t.key > max THEN cucon_ucmap_clipped_card(t.left, min, max)
    ELSE (IF t.has THEN 1 ELSE 0) + cucon_ucmap_clipped_card(t.left, min, max)
             + cucon_ucmap_clipped_card(t.right, min, max)

RECURSIVE iterA_above(_, _)
iterA_above(t, min) ==
    IF t = Null THEN << >>
    ELSE IF t.key < min THEN iterA_above(t.right, min)
    ELSE iterA_above(t.left, min) \o Pair(t) \o cucon_ucmap_iterA(t.right)

RECURSIVE iterA_below(_, _)
iterA_below(t, max) ==
    IF t = Null THEN << >>
    ELSE IF t.key > max THEN iterA_below(t.left, max)
    ELSE cucon_ucmap_iterA(t.left) \o Pair(t) \o iterA_below(t.right, max)

RECURSIVE cucon_ucmap_iterA_clipped(_, _, _)
cucon_ucmap_iterA_clipped(t, min, max) ==
    IF min > max THEN iterA_below(t, max) \o iterA_above(t, min)
    ELSE IF t = Null THEN << >>
    ELSE IF t.key < min THEN cucon_ucmap_iterA_clipped(t.right, min, max)
    ELSE IF t.key > max THEN cucon_ucmap_iterA_clipped(t.left, min, max)
    ELSE iterA_above(t.left, min) \o Pair(t) \o iterA_below(t.right, max)
-----------------------------------------------------------------------------
RECURSIVE cucon_ucmap_left_union(_, _)
cucon_ucmap_left_union(t0, t1) ==
    IF t0 = Null THEN t1
    ELSE IF t1 = Null THEN t0
    ELSE IF t0.key = t1.key
    THEN node_new_lr(IF t0.has THEN t0 ELSE t1,
             cucon_ucmap_left_union(t0.left, t1.left),
             cucon_ucmap_left_union(t0.right, t1.right))
    ELSE IF key_covers(t0.key, t1.key)
    THEN IF t1.key < t0.key
         THEN node_new_lr(t0, cucon_ucmap_left_union(t0.left, t1), t0.right)
         ELSE node_new_lr(t0, t0.left, cucon_ucmap_left_union(t0.right, t1))
    ELSE IF key_covers(t1.key, t0.key)
    THEN IF t0.key < t1.key
         THEN node_new_lr(t1, cucon_ucmap_left_union(t0, t1.left), t1.right)
         ELSE node_new_lr(t1, t1.left, cucon_ucmap_left_union(t0, t1.right))
    ELSE LET j == key_join(t0.key, t1.key)
         IN  IF t0.key < t1.key THEN node_new_noval(j, t0, t1) ELSE node_new_noval(j, t1, t0)

RECURSIVE cucon_ucmap_combined_union(_, _)
cucon_ucmap_combined_union(t0, t1) ==
    IF t0 = Null THEN t1
    ELSE IF t1 = Null THEN t0
    ELSE IF t0.key = t1.key
    THEN LET l == cucon_ucmap_combined_union(t0.left, t1.left)
             r == cucon_ucmap_combined_union(t0.right, t1.right)
         IN  IF ~t0.has THEN node_new_lr(t1, l, r)
             ELSE IF ~t1.has THEN node_new_lr(t0, l, r)
             ELSE node_new_val(t0.key, l, r, Merge(t0.val, t1.val))
    ELSE IF key_covers(t0.key, t1.key)
    THEN IF t1.key < t0.key
         THEN node_new_lr(t0, cucon_ucmap_combined_union(t0.left, t1), t0.right)
         ELSE node_new_lr(t0, t0.left, cucon_ucmap_combined_union(t0.right, t1))
    ELSE IF key_covers(t1.key, t0.key)
    THEN IF t0.key < t1.key
         THEN node_new_lr(t1, cucon_ucmap_combined_union(t0, t1.left), t1.right)
         ELSE node_new_lr(t1, t1.left, cucon_ucmap_combined_union(t0, t1.right))
    ELSE LET j == key_join(t0.key, t1.key)
         IN  IF t0.key < t1.key THEN node_new_noval(j, t0, t1) ELSE node_new_noval(j, t1, t0)

RECURSIVE cucon_ucmap_min_ukey(_)
cucon_ucmap_min_ukey(t) ==
    IF t = Null THEN UMAX ELSE IF t.left = Null THEN t.key ELSE cucon_ucmap_min_ukey(t.left)

RECURSIVE cucon_ucmap_max_ukey(_)
cucon_ucmap_max_ukey(t) ==
    IF t = Null THEN 0 ELSE IF t.right = Null THEN t.key ELSE cucon_ucmap_max_ukey(t.right)

RECURSIVE uclip_upper(_, _)
uclip_upper(t, min) ==
    IF t = Null THEN Null
    ELSE IF t.key < min THEN uclip_upper(t.right, min)
    ELSE node_new_lr(t, uclip_upper(t.left, min), t.right)

RECURSIVE uclip_lower(_, _)
uclip_lower(t, max) ==
    IF t = Null THEN Null
    ELSE IF t.key > max THEN uclip_lower(t.left, max)
    ELSE node_new_lr(t, t.left, uclip_lower(t.right, max))

RECURSIVE cucon_ucmap_uclip(_, _, _)
cucon_ucmap_uclip(t, min, max) ==
    IF t = Null THEN Null
    ELSE IF t.key < min THEN cucon_ucmap_uclip(t.right, min, max)
    ELSE IF t.key > max THEN cucon_ucmap_uclip(t.left, min, max)
    ELSE node_new_lr(t, uclip_upper(t.left, min), uclip_lower(t.right, max))

cucon_ucmap_clip(t, min, max) ==
    IF min <= max THEN cucon_ucmap_uclip(t, min, max)
    ELSE cucon_ucmap_left_union(uclip_lower(t, max), uclip_upper(t, min))

\* cucon_ucmap_eq, and cucon_ucmap_eq_ptr with a function that is equality.
RECURSIVE cucon_ucmap_eq(_, _)
cucon_ucmap_eq(t0, t1) ==
    \/ t0 = Null /\ t1 = Null
    \/ /\ t0 # Null /\ t1 # Null
       /\ t0.key = t1.key /\ t0.has = t1.has /\ t0.val = t1.val
       /\ cucon_ucmap_eq(t0.left, t1.left)
       /\ cucon_ucmap_eq(t0.right, t1.right)

\* cucon_ucmap_cmp, and cucon_ucmap_cmp_ptr with a function that compares words.
RECURSIVE cucon_ucmap_cmp(_, _)
cucon_ucmap_cmp(t0, t1) ==
    LET sign(i, j) == IF i < j THEN -1 ELSE IF i > j THEN 1 ELSE 0
        present(t) == IF t.has THEN 1 ELSE 0
        l == cucon_ucmap_cmp(t0.left, t1.left)
        here == IF t0.has /\ t1.has THEN sign(t0.val, t1.val)
                ELSE sign(present(t0), present(t1))
    IN  IF t0 = Null THEN (IF t1 = Null THEN 0 ELSE -1)
        ELSE IF t1 = Null THEN 1
        ELSE IF t0.key # t1.key THEN sign(t0.key, t1.key)
        ELSE IF l # 0 THEN l
        ELSE IF here # 0 THEN here
        ELSE cucon_ucmap_cmp(t0.right, t1.right)
-----------------------------------------------------------------------------
Pairs(f) == LET asc == Ascending(DOMAIN f) IN [i \in 1..Len(asc) |-> <<asc[i], f[asc[i]]>>]
FromMap(f) == cucon_ucmap_from_sorted_array(Pairs(f))
Without(f, S) == [k \in DOMAIN f \ S |-> f[k]]
Joined(f, g, F(_, _)) ==
    [k \in DOMAIN f \cup DOMAIN g |->
        IF k \notin DOMAIN g THEN f[k] ELSE IF k \notin DOMAIN f THEN g[k] ELSE F(f[k], g[k])]
First(x, y) == x

Init == con = Null /\ ref = << >>

Next ==
    \/ \E k \in Keys, v \in Values :
          /\ con' = cucon_ucmap_insert(con, k, v)
          /\ ref' = Joined([j \in {k} |-> v], ref, First)
    \/ \E k \in Keys : con' = cucon_ucmap_erase(con, k) /\ ref' = Without(ref, {k})
    \/ \E g \in Operands :
          /\ con' = cucon_ucmap_left_union(con, FromMap(g))
          /\ ref' = Joined(ref, g, First)
    \/ \E g \in Operands :
          /\ con' = cucon_ucmap_combined_union(con, FromMap(g))
          /\ ref' = Joined(ref, g, Merge)

(* A map has one tree, whatever operations it came from: cucon_ucmap_eq    *)
(* compares trees, and addresses if they are hash-consed.                  *)
Canonical == con = FromMap(ref)

(* The queries agree with the map; eq and cmp order maps totally.          *)
Answers ==
    LET ordered == Pairs(ref)
        within(lo, hi) == SelectSeq(ordered, LAMBDA e : e[1] \in lo..hi)
    IN  /\ \A k \in Keys : cucon_ucmap_contains(con, k) <=> k \in DOMAIN ref
        /\ \A k \in DOMAIN ref : cucon_ucmap_find(con, k, Zero) = ref[k]
        /\ cucon_ucmap_iterA(con) = ordered /\ cucon_ucmap_card(con) = Len(ordered)
        /\ ordered # << >> =>
             /\ cucon_ucmap_min_ukey(con) = ordered[1][1]
             /\ cucon_ucmap_max_ukey(con) = Last(ordered)[1]
        /\ \A lo, hi \in Keys :
             LET clipped == IF lo <= hi THEN within(lo, hi)
                            ELSE within(0, hi) \o within(lo, UMAX)
             IN  /\ cucon_ucmap_iterA_clipped(con, lo, hi) = clipped
                 /\ cucon_ucmap_clipped_card(con, lo, hi) = Len(clipped)
        /\ \A g \in Operands :
             LET c == cucon_ucmap_cmp(con, FromMap(g))
             IN  /\ cucon_ucmap_eq(con, FromMap(g)) <=> ref = g
                 /\ c = 0 <=> ref = g
                 /\ cucon_ucmap_cmp(FromMap(g), con) = -c

(* Clipping keeps the pairs of the range.  Its tree may have a node that   *)
(* neither has a value nor separates two subtrees, so that Canonical is    *)
(* not claimed of it.                                                      *)
Derived ==
    \A lo, hi \in Keys :
        cucon_ucmap_iterA(cucon_ucmap_clip(con, lo, hi)) =
            SelectSeq(Pairs(ref), LAMBDA e : IF lo <= hi THEN e[1] \in lo..hi
                                             ELSE e[1] <= hi \/ e[1] >= lo)
=============================================================================
