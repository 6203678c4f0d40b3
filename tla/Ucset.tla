------------------------------- MODULE Ucset -------------------------------
(***************************************************************************)
(* cucon/ucset.c: sets of words as hash-consed binary tries.  A leaf holds *)
(* a block of BitsetWidth words as bits; an inner node has a key, which is *)
(* in the set if the low bit of its key field is set ("has"), and the      *)
(* words below and above the key as its subtrees.  Trees are immutable and *)
(* hash-consed, so they are values here and pointer equality is equality:  *)
(* two equal sets must have one tree, or cucon_ucset_eq would tell them    *)
(* apart.                                                                  *)
(***************************************************************************)
EXTENDS WordKey

CONSTANTS
    BitsetWidth,        \* 128 in the build
    IntWidth,           \* bits of an int, 32 in the build
    Keys,               \* the words of the client
    Operands            \* the sets it combines others with

VARIABLES
    con,                \* the tree
    ref                 \* the set it stands for

Null == [null |-> TRUE]
Leaf(key, bits) == [key |-> key, bits |-> bits]
ucnode_new(key, has, left, right) ==
    [key |-> key, has |-> has, left |-> left, right |-> right]

key_covers(k0, k1) == k0 # 0 /\ SameSpan(k0, k1) /\ (k1 % Span(k0) # 0 \/ k1 = 0)
key_coverseq(k0, k1) == SameSpan(k0, k1)
key_is_leaflike(k) == k = 0 \/ Span(k) <= BitsetWidth
leaf_key(k) == (k \div BitsetWidth) * BitsetWidth + BitsetWidth \div 2
LeafMin(key) == key - (key % BitsetWidth)
Bit(k) == k % BitsetWidth
IsLeaf(t) == key_is_leaflike(t.key)

LeafOrNull(key, bits) == IF bits = {} THEN Null ELSE Leaf(key, bits)
\* An inner node that neither holds its key nor separates two subtrees is
\* replaced by what is below it.
NodeOrChild(key, has, left, right) ==
    IF ~has /\ left = Null THEN right
    ELSE IF ~has /\ right = Null THEN left
    ELSE ucnode_new(key, has, left, right)
-----------------------------------------------------------------------------
cucon_ucset_singleton(k) ==
    IF key_is_leaflike(k) THEN Leaf(leaf_key(k), {Bit(k)})
    ELSE ucnode_new(k, TRUE, Null, Null)

cucon_ucset_is_singleton(t) ==
    IF IsLeaf(t) THEN Cardinality(t.bits) = 1 ELSE t.left = Null /\ t.right = Null

RECURSIVE cucon_ucset_find(_, _)
cucon_ucset_find(t, k) ==
    /\ t # Null
    /\ key_coverseq(t.key, k)
    /\ IF IsLeaf(t) THEN Bit(k) \in t.bits
       ELSE IF k = t.key THEN t.has
       ELSE cucon_ucset_find(IF k < t.key THEN t.left ELSE t.right, k)

RECURSIVE cucon_ucset_insert(_, _)
cucon_ucset_insert(t, k) ==
    IF t = Null THEN cucon_ucset_singleton(k)
    ELSE IF k = t.key \/ key_covers(t.key, k)
    THEN IF IsLeaf(t) THEN [t EXCEPT !.bits = @ \cup {Bit(k)}]
         ELSE IF k = t.key THEN [t EXCEPT !.has = TRUE]
         ELSE IF k < t.key THEN [t EXCEPT !.left = cucon_ucset_insert(@, k)]
         ELSE [t EXCEPT !.right = cucon_ucset_insert(@, k)]
    ELSE IF key_covers(k, t.key)
    THEN IF t.key < k THEN ucnode_new(k, TRUE, t, Null)
         ELSE ucnode_new(k, TRUE, Null, t)
    ELSE LET j == key_join(k, t.key)
             n == cucon_ucset_singleton(k)
         IN  IF k < t.key THEN ucnode_new(j, FALSE, n, t)
             ELSE ucnode_new(j, FALSE, t, n)

RECURSIVE cucon_ucset_erase(_, _)
cucon_ucset_erase(t, k) ==
    IF t = Null THEN Null
    ELSE IF k # t.key /\ ~key_covers(t.key, k) THEN t
    ELSE IF IsLeaf(t) THEN LeafOrNull(t.key, t.bits \ {Bit(k)})
    ELSE IF k = t.key THEN NodeOrChild(t.key, FALSE, t.left, t.right)
    ELSE IF k < t.key
    THEN NodeOrChild(t.key, t.has, cucon_ucset_erase(t.left, k), t.right)
    ELSE NodeOrChild(t.key, t.has, t.left, cucon_ucset_erase(t.right, k))

RECURSIVE cucon_ucset_union(_, _)
cucon_ucset_union(lhs, rhs) ==
    IF lhs = Null THEN rhs
    ELSE IF rhs = Null THEN lhs
    ELSE IF lhs.key = rhs.key
    THEN IF IsLeaf(lhs) THEN Leaf(lhs.key, lhs.bits \cup rhs.bits)
         ELSE ucnode_new(lhs.key, lhs.has \/ rhs.has,
                  cucon_ucset_union(lhs.left, rhs.left),
                  cucon_ucset_union(lhs.right, rhs.right))
    ELSE IF key_covers(rhs.key, lhs.key)
    THEN IF lhs.key < rhs.key THEN [rhs EXCEPT !.left = cucon_ucset_union(lhs, @)]
         ELSE [rhs EXCEPT !.right = cucon_ucset_union(lhs, @)]
    ELSE IF key_covers(lhs.key, rhs.key) THEN cucon_ucset_union(rhs, lhs)
    ELSE LET j == key_join(lhs.key, rhs.key)
         IN  IF lhs.key < rhs.key THEN ucnode_new(j, FALSE, lhs, rhs)
             ELSE ucnode_new(j, FALSE, rhs, lhs)

RECURSIVE cucon_ucset_isecn(_, _)
cucon_ucset_isecn(lhs, rhs) ==
    IF lhs = Null \/ rhs = Null THEN Null
    ELSE IF lhs.key = rhs.key
    THEN IF IsLeaf(lhs) THEN LeafOrNull(lhs.key, lhs.bits \cap rhs.bits)
         ELSE NodeOrChild(lhs.key, lhs.has /\ rhs.has,
                  cucon_ucset_isecn(lhs.left, rhs.left),
                  cucon_ucset_isecn(lhs.right, rhs.right))
    ELSE IF key_covers(rhs.key, lhs.key)
    THEN cucon_ucset_isecn(lhs, IF lhs.key < rhs.key THEN rhs.left ELSE rhs.right)
    ELSE IF key_covers(lhs.key, rhs.key) THEN cucon_ucset_isecn(rhs, lhs)
    ELSE Null

RECURSIVE cucon_ucset_compl(_, _)
cucon_ucset_compl(lhs, rhs) ==
    IF lhs = Null \/ rhs = Null THEN lhs
    ELSE IF lhs.key = rhs.key
    THEN IF IsLeaf(lhs) THEN LeafOrNull(lhs.key, lhs.bits \ rhs.bits)
         ELSE NodeOrChild(lhs.key, lhs.has /\ ~rhs.has,
                  cucon_ucset_compl(lhs.left, rhs.left),
                  cucon_ucset_compl(lhs.right, rhs.right))
    ELSE IF key_covers(lhs.key, rhs.key)
    THEN IF rhs.key < lhs.key
         THEN NodeOrChild(lhs.key, lhs.has, cucon_ucset_compl(lhs.left, rhs), lhs.right)
         ELSE NodeOrChild(lhs.key, lhs.has, lhs.left, cucon_ucset_compl(lhs.right, rhs))
    ELSE IF key_covers(rhs.key, lhs.key)
    THEN cucon_ucset_compl(lhs, IF lhs.key < rhs.key THEN rhs.left ELSE rhs.right)
    ELSE lhs

RECURSIVE cucon_ucset_subeq(_, _)
cucon_ucset_subeq(lhs, rhs) ==
    \/ lhs = rhs
    \/ lhs = Null
    \/ /\ rhs # Null
       /\ IF lhs.key = rhs.key
          THEN IF IsLeaf(lhs) THEN lhs.bits \subseteq rhs.bits
               ELSE /\ lhs.has => rhs.has
                    /\ cucon_ucset_subeq(lhs.left, rhs.left)
                    /\ cucon_ucset_subeq(lhs.right, rhs.right)
          ELSE /\ key_covers(rhs.key, lhs.key)
               /\ cucon_ucset_subeq(lhs, IF lhs.key < rhs.key THEN rhs.left ELSE rhs.right)

RECURSIVE cucon_ucset_disjoint(_, _)
cucon_ucset_disjoint(lhs, rhs) ==
    \/ lhs = Null
    \/ rhs = Null
    \/ /\ lhs # rhs
       /\ IF lhs.key = rhs.key
          THEN IF IsLeaf(lhs) THEN lhs.bits \cap rhs.bits = {}
               ELSE /\ ~(lhs.has /\ rhs.has)
                    /\ cucon_ucset_disjoint(lhs.left, rhs.left)
                    /\ cucon_ucset_disjoint(lhs.right, rhs.right)
          ELSE IF key_covers(rhs.key, lhs.key)
          THEN cucon_ucset_disjoint(lhs, IF lhs.key < rhs.key THEN rhs.left ELSE rhs.right)
          ELSE key_covers(lhs.key, rhs.key) =>
               cucon_ucset_disjoint(IF rhs.key < lhs.key THEN lhs.left ELSE lhs.right, rhs)
-----------------------------------------------------------------------------
(* Visits, in the order of the words. *)

RECURSIVE cucon_ucset_iter(_)
cucon_ucset_iter(t) ==
    IF t = Null THEN << >>
    ELSE IF IsLeaf(t) THEN Ascending({LeafMin(t.key) + b : b \in t.bits})
    ELSE cucon_ucset_iter(t.left) \o (IF t.has THEN <<t.key>> ELSE << >>)
             \o cucon_ucset_iter(t.right)

RECURSIVE cucon_ucset_card(_)
cucon_ucset_card(t) ==
    IF t = Null THEN 0
    ELSE IF IsLeaf(t) THEN Cardinality(t.bits)
    ELSE (IF t.has THEN 1 ELSE 0) + cucon_ucset_card(t.left) + cucon_ucset_card(t.right)

\* _ucleaf_filter counts the keys of a leaf in an int, which the callback gets
\* as a word again.
AsInt(k) == LET i == k % 2^IntWidth
            IN  IF i < 2^(IntWidth - 1) THEN i ELSE Unsigned(i - 2^IntWidth)

RECURSIVE cucon_ucset_filter(_, _)
cucon_ucset_filter(t, P) ==
    IF t = Null THEN Null
    ELSE IF IsLeaf(t)
    THEN LeafOrNull(t.key, {b \in t.bits : AsInt(LeafMin(t.key) + b) \in P})
    ELSE NodeOrChild(t.key, t.has /\ t.key \in P,
             cucon_ucset_filter(t.left, P), cucon_ucset_filter(t.right, P))

\* cucon_ucset_image and cucon_ucset_filter_image, of a function of the words
\* that it keeps.
cucon_ucset_filter_image(t, f) ==
    FoldLeft(LAMBDA u, k : IF k \in DOMAIN f THEN cucon_ucset_insert(u, f[k]) ELSE u,
             Null, cucon_ucset_iter(t))

RECURSIVE cucon_ucset_umin(_)
cucon_ucset_umin(t) ==
    IF t = Null THEN UMAX
    ELSE IF IsLeaf(t) THEN LeafMin(t.key) + Ascending(t.bits)[1]
    ELSE IF t.left = Null THEN t.key ELSE cucon_ucset_umin(t.left)

RECURSIVE cucon_ucset_umax(_)
cucon_ucset_umax(t) ==
    IF t = Null THEN 0
    ELSE IF IsLeaf(t) THEN LeafMin(t.key) + Last(Ascending(t.bits))
    ELSE IF t.right = Null THEN t.key ELSE cucon_ucset_umax(t.right)

\* Negative words are above the key INTPTR_MIN; without that node all words
\* of the set have one sign.
cucon_ucset_smin(t) ==
    IF t = Null THEN IMAX
    ELSE IF t.key # IMIN THEN cucon_ucset_umin(t)
    ELSE IF t.has THEN IMIN
    ELSE IF t.right # Null THEN cucon_ucset_umin(t.right)
    ELSE IF t.left = Null THEN IMAX ELSE cucon_ucset_umin(t.left)

cucon_ucset_smax(t) ==
    IF t = Null THEN IMIN
    ELSE IF t.key # IMIN THEN cucon_ucset_umax(t)
    ELSE IF t.left # Null THEN cucon_ucset_umax(t.left)
    ELSE IF t.right = Null THEN IMIN ELSE cucon_ucset_umax(t.right)

RECURSIVE ucset_uclip(_, _, _)
ucset_uclip(t, min, max) ==
    IF t = Null THEN Null
    ELSE IF min <= KeyMin(t.key) /\ KeyMax(t.key) <= max THEN t
    ELSE IF max < KeyMin(t.key) \/ min > KeyMax(t.key) THEN Null
    ELSE IF IsLeaf(t)
    THEN LeafOrNull(t.key, {b \in t.bits : LeafMin(t.key) + b \in min..max})
    ELSE IF max < t.key THEN ucset_uclip(t.left, min, max)
    ELSE IF min > t.key THEN ucset_uclip(t.right, min, max)
    ELSE NodeOrChild(t.key, t.has,
             ucset_uclip(t.left, min, max), ucset_uclip(t.right, min, max))

cucon_ucset_uclip(t, min, max) == IF min > max THEN Null ELSE ucset_uclip(t, min, max)

cucon_ucset_sclip(t, min, max) ==
    IF min > max THEN Null
    ELSE IF (min < 0) = (max < 0) THEN ucset_uclip(t, Unsigned(min), Unsigned(max))
    ELSE cucon_ucset_union(ucset_uclip(t, 0, max), ucset_uclip(t, Unsigned(min), UMAX))
-----------------------------------------------------------------------------
(* Building from ascending words.  The operators return the tree and the   *)
(* words not consumed.                                                     *)

ucset_leaf_from_sorted_array(arr) ==
    LET max == arr[1] - Bit(arr[1]) + BitsetWidth - 1
    IN  [node |-> Leaf(leaf_key(arr[1]), {Bit(k) : k \in ToSet(TakeUpTo(arr, max))}),
         arr |-> DropUpTo(arr, max)]

RECURSIVE ucset_from_sorted_array(_, _), SortedOutwards(_, _, _, _)
ucset_from_sorted_array(max, arr) ==
    IF arr = << >> \/ arr[1] > max THEN [node |-> Null, arr |-> arr]
    ELSE IF key_is_leaflike(arr[1])
    THEN LET l == ucset_leaf_from_sorted_array(arr)
         IN  SortedOutwards(max, l.node.key, l.node, l.arr)
    ELSE LET k == arr[1]
             r == ucset_from_sorted_array(KeyMax(k), DropUpTo(arr, k))
         IN  SortedOutwards(max, k, ucnode_new(k, TRUE, Null, r.node), r.arr)
SortedOutwards(max, key, node, arr) ==
    IF arr = << >> \/ arr[1] > max THEN [node |-> node, arr |-> arr]
    ELSE LET j == key_join(key, arr[1])
             has == arr[1] = j
             r == ucset_from_sorted_array(KeyMax(j), IF has THEN DropUpTo(arr, j) ELSE arr)
         IN  SortedOutwards(max, j, ucnode_new(j, has, node, r.node), r.arr)

cucon_ucset_from_sorted_array(arr) == ucset_from_sorted_array(UMAX, arr).node

ucleaf_from_monotonic(src, clip) ==
    LET top == src[1] - Bit(src[1]) + BitsetWidth - 1
        max == IF clip < top THEN clip ELSE top
    IN  [node |-> Leaf(leaf_key(src[1]), {Bit(k) : k \in ToSet(TakeUpTo(src, max))}),
         arr |-> DropUpTo(src, max)]

RECURSIVE ucset_from_monotonic(_, _), MonotonicOutwards(_, _, _, _)
ucset_from_monotonic(src, clip) ==
    IF src = << >> \/ src[1] > clip THEN [node |-> Null, arr |-> src]
    ELSE IF key_is_leaflike(src[1])
    THEN LET l == ucleaf_from_monotonic(src, clip)
         IN  MonotonicOutwards(l.arr, clip, l.node.key, l.node)
    ELSE MonotonicOutwards(src, clip, src[1] - 1, Null)
MonotonicOutwards(src, clip, left_key, left) ==
    IF src = << >> \/ src[1] > clip THEN [node |-> left, arr |-> src]
    ELSE LET j == key_join(left_key, src[1])
             has == src[1] = j
             r == ucset_from_monotonic(IF has THEN Tail(src) ELSE src, KeyMax(j))
         IN  MonotonicOutwards(r.arr, clip, left_key, ucnode_new(j, has, left, r.node))

\* The words in [min, max], moved by diff.  Those that do not wrap around and
\* those that do are built into a tree each; the word that ends the first
\* sequence is the first one of the second.
cucon_ucset_translate_uclip(t, diff, min, max) ==
    LET elems == SelectSeq(cucon_ucset_iter(t), LAMBDA k : k >= min)
        Moved(s) == [i \in 1..Len(s) |-> Unsigned(s[i] + diff)]
        Built(s, top) == ucset_from_monotonic(
                             Moved(<<Head(s)>> \o TakeUpTo(Tail(s), top)), UMAX).node
        wrap == Unsigned(-diff - 1)
        cut == DropUpTo(Tail(elems), wrap)
    IN  IF elems = << >> \/ elems[1] > max THEN Null
        ELSE IF wrap >= max THEN Built(elems, max)
        ELSE IF cut = << >> \/ cut[1] > max THEN Built(elems, wrap)
        ELSE cucon_ucset_union(Built(elems, wrap), Built(cut, max))

cucon_ucset_translate_sclip(t, diff, min, max) ==
    IF min > max THEN Null
    ELSE IF (min < 0) = (max < 0)
    THEN cucon_ucset_translate_uclip(t, diff, Unsigned(min), Unsigned(max))
    ELSE cucon_ucset_union(cucon_ucset_translate_uclip(t, diff, 0, max),
                           cucon_ucset_translate_uclip(t, diff, Unsigned(min), UMAX))
-----------------------------------------------------------------------------
(* Iterators: a stack of nodes and the position in a leaf. *)

RECURSIVE ucset_itr_descend(_, _)
ucset_itr_descend(stack, pos) ==
    LET t == Last(stack)
    IN  IF IsLeaf(t) THEN [stack |-> stack, pos |-> Ascending(t.bits)[1]]
        ELSE IF t.left = Null THEN [stack |-> stack, pos |-> pos]
        ELSE ucset_itr_descend(Append(stack, t.left), pos)

RECURSIVE ucset_itr_ascend(_)
ucset_itr_ascend(stack) ==
    IF Len(stack) > 1 /\ stack[Len(stack) - 1].right = Last(stack)
    THEN ucset_itr_ascend(Front(stack)) ELSE Front(stack)

cucon_ucset_itr_init(t) ==
    IF t = Null THEN [stack |-> << >>, pos |-> -1] ELSE ucset_itr_descend(<<t>>, -1)

\* The slots that cucon_ucset_itr_size asks for.
cucon_ucset_itr_size(t) ==
    IF t = Null THEN 0
    ELSE IF IsLeaf(t) THEN 1
    ELSE CHOOSE l \in 2..(W + 2) : Span(t.key) = BitsetWidth * 2^(l - 1)

ItrNext(itr) ==
    LET t == Last(itr.stack)
        more == {b \in t.bits : b > itr.pos}
        up == ucset_itr_ascend(itr.stack)
        leave == IF up = << >> \/ Last(up).has THEN [itr EXCEPT !.stack = up]
                 ELSE ucset_itr_descend(Append(up, Last(up).right), itr.pos)
    IN  IF IsLeaf(t)
        THEN IF more # {} THEN [itr EXCEPT !.pos = Ascending(more)[1]] ELSE leave
        ELSE IF t.right # Null THEN ucset_itr_descend(Append(itr.stack, t.right), itr.pos)
        ELSE leave

\* The word that cucon_ucset_itr_get returns; ItrNext is where it goes on.
cucon_ucset_itr_get(itr) ==
    LET t == Last(itr.stack)
    IN  IF IsLeaf(t) THEN t.key - BitsetWidth \div 2 + itr.pos ELSE t.key

RECURSIVE ItrWords(_, _)
ItrWords(itr, depth) ==
    IF itr.stack = << >> THEN << >>
    ELSE IF Len(itr.stack) > depth THEN <<-1>>
    ELSE <<cucon_ucset_itr_get(itr)>> \o ItrWords(ItrNext(itr), depth)
-----------------------------------------------------------------------------
FromSet(S) == cucon_ucset_from_sorted_array(Ascending(S))

Init == con = Null /\ ref = {}

Next ==
    \/ \E k \in Keys : con' = cucon_ucset_insert(con, k) /\ ref' = ref \cup {k}
    \/ \E k \in Keys : con' = cucon_ucset_erase(con, k) /\ ref' = ref \ {k}
    \/ \E S \in Operands : con' = cucon_ucset_union(con, FromSet(S)) /\ ref' = ref \cup S
    \/ \E S \in Operands : con' = cucon_ucset_isecn(con, FromSet(S)) /\ ref' = ref \cap S
    \/ \E S \in Operands : con' = cucon_ucset_compl(con, FromSet(S)) /\ ref' = ref \ S

(* A set has one tree, whatever operations it came from and in whichever   *)
(* order: cucon_ucset_eq compares the addresses of hash-consed trees.      *)
Canonical ==
    /\ con = FromSet(ref)
    /\ con = ucset_from_monotonic(Ascending(ref), UMAX).node

(* The queries give what the set says: in particular both orders of the    *)
(* words at the sign change, and an iterator that stays in its memory.     *)
Answers ==
    LET asc == Ascending(ref)
    IN  /\ \A k \in Keys : cucon_ucset_find(con, k) <=> k \in ref
        /\ cucon_ucset_card(con) = Cardinality(ref)
        /\ cucon_ucset_iter(con) = asc
        /\ ItrWords(cucon_ucset_itr_init(con), cucon_ucset_itr_size(con)) = asc
        /\ ref # {} =>
             /\ cucon_ucset_is_singleton(con) <=> Cardinality(ref) = 1
             /\ cucon_ucset_umin(con) = asc[1] /\ cucon_ucset_umax(con) = Last(asc)
             /\ cucon_ucset_smin(con) = BySign(ref)[1] /\ cucon_ucset_smax(con) = Last(BySign(ref))
        /\ \A S \in Operands :
             /\ cucon_ucset_subeq(con, FromSet(S)) <=> ref \subseteq S
             /\ cucon_ucset_subeq(FromSet(S), con) <=> S \subseteq ref
             /\ cucon_ucset_disjoint(con, FromSet(S)) <=> ref \cap S = {}

(* Filtering, images, clipping and translation, also across the ends of    *)
(* the words, give the tree of the set they describe.  Filtering is right  *)
(* only for words that an int can hold.                                    *)
Derived ==
    /\ \A S \in Operands :
         /\ (\A k \in ref : k < 2^(IntWidth - 1)) =>
                cucon_ucset_filter(con, S) = FromSet(ref \cap S)
         /\ cucon_ucset_filter_image(con, [k \in S |-> UMAX - k]) =
                FromSet({UMAX - k : k \in ref \cap S})
    /\ \A lo, hi \in Keys :
         LET moved(T, d) == FromSet({Unsigned(k + d) : k \in T})
             inU == {k \in ref : k \in lo..hi}
             inS == {k \in ref : Signed(k) \in Signed(lo)..Signed(hi)}
         IN  /\ cucon_ucset_uclip(con, lo, hi) = FromSet(inU)
             /\ cucon_ucset_sclip(con, Signed(lo), Signed(hi)) = FromSet(inS)
             /\ \A d \in {-3, 12} :
                  /\ cucon_ucset_translate_uclip(con, d, lo, hi) = moved(inU, d)
                  /\ cucon_ucset_translate_sclip(con, d, Signed(lo), Signed(hi)) = moved(inS, d)
=============================================================================
