------------------------------- MODULE Ltree -------------------------------
(***************************************************************************)
(* cuex/ltree.c: sequences as hash-consed trees that are packed to the     *)
(* left, and the monoids of cuex/monoid.c and cuex/tmonoid.c made of them. *)
(* All subtrees of a node but the last are full; the last one may be of    *)
(* any lower depth.  A sequence of one element is the element.             *)
(***************************************************************************)
EXTENDS Integers, Sequences, FiniteSets, SequencesExt

CONSTANTS
    LOG2_FANOUT,        \* 2 in the build
    DEPTH_MAXP,         \* bound of the depths, from the bits for them
    MaxLen              \* the client's sequences are parts of 1..MaxLen

VARIABLES
    con,                \* a monoid expression
    ref                 \* the sequence it stands for

FANOUT == 2^LOG2_FANOUT
END == 2^20             \* CUEX_LTREE_END, above all lengths

Null == [null |-> TRUE]
Elem(n) == [elt |-> n]
Node(depth, subs) == [depth |-> depth, subs |-> subs]
IsNode(x) == "subs" \in DOMAIN x
SubSize(x) == FANOUT^(x.depth - 1)

RECURSIVE cuex_ltree_size(_)
cuex_ltree_size(x) ==
    IF x = Null THEN 0
    ELSE IF ~IsNode(x) THEN 1
    ELSE (Len(x.subs) - 1) * SubSize(x) + cuex_ltree_size(Last(x.subs))

RECURSIVE AtIndex(_, _)
AtIndex(x, i) ==
    IF IsNode(x) THEN AtIndex(x.subs[1 + (i \div SubSize(x))], i % SubSize(x))
    ELSE IF i = 0 THEN x ELSE Null          \* cu_bugf
cuex_ltree_at(x, i) == AtIndex(x, IF i < 0 THEN i + cuex_ltree_size(x) ELSE i)

RECURSIVE cuex_ltree_last(_)
cuex_ltree_last(x) == IF IsNode(x) THEN cuex_ltree_last(Last(x.subs)) ELSE x

\* The elements that cuex_ltree_forall calls back with, as long as it returns
\* true.
RECURSIVE cuex_ltree_forall(_)
cuex_ltree_forall(x) ==
    IF x = Null THEN << >>
    ELSE IF ~IsNode(x) THEN <<x>>
    ELSE FoldLeft(LAMBDA s, y : s \o cuex_ltree_forall(y), << >>, x.subs)
-----------------------------------------------------------------------------
(* An iterator has the tree that it is in at each depth, with the element  *)
(* to return next at depth zero.                                           *)

Digit(i, k) == (i \div FANOUT^(k - 1)) % FANOUT
\* What is at depth k - 1 on the way to element i, below x at depth k: a last
\* subtree that is not as deep stands at all depths above its own.
Below(x, i, k) == IF IsNode(x) /\ x.depth = k THEN x.subs[1 + Digit(i, k)] ELSE x

RECURSIVE Descend(_, _, _)
Descend(stack, i, k) ==
    IF k = 0 THEN stack
    ELSE Descend([stack EXCEPT ![k - 1] = Below(stack[k], i, k)], i, k - 1)

StackOf(x, i) ==
    Descend([k \in 0..(IF x # Null /\ IsNode(x) THEN x.depth ELSE 0) |-> x], i,
            IF x # Null /\ IsNode(x) THEN x.depth ELSE 0)

cuex_ltree_itr_init_full(x) == [cur |-> 0, end |-> cuex_ltree_size(x), stack |-> StackOf(x, 0)]

FromEnd(x, i) == IF i < 0 THEN i + cuex_ltree_size(x) ELSE i
Smaller(i, j) == IF i < j THEN i ELSE j
ItrFrom(x, i, end, j) ==
    IF i = end THEN [cur |-> i, end |-> end, stack |-> << >>]       \* early return
    ELSE [cur |-> i, end |-> Smaller(j, end), stack |-> StackOf(x, i)]
cuex_ltree_itr_init_slice(x, i, j) ==
    ItrFrom(x, FromEnd(x, i), cuex_ltree_size(x), FromEnd(x, j))

cuex_ltree_itr_is_end(itr) == itr.cur = itr.end
\* The highest depth whose digit changes from i to i + 1.
Carry(i) == 1 + Cardinality({k \in 1..DEPTH_MAXP : (i + 1) % FANOUT^k = 0})
\* What is returned is the stack's element; this is the iterator after that.
cuex_ltree_itr_get(itr) ==
    IF itr.cur + 1 = itr.end THEN [itr EXCEPT !.cur = @ + 1]
    ELSE [itr EXCEPT !.cur = @ + 1, !.stack = Descend(@, itr.cur + 1, Carry(itr.cur))]
Current(itr) == itr.stack[0]

RECURSIVE ItrVisit(_)
ItrVisit(itr) ==
    IF cuex_ltree_itr_is_end(itr) THEN << >>
    ELSE <<Current(itr)>> \o ItrVisit(cuex_ltree_itr_get(itr))
-----------------------------------------------------------------------------
(* Building from an iterator.  The operators return the tree x, or the     *)
(* subtrees v of one, and the iterator.                                    *)

Packed(depth, v) == IF Len(v) = 1 THEN v[1] ELSE Node(depth, v)

RECURSIVE ltree_fresh(_, _), FreshSubs(_, _, _), FreshNext(_, _, _)
FreshTree(depth, s) == [x |-> Packed(depth, s.v), itr |-> s.itr]
ltree_fresh(depth, itr) ==
    IF depth = 0 THEN [x |-> Current(itr), itr |-> cuex_ltree_itr_get(itr)]
    ELSE FreshTree(depth, FreshSubs(depth - 1, << >>, itr))
FreshSubs(depth, v, itr) ==
    IF Len(v) = FANOUT \/ cuex_ltree_itr_is_end(itr) THEN [v |-> v, itr |-> itr]
    ELSE FreshNext(depth, v, ltree_fresh(depth, itr))
FreshNext(depth, v, r) == FreshSubs(depth, Append(v, r.x), r.itr)

\* The last subtrees are filled first, then x is put under nodes up to xdepth.
RECURSIVE ltree_fill(_, _, _), FillUp(_, _, _, _), FillOn(_, _, _)
FillLast(xdepth, x, r) == FillUp(xdepth, x.depth, Append(Front(x.subs), r.x), r.itr)
ltree_fill(xdepth, x, itr) ==
    IF ~IsNode(x)
    THEN IF xdepth = 0 THEN [x |-> x, itr |-> itr] ELSE FillUp(xdepth, 1, <<x>>, itr)
    ELSE IF x.depth > 1 THEN FillLast(xdepth, x, ltree_fill(x.depth - 1, Last(x.subs), itr))
    ELSE FillUp(xdepth, 1, x.subs, itr)
FillUp(xdepth, depth, v, itr) == FillOn(xdepth, depth, FreshSubs(depth - 1, v, itr))
FillOn(xdepth, depth, s) ==
    IF depth + 1 <= xdepth /\ ~cuex_ltree_itr_is_end(s.itr)
    THEN FillUp(xdepth, depth + 1, <<Node(depth, s.v)>>, s.itr)
    ELSE [x |-> Node(depth, s.v), itr |-> s.itr]

RECURSIVE Grow(_, _), GrowOn(_, _)
Grow(depth, r) ==
    IF cuex_ltree_itr_is_end(r.itr) THEN r.x
    ELSE GrowOn(depth + 1, FreshSubs(depth, <<r.x>>, r.itr))
GrowOn(depth, s) == Grow(depth, [x |-> Node(depth, s.v), itr |-> s.itr])

ConcatItr(x, itr) ==
    IF IsNode(x) THEN Grow(x.depth, ltree_fill(x.depth, x, itr))
    ELSE Grow(0, [x |-> x, itr |-> itr])
cuex_ltree_concat(x, y) ==
    IF x = Null THEN y ELSE IF y = Null THEN x ELSE ConcatItr(x, cuex_ltree_itr_init_full(y))
-----------------------------------------------------------------------------
(* Building from a source, the sequence of the elements left in it; the    *)
(* end of the source is only seen by asking for an element.                *)

RECURSIVE ltree_fresh_source(_, _), SourceSubs(_, _, _), SourceNext(_, _, _)
SourceTree(depth, s) ==
    [x |-> IF s.v = << >> THEN Null ELSE Packed(depth, s.v), src |-> s.src]
ltree_fresh_source(depth, src) ==
    IF depth > 0 THEN SourceTree(depth, SourceSubs(depth - 1, << >>, src))
    ELSE IF src = << >> THEN [x |-> Null, src |-> src]
    ELSE [x |-> Head(src), src |-> Tail(src)]
SourceSubs(depth, v, src) ==
    IF Len(v) = FANOUT THEN [v |-> v, src |-> src]
    ELSE SourceNext(depth, v, ltree_fresh_source(depth, src))
SourceNext(depth, v, r) ==
    IF r.x = Null THEN [v |-> v, src |-> r.src] ELSE SourceSubs(depth, Append(v, r.x), r.src)

\* When the source ends, the node at hand is made of what there is, also if
\* that is one subtree.
RECURSIVE ltree_fill_source(_, _, _), SourceFillUp(_, _, _, _), SourceFillOn(_, _, _)
SourceFillLast(xdepth, x, r) == SourceFillUp(xdepth, x.depth, Append(Front(x.subs), r.x), r.src)
ltree_fill_source(xdepth, x, src) ==
    IF ~IsNode(x)
    THEN IF xdepth = 0 THEN [x |-> x, src |-> src] ELSE SourceFillUp(xdepth, 1, <<x>>, src)
    ELSE IF x.depth > 1 THEN SourceFillLast(xdepth, x, ltree_fill_source(x.depth - 1, Last(x.subs), src))
    ELSE SourceFillUp(xdepth, 1, x.subs, src)
SourceFillUp(xdepth, depth, v, src) == SourceFillOn(xdepth, depth, SourceSubs(depth - 1, v, src))
SourceFillOn(xdepth, depth, s) ==
    IF Len(s.v) = FANOUT /\ depth + 1 <= xdepth
    THEN SourceFillUp(xdepth, depth + 1, <<Node(depth, s.v)>>, s.src)
    ELSE [x |-> Node(depth, s.v), src |-> s.src]

RECURSIVE SourceGrow(_, _), SourceGrowOn(_, _)
SourceGrow(depth, r) == SourceGrowOn(depth + 1, SourceSubs(depth, <<r.x>>, r.src))
SourceGrowOn(depth, s) ==
    IF Len(s.v) < FANOUT THEN Packed(depth, s.v)
    ELSE SourceGrow(depth, [x |-> Node(depth, s.v), src |-> s.src])

\* Also cuex_ltree_append_from_array.
cuex_ltree_append_from_source(x, src) ==
    IF x # Null
    THEN IF IsNode(x) THEN SourceGrow(x.depth, ltree_fill_source(x.depth, x, src))
         ELSE SourceGrow(0, [x |-> x, src |-> src])
    ELSE IF src = << >> THEN Null
    ELSE SourceGrow(0, [x |-> Head(src), src |-> Tail(src)])
cuex_ltree_from_source(src) == cuex_ltree_append_from_source(Null, src)
-----------------------------------------------------------------------------
RECURSIVE cuex_ltree_prefix(_, _)
PrefixSubs(x, m, l) ==
    SubSeq(x.subs, 1, m) \o (IF l = 0 THEN << >> ELSE <<cuex_ltree_prefix(x.subs[m + 1], l)>>)
cuex_ltree_prefix(x, n) ==
    IF n = 0 THEN Null
    ELSE IF ~IsNode(x) THEN x
    ELSE IF n < SubSize(x) THEN cuex_ltree_prefix(x.subs[1], n)
    ELSE Packed(x.depth, PrefixSubs(x, n \div SubSize(x), n % SubSize(x)))

SliceAt(x, i, j) ==
    IF i = j THEN Null
    ELSE IF i = 0 THEN IF j = END THEN x ELSE cuex_ltree_prefix(x, j)
    ELSE ltree_fresh(DEPTH_MAXP - 1, cuex_ltree_itr_init_slice(x, i, j)).x
cuex_ltree_slice(x, i, j) == SliceAt(x, FromEnd(x, i), FromEnd(x, j))
-----------------------------------------------------------------------------
(* Monoids: an expression of another kind is a generator, and stands for   *)
(* itself; products of no or of several generators are wrapped trees.  The *)
(* free monoids of cuex/tmonoid.c wrap all trees.                          *)
monoid_wrap(x) == [monoid |-> x]
IsNongen(x) == "monoid" \in DOMAIN x
TreeIn(x) == IF IsNongen(x) THEN x.monoid ELSE x
WrapUnlessGenerator(x) == IF x # Null /\ ~IsNode(x) THEN x ELSE monoid_wrap(x)

cuex_monoid_identity == monoid_wrap(Null)
cuex_monoid_product(x, y) ==
    IF x = cuex_monoid_identity THEN y
    ELSE IF y = cuex_monoid_identity THEN x
    ELSE monoid_wrap(cuex_ltree_concat(TreeIn(x), TreeIn(y)))
\* y is a generator.
cuex_monoid_rightmult(x, y) ==
    IF x = cuex_monoid_identity THEN y ELSE monoid_wrap(cuex_ltree_concat(TreeIn(x), y))
\* Also cuex_monoid_from_array and what is put into a _build_sinktor.
cuex_monoid_from_source(src) == WrapUnlessGenerator(cuex_ltree_from_source(src))
cuex_monoid_rightmult_source(x, src) ==
    IF x = cuex_monoid_identity \/ ~IsNongen(x)
    THEN WrapUnlessGenerator(cuex_ltree_append_from_source(TreeIn(x), src))
    ELSE monoid_wrap(cuex_ltree_append_from_source(TreeIn(x), src))
cuex_monoid_length(x) == IF IsNongen(x) THEN cuex_ltree_size(x.monoid) ELSE 1
cuex_monoid_factor_at(x, i) ==
    IF IsNongen(x) THEN cuex_ltree_at(x.monoid, i) ELSE IF i \in {0, -1} THEN x ELSE Null
GeneratorSlice(x, i, j) ==
    IF i = j THEN cuex_monoid_identity ELSE IF i = 0 /\ j \in {1, END} THEN x ELSE Null
cuex_monoid_factor_slice(x, i, j) ==
    IF IsNongen(x) THEN WrapUnlessGenerator(cuex_ltree_slice(x.monoid, i, j))
    ELSE GeneratorSlice(x, IF i < 0 THEN i + 1 ELSE i, IF j < 0 THEN j + 1 ELSE j)
\* Iterators and the source of the factors, which is an iterator as well.
cuex_monoid_itr_init_full(x) == cuex_ltree_itr_init_full(TreeIn(x))
cuex_monoid_itr_init_slice(x, i, j) == cuex_ltree_itr_init_slice(TreeIn(x), i, j)
cuex_any_monoid_factor_source(x, i, j) == cuex_ltree_itr_init_slice(TreeIn(x), i, j)
\* What _build_sinktor_put appended to the list.
monoid_build_sinktor_finish(l) == IF Len(l) = 1 THEN l[1] ELSE cuex_monoid_from_source(l)

tmonoid_wrap(opr, x) == [opr |-> opr, tmonoid |-> x]
cuex_tmonoid_identity(mult) == tmonoid_wrap(mult, Null)
cuex_tmonoid_generator(mult, x) == tmonoid_wrap(mult, x)
cuex_tmonoid_product(x, y) == tmonoid_wrap(x.opr, cuex_ltree_concat(x.tmonoid, y.tmonoid))
cuex_tmonoid_rightmult(x, y) == tmonoid_wrap(x.opr, cuex_ltree_concat(x.tmonoid, y))
\* Also of the arguments of a call, an array and a _build_sinktor's list.
cuex_tmonoid_from_source(mult, src) == tmonoid_wrap(mult, cuex_ltree_from_source(src))
cuex_tmonoid_rightmult_source(x, src) ==
    tmonoid_wrap(x.opr, cuex_ltree_append_from_source(x.tmonoid, src))
cuex_tmonoid_length(x) == cuex_ltree_size(x.tmonoid)
cuex_tmonoid_factor_at(x, i) == cuex_ltree_at(x.tmonoid, i)
cuex_tmonoid_factor_slice(x, i, j) == tmonoid_wrap(x.opr, cuex_ltree_slice(x.tmonoid, i, j))
cuex_tmonoid_itr_init_full(x) == cuex_ltree_itr_init_full(x.tmonoid)
cuex_tmonoid_itr_init_slice(x, i, j) == cuex_ltree_itr_init_slice(x.tmonoid, i, j)
tmonoid_factor_source(x) == cuex_ltree_itr_init_full(x.tmonoid)
tmonoid_build_sinktor_finish(tpl, l) == cuex_tmonoid_from_source(tpl.opr, l)
-----------------------------------------------------------------------------
(* The tree of a sequence: the least power of the fanout that holds it is  *)
(* divided by the fanout.                                                  *)
RECURSIVE TreeOf(_), Chunks(_, _)
Chunks(s, n) ==
    IF Len(s) <= n THEN <<TreeOf(s)>>
    ELSE <<TreeOf(SubSeq(s, 1, n))>> \o Chunks(SubSeq(s, n + 1, Len(s)), n)
DepthFor(n) == CHOOSE d \in 0..DEPTH_MAXP : FANOUT^d >= n /\ (d > 0 => FANOUT^(d - 1) < n)
TreeOf(s) ==
    IF s = << >> THEN Null
    ELSE IF Len(s) = 1 THEN s[1]
    ELSE Node(DepthFor(Len(s)), Chunks(s, FANOUT^(DepthFor(Len(s)) - 1)))
MonoidOf(s) == IF Len(s) = 1 THEN s[1] ELSE monoid_wrap(TreeOf(s))
TmonoidOf(opr, s) == tmonoid_wrap(opr, TreeOf(s))
Elems(a, b) == [i \in 1..(b + 1 - a) |-> Elem(a + i - 1)]

\* A sequence of the client is Elems(a, b); all operands continue it.
First == IF ref = << >> THEN 1 ELSE ref[1].elt
Lst == IF ref = << >> THEN 0 ELSE Last(ref).elt

Init == con = cuex_monoid_identity /\ ref = << >>

Next ==
    \/ \E b \in Lst..MaxLen :
          /\ con' = cuex_monoid_product(con, MonoidOf(Elems(Lst + 1, b)))
          /\ ref' = ref \o Elems(Lst + 1, b)
    \/ \E a \in 1..First :
          /\ con' = cuex_monoid_product(MonoidOf(Elems(a, First - 1)), con)
          /\ ref' = Elems(a, First - 1) \o ref
    \/ /\ Lst < MaxLen
       /\ con' = cuex_monoid_rightmult(con, Elem(Lst + 1))
       /\ ref' = Append(ref, Elem(Lst + 1))
    \/ \E a \in 1..MaxLen : \E b \in a..MaxLen :
          con' = cuex_monoid_from_source(Elems(a, b)) /\ ref' = Elems(a, b)
    \/ \E i \in 0..Len(ref) : \E j \in i..Len(ref) :
          con' = cuex_monoid_factor_slice(con, i, j) /\ ref' = SubSeq(ref, i + 1, j)

(* A sequence has one expression, whatever operations it came from, as     *)
(* expressions are compared by their addresses.                            *)
Canonical == con = MonoidOf(ref)

(* Lengths, elements from either end and iterations are of the sequence.   *)
Answers ==
    /\ cuex_monoid_length(con) = Len(ref)
    /\ cuex_ltree_forall(TreeIn(con)) = ref
    /\ ref # << >> => cuex_ltree_last(TreeIn(con)) = Last(ref)
    /\ \A i \in 1..Len(ref) : /\ cuex_monoid_factor_at(con, i - 1) = ref[i]
                              /\ cuex_monoid_factor_at(con, i - 1 - Len(ref)) = ref[i]
    /\ ItrVisit(cuex_monoid_itr_init_full(con)) = ref
    /\ \A i \in 0..Len(ref) : \A j \in i..Len(ref) :
         LET part == SubSeq(ref, i + 1, j)
         IN  /\ ItrVisit(cuex_monoid_itr_init_slice(con, i, j)) = part
             /\ ItrVisit(cuex_any_monoid_factor_source(con, i, j)) = part

(* Slices by indices from the end and without an end, and sequences with   *)
(* more elements from a source.  A source may leave a node with a single   *)
(* subtree, so that the expression is only claimed to be the one of the    *)
(* sequence where it extends a full tree; the elements are always right.   *)
(* A slice from the very end without an end is not claimed to be empty: it *)
(* is a node without subtrees.                                             *)
Derived ==
    /\ \A i, j \in 1..Len(ref) :
         i >= j => /\ cuex_monoid_factor_slice(con, -i, Len(ref) - j + 1) = MonoidOf(SubSeq(ref, Len(ref) - i + 1, Len(ref) - j + 1))
                   /\ cuex_monoid_factor_slice(con, -i, -j) = MonoidOf(SubSeq(ref, Len(ref) - i + 1, Len(ref) - j))
    /\ \A i \in 1..Len(ref) : cuex_monoid_factor_slice(con, i - 1, END) = MonoidOf(SubSeq(ref, i, Len(ref)))
    /\ \A b \in Lst..MaxLen :
         LET more == Elems(Lst + 1, b)
             x == cuex_monoid_rightmult_source(con, more)
         IN  /\ cuex_ltree_forall(TreeIn(x)) = ref \o more
             /\ cuex_monoid_length(x) = Len(ref) + Len(more)
             /\ Len(ref) \in {0} \cup {FANOUT^d : d \in 0..DEPTH_MAXP} => x = MonoidOf(ref \o more)

(* A free monoid wraps the tree of every sequence, with its operator, also *)
(* of an empty one and of a generator: products, factors and what is built *)
(* from factors do not depend on how the sequence came about.              *)
Free ==
    LET x == TmonoidOf("mult", ref)
    IN  /\ x = FoldLeft(cuex_tmonoid_rightmult, cuex_tmonoid_identity("mult"), ref)
        /\ tmonoid_build_sinktor_finish(x, ref) = x
        /\ monoid_build_sinktor_finish(ref) = con
        /\ cuex_tmonoid_length(x) = Len(ref)
        /\ ItrVisit(cuex_tmonoid_itr_init_full(x)) = ref /\ ItrVisit(tmonoid_factor_source(x)) = ref
        /\ \A i \in 1..Len(ref) :
             /\ cuex_tmonoid_factor_at(x, i - 1) = ref[i] /\ cuex_tmonoid_factor_at(x, i - 1 - Len(ref)) = ref[i]
             /\ cuex_tmonoid_product(cuex_tmonoid_factor_slice(x, 0, i),
                                     cuex_tmonoid_factor_slice(x, i, Len(ref))) = x
             /\ cuex_tmonoid_factor_slice(x, i - 1, i) = cuex_tmonoid_generator("mult", ref[i])
             /\ ItrVisit(cuex_tmonoid_itr_init_slice(x, i - 1, -1)) = SubSeq(ref, i, Len(ref) - 1)
        /\ \A b \in Lst..MaxLen :
             LET y == cuex_tmonoid_rightmult_source(x, Elems(Lst + 1, b))
             IN  y.opr = "mult" /\ ItrVisit(cuex_tmonoid_itr_init_full(y)) = ref \o Elems(Lst + 1, b)
=============================================================================
