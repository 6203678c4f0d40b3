------------------------------- MODULE Heaps -------------------------------
(***************************************************************************)
(* The priority queues of cucon: priq.c (a heap in an array), pritree.c    *)
(* (a complete tree of linked nodes, whose priorities may change), fibq.c  *)
(* and fibheap.c (Fibonacci heaps).  The elements are compared with a      *)
(* function of the client, which may or may not hold for equal priorities, *)
(* but for pritree, which has numbers.  The first in a queue has the       *)
(* greatest priority.                                                      *)
(***************************************************************************)
EXTENDS Integers, Sequences, FiniteSets, FiniteSetsExt, SequencesExt

CONSTANTS
    ReduceAbove,        \* no capacity is given up at or below (8)
    Elems, Pri,         \* the elements and their priorities
    Pris,               \* the priorities given to nodes of a pritree
    Keep                \* what filters keep: some sets of elements

VARIABLES
    con,                \* the queue: kind, strict, and the fields of its struct
    ref                 \* its elements, with their priorities

Prior(q, a, b) == IF q.strict THEN q.pri[a] > q.pri[b] ELSE q.pri[a] >= q.pri[b]
PrioReq(strict, a, b) == Prior([strict |-> strict, pri |-> Pri], a, b)
FloorLog2(n) == CHOOSE l \in 0..8 : 2^l <= n /\ n < 2^(l + 1)
CeilLog2(n) == CHOOSE l \in 0..8 : 2^l >= n /\ (l = 0 \/ 2^(l - 1) < n)
-----------------------------------------------------------------------------
(* priq.c.  The array is indexed from 0, and what is behind the elements   *)
(* stays as it was.                                                        *)

Nothing == 0
cucon_priq_init(strict, pri) ==
    [kind |-> "priq", strict |-> strict, pri |-> pri, count |-> 0, capacity |-> 0, arr |-> << >>]

At(q, i) == q.arr[i + 1]
Put(q, i, e) == [q EXCEPT !.arr[i + 1] = e]
Swap(q, i, j) == Put(Put(q, i, At(q, j)), j, At(q, i))

expand_by_2(q) ==
    LET cap == IF q.capacity = 0 THEN 4 ELSE 2 * q.capacity
    IN  [q EXCEPT !.capacity = cap, !.arr = @ \o [i \in 1..(cap - q.capacity) |-> Nothing]]

reduce_by_4(q) ==
    [q EXCEPT !.capacity = @ \div 4, !.arr = SubSeq(@, 1, q.capacity \div 4)]

RECURSIVE SiftUp(_, _)
SiftUp(q, n) ==
    LET m == ((n + 1) \div 2) - 1
    IN  IF n = 0 \/ Prior(q, At(q, m), At(q, n)) THEN q ELSE SiftUp(Swap(q, m, n), m)

cucon_priq_insert(q, e) ==
    LET r == IF q.count >= q.capacity THEN expand_by_2(q) ELSE q
    IN  [SiftUp(Put(r, q.count, e), q.count) EXCEPT !.count = @ + 1]

\* The right child of the last inner node may be the place just given up.
RECURSIVE SiftDown(_, _, _)
SiftDown(q, i, n) ==
    LET l == (2 * i) + 1
        j == IF Prior(q, At(q, l + 1), At(q, l)) THEN l + 1 ELSE l
    IN  IF l >= n \/ Prior(q, At(q, i), At(q, j)) THEN q
        ELSE SiftDown(Swap(q, i, j), j, n)

cucon_priq_pop_front(q) ==
    LET n == q.count - 1
        r == SiftDown([Put(q, 0, At(q, n)) EXCEPT !.count = n], 0, n)
    IN  IF n > ReduceAbove /\ n <= r.capacity \div 4 THEN reduce_by_4(r) ELSE r

-----------------------------------------------------------------------------
(* pritree.c.  The nodes are numbered by level, as the paths that the code *)
(* finds by the bits of a number; _swap_left and _swap_right exchange a    *)
(* node and its child.                                                     *)

cucon_pritree_init == [kind |-> "pritree", front |-> Nothing, tree |-> << >>]

PNode(e, p) == [elem |-> e, priority |-> p]
\* -DBL_MAX and DBL_MAX
Lowest == -1000
Highest == 1000

PSwap(q, i, j) == [q EXCEPT !.tree[i] = q.tree[j], !.tree[j] = q.tree[i]]
Position(q, e) == CHOOSE i \in DOMAIN q.tree : q.tree[i].elem = e

RECURSIVE Raise(_, _)
Raise(q, i) ==
    IF i = 1 THEN [q EXCEPT !.front = q.tree[1].elem]
    ELSE IF q.tree[i \div 2].priority < q.tree[i].priority
    THEN Raise(PSwap(q, i, i \div 2), i \div 2)
    ELSE q

increase_priority_to(q, e, p) ==
    LET i == Position(q, e)
        r == [q EXCEPT !.tree[i].priority = p]
    IN  IF i = 1 THEN r ELSE Raise(r, i)

\* The child that is to be above, if any: the left one among equals.
Better(q, i) ==
    LET n == Len(q.tree)
        c == IF 2 * i + 1 <= n /\ q.tree[2 * i].priority < q.tree[2 * i + 1].priority
             THEN 2 * i + 1 ELSE 2 * i
    IN  IF 2 * i > n \/ q.tree[c].priority <= q.tree[i].priority THEN 0 ELSE c

RECURSIVE Lower(_, _)
Lower(q, i) == IF Better(q, i) = 0 THEN q ELSE Lower(PSwap(q, i, Better(q, i)), Better(q, i))

decrease_priority_to(q, e, p) ==
    LET i == Position(q, e)
        r == [q EXCEPT !.tree[i].priority = p]
        c == Better(r, i)
    IN  Lower(IF i = 1 /\ c # 0 THEN [r EXCEPT !.front = r.tree[c].elem] ELSE r, i)

cucon_pritree_change_priority(q, e, p) ==
    LET old == q.tree[Position(q, e)].priority
    IN  IF p > old THEN increase_priority_to(q, e, p)
        ELSE IF p < old THEN decrease_priority_to(q, e, p) ELSE q

cucon_pritree_add_to_all_priorities(q, delta) ==
    [q EXCEPT !.tree = [i \in DOMAIN @ |-> PNode(@[i].elem, @[i].priority + delta)]]

\* The node at i goes down to the last place, n, and the children that go up
\* for it are put in order.
RECURSIVE Sink(_, _, _)
Sink(q, i, n) ==
    LET c == n \div 2^(FloorLog2(n) - FloorLog2(i) - 1)
        up == q.tree[c].elem
        r == PSwap(q, i, c)
        s == decrease_priority_to(r, up, q.tree[c].priority)
        t == IF i = 1 THEN [s EXCEPT !.front = s.tree[1].elem] ELSE s
    IN  IF i = n THEN q ELSE Sink(t, c, n)

cucon_pritree_pop(q) ==
    LET n == Len(q.tree)
        i == Position(q, q.front)
        r == Sink([q EXCEPT !.tree[i].priority = Lowest], i, n)
    IN  IF n = 1 THEN cucon_pritree_init ELSE [r EXCEPT !.tree = SubSeq(@, 1, n - 1)]

cucon_pritree_erase(q, e) == cucon_pritree_pop(increase_priority_to(q, e, Highest))

cucon_pritree_insert_init(q, e, p) ==
    IF q.tree = << >> THEN [q EXCEPT !.front = e, !.tree = <<PNode(e, p)>>]
    ELSE increase_priority_to([q EXCEPT !.tree = Append(@, PNode(e, Lowest))], e, p)

\* The order in which conj_down_to calls back: not that of the priorities.
RECURSIVE DownTo(_, _, _)
DownTo(q, i, min) ==
    IF i > Len(q.tree) \/ q.tree[i].priority < min THEN << >>
    ELSE DownTo(q, 2 * i, min) \o <<q.tree[i].elem>> \o DownTo(q, 2 * i + 1, min)
cucon_prinode_conj_down_to(q, min) == DownTo(q, 1, min)
-----------------------------------------------------------------------------
(* fibq.c.  A node is a tree, the chain of roots has the first in front.   *)

Tree(e, kids) == [elem |-> e, mark |-> FALSE, degree |-> Len(kids), kids |-> kids]
Leaf(e) == Tree(e, << >>)
NoTree == Leaf(Nothing)
Unmarked(ts) == [i \in DOMAIN ts |-> [ts[i] EXCEPT !.mark = FALSE]]

max_degree(card) == (3 * CeilLog2(card) + 1) \div 2

cucon_fibq_init(strict) == [kind |-> "fibq", strict |-> strict, card |-> 0, roots |-> << >>]

cucon_fibq_insert(q, e) ==
    [q EXCEPT !.roots = IF @ # << >> /\ PrioReq(q.strict, e, @[1].elem)
                        THEN <<Leaf(e)>> \o @ ELSE Append(@, Leaf(e)),
              !.card = @ + 1]

cucon_fibq_union_d(q, qp) ==
    [q EXCEPT !.roots = IF PrioReq(q.strict, q.roots[1].elem, qp.roots[1].elem)
                        THEN @ \o qp.roots ELSE qp.roots \o @,
              !.card = @ + qp.card]

\* Of two trees of the same degree one goes below the other.
Below(child, root) == [root EXCEPT !.kids = <<child>> \o @, !.degree = @ + 1]

RECURSIVE PairUp(_, _, _)
PairUp(strict, by, root) ==
    LET d == root.degree
        y == by[d]
    IN  IF y = NoTree THEN [by EXCEPT ![d] = root]
        ELSE PairUp(strict, [by EXCEPT ![d] = NoTree],
                    IF PrioReq(strict, y.elem, root.elem) THEN Below(root, y) ELSE Below(y, root))

\* The first root keeps its mark.
update_min(q) ==
    LET none == [d \in 0..(max_degree(q.card) - 1) |-> NoTree]
        first == [none EXCEPT ![q.roots[1].degree] = q.roots[1]]
        by == FoldLeft(LAMBDA b, t : PairUp(q.strict, b, t), first, Unmarked(Tail(q.roots)))
        ts == SelectSeq([i \in 1..max_degree(q.card) |-> by[i - 1]], LAMBDA t : t # NoTree)
        chained == FoldLeft(LAMBDA c, t :
                       IF PrioReq(q.strict, c[1].elem, t.elem)
                       THEN <<c[1], t>> \o Tail(c) ELSE <<t>> \o c,
                       <<ts[1]>>, Tail(ts))
    IN  [q EXCEPT !.roots = chained]

cucon_fibq_pop_front(q) ==
    LET top == q.roots[1]
    IN  CASE q.card = 1 -> [q EXCEPT !.card = 0, !.roots = << >>]
          [] q.card = 2 -> [q EXCEPT !.card = 1,
                               !.roots = IF Len(@) > 1 THEN Tail(@) ELSE Unmarked(top.kids)]
          [] OTHER -> [update_min([q EXCEPT !.roots = Tail(@) \o top.kids]) EXCEPT !.card = @ - 1]

\* Filters a chain below a root; f.roots collects what is moved to the roots,
\* f.rm counts what the chain loses.
RECURSIVE Filter(_, _, _)
Filter(f, S, chain) ==
    FoldLeft(LAMBDA acc, node :
        LET sub == Filter([acc EXCEPT !.chain = << >>, !.rm = 0], S, node.kids)
            kept == [node EXCEPT !.kids = sub.chain, !.degree = @ - sub.rm]
            out == [sub EXCEPT !.chain = acc.chain, !.rm = acc.rm]
        IN  IF node.elem \notin S
            THEN [out EXCEPT !.roots = @ \o Unmarked(sub.chain), !.card = @ - 1, !.rm = @ + 1]
            ELSE IF sub.rm > 1 \/ (sub.rm > 0 /\ node.mark)
            THEN [out EXCEPT !.roots = @ \o Unmarked(<<kept>>), !.rm = @ + 1]
            ELSE IF sub.rm > 0 THEN [out EXCEPT !.chain = Append(@, [kept EXCEPT !.mark = TRUE])]
            ELSE [out EXCEPT !.chain = Append(@, kept)],
        f, chain)

\* Undefined when fewer than two elements are kept: update_min has no array.
cucon_fibq_filter_d(q, S) ==
    LET r == FoldLeft(LAMBDA acc, root :
                 LET sub == Filter([acc EXCEPT !.chain = << >>, !.rm = 0], S, root.kids)
                     kept == [root EXCEPT !.kids = sub.chain, !.degree = @ - sub.rm]
                 IN  IF root.elem \in S THEN [sub EXCEPT !.roots = Append(@, kept)]
                     ELSE [sub EXCEPT !.roots = @ \o Unmarked(sub.chain), !.card = @ - 1],
                 [roots |-> << >>, chain |-> << >>, rm |-> 0, card |-> q.card], q.roots)
    IN  update_min([q EXCEPT !.roots = r.roots, !.card = r.card])
-----------------------------------------------------------------------------
(* fibheap.c.  The cycles of roots and of children are sequences that      *)
(* begin at min_root and at the children link.                             *)

cucon_fibheap_init == [kind |-> "fibheap", strict |-> FALSE, card |-> 0, roots |-> << >>]

\* min_root becomes the i-th root.
FromRoot(roots, i) == SubSeq(roots, i, Len(roots)) \o SubSeq(roots, 1, i - 1)

cucon_fibheap_insert(h, e) ==
    LET all == Append(h.roots, Leaf(e))
    IN  [h EXCEPT !.card = @ + 1,
                  !.roots = IF h.roots # << >> /\ ~PrioReq(h.strict, @[1].elem, e)
                            THEN FromRoot(all, Len(all)) ELSE all]

cucon_fibheap_union_d(h, h1) ==
    LET all == h.roots \o h1.roots
    IN  IF h1.roots = << >> THEN h
        ELSE [h EXCEPT !.card = @ + h1.card,
                       !.roots = IF h.roots # << >>
                                    /\ ~PrioReq(h.strict, @[1].elem, h1.roots[1].elem)
                                 THEN FromRoot(all, Len(@) + 1) ELSE all]

move_below(parent, node) == [parent EXCEPT !.kids = Append(@, node), !.degree = @ + 1]

\* The roots behind x are done, and of different degrees.
RECURSIVE LinkRoot(_, _, _)
LinkRoot(strict, done, x) ==
    LET same == {i \in DOMAIN done : done[i].degree = x.degree}
        i == CHOOSE i \in same : TRUE
        y == done[i]
        rest == SubSeq(done, 1, i - 1) \o SubSeq(done, i + 1, Len(done))
    IN  IF same = {} THEN Append(done, x)
        ELSE LinkRoot(strict, rest,
                      IF PrioReq(strict, x.elem, y.elem) THEN move_below(x, y) ELSE move_below(y, x))

cucon_fibheap_pop_front(h) ==
    LET list == Tail(h.roots) \o h.roots[1].kids
        done == FoldLeft(LAMBDA d, x : LinkRoot(h.strict, d, x), << >>, list)
        \* the last one placed that no one placed before is ahead of
        min == CHOOSE i \in DOMAIN done :
                  \A j \in DOMAIN done :
                      /\ PrioReq(FALSE, done[i].elem, done[j].elem)
                      /\ j > i => ~PrioReq(FALSE, done[j].elem, done[i].elem)
    IN  IF h.card = 1 THEN cucon_fibheap_init
        ELSE [h EXCEPT !.card = @ - 1, !.roots = FromRoot(done, min)]
-----------------------------------------------------------------------------
With(f, e, p) == [x \in DOMAIN f \cup {e} |-> IF x = e THEN p ELSE f[x]]
Only(f, S) == [x \in DOMAIN f \cap S |-> f[x]]
Absent == Elems \ DOMAIN ref

Init ==
    /\ con \in {cucon_priq_init(s, Pri) : s \in BOOLEAN} \cup {cucon_fibq_init(s) : s \in BOOLEAN}
                  \cup {cucon_pritree_init, cucon_fibheap_init}
    /\ ref = << >>

NextPriq ==
    /\ con.kind = "priq"
    /\ \/ \E e \in Absent : con' = cucon_priq_insert(con, e) /\ ref' = With(ref, e, Pri[e])
       \/ /\ con.count > 0
          /\ con' = cucon_priq_pop_front(con)
          /\ ref' = Only(ref, Elems \ {At(con, 0)})

NextPritree ==
    /\ con.kind = "pritree"
    /\ \/ \E e \in Absent, p \in Pris :
            con' = cucon_pritree_insert_init(con, e, p) /\ ref' = With(ref, e, p)
       \/ \E e \in DOMAIN ref, p \in Pris :
            con' = cucon_pritree_change_priority(con, e, p) /\ ref' = With(ref, e, p)
       \/ \E e \in DOMAIN ref :
            con' = cucon_pritree_erase(con, e) /\ ref' = Only(ref, Elems \ {e})
       \/ /\ con.tree # << >>
          /\ con' = cucon_pritree_pop(con) /\ ref' = Only(ref, Elems \ {con.front})

NextFibq ==
    /\ con.kind = "fibq"
    /\ \/ \E e \in Absent : con' = cucon_fibq_insert(con, e) /\ ref' = With(ref, e, Pri[e])
       \/ \E e, f \in Absent :
            /\ con.card > 0 /\ e < f
            /\ con' = cucon_fibq_union_d(con, cucon_fibq_insert(
                          cucon_fibq_insert(cucon_fibq_init(con.strict), e), f))
            /\ ref' = With(With(ref, e, Pri[e]), f, Pri[f])
       \/ /\ con.card > 0
          /\ con' = cucon_fibq_pop_front(con)
          /\ ref' = Only(ref, Elems \ {con.roots[1].elem})
       \/ \E S \in Keep :
            /\ Cardinality(S \cap DOMAIN ref) >= 2
            /\ con' = cucon_fibq_filter_d(con, S) /\ ref' = Only(ref, S)

NextFibheap ==
    /\ con.kind = "fibheap"
    /\ \/ \E e \in Absent : con' = cucon_fibheap_insert(con, e) /\ ref' = With(ref, e, Pri[e])
       \/ \E e, f \in Absent :
            /\ e < f
            /\ con' = cucon_fibheap_union_d(con, cucon_fibheap_insert(
                          cucon_fibheap_insert(cucon_fibheap_init, e), f))
            /\ ref' = With(With(ref, e, Pri[e]), f, Pri[f])
       \/ /\ con.card > 0
          /\ con' = cucon_fibheap_pop_front(con)
          /\ ref' = Only(ref, Elems \ {con.roots[1].elem})

Next == NextPriq \/ NextPritree \/ NextFibq \/ NextFibheap

fib[n \in Nat] == IF n < 2 THEN n ELSE fib[n - 1] + fib[n - 2]

\* The elements of a tree, in a sequence; a tree as cucon_fibq_validate has it.
RECURSIVE ElemsOf(_)
ElemsOf(t) == <<t.elem>> \o FlattenSeq([i \in DOMAIN t.kids |-> ElemsOf(t.kids[i])])
RECURSIVE ValidTree(_, _)
ValidTree(t, maxd) ==
    /\ t.degree = Len(t.kids) /\ t.degree <= maxd
    /\ Len(ElemsOf(t)) >= fib[t.degree + 2]
    /\ \A i \in DOMAIN t.kids : Pri[t.elem] >= Pri[t.kids[i].elem] /\ ValidTree(t.kids[i], maxd)

Contents(q) ==
    CASE q.kind = "priq" -> SubSeq(q.arr, 1, q.count)
      [] q.kind = "pritree" -> [i \in DOMAIN q.tree |-> q.tree[i].elem]
      [] OTHER -> FlattenSeq([i \in DOMAIN q.roots |-> ElemsOf(q.roots[i])])

(* Every element is in the queue once; parents are ahead of their children *)
(* and the front is ahead of all; the trees of Fibonacci heaps have nodes  *)
(* enough for their degrees, also after filtering, so that the arrays by   *)
(* degree are large enough.                                                *)
Ordered ==
    /\ ToSet(Contents(con)) = DOMAIN ref /\ Len(Contents(con)) = Cardinality(DOMAIN ref)
    /\ con.kind = "priq" =>
         /\ Len(con.arr) = con.capacity
         /\ \A i \in 1..(con.count - 1) : Pri[At(con, ((i + 1) \div 2) - 1)] >= Pri[At(con, i)]
    /\ con.kind = "pritree" =>
         /\ \A i \in DOMAIN con.tree : con.tree[i].priority = ref[con.tree[i].elem]
         /\ \A i \in 2..Len(con.tree) : con.tree[i \div 2].priority >= con.tree[i].priority
         /\ con.front = IF con.tree = << >> THEN Nothing ELSE con.tree[1].elem
    /\ con.kind \in {"fibq", "fibheap"} =>
         /\ con.card = Cardinality(DOMAIN ref)
         /\ \A i \in DOMAIN con.roots :
                /\ Pri[con.roots[1].elem] >= Pri[con.roots[i].elem]
                /\ ValidTree(con.roots[i], IF con.card < 2 THEN 0 ELSE
                       IF con.kind = "fibq" THEN max_degree(con.card) ELSE 2 * CeilLog2(con.card))

\* The elements popped until the queue is empty.
RECURSIVE Drained(_)
Drained(q) ==
    CASE q.kind = "priq" /\ q.count > 0 -> <<At(q, 0)>> \o Drained(cucon_priq_pop_front(q))
      [] q.kind = "pritree" /\ q.tree # << >> -> <<q.front>> \o Drained(cucon_pritree_pop(q))
      [] q.kind = "fibq" /\ q.roots # << >> ->
             <<q.roots[1].elem>> \o Drained(cucon_fibq_pop_front(q))
      [] q.kind = "fibheap" /\ q.roots # << >> ->
             <<q.roots[1].elem>> \o Drained(cucon_fibheap_pop_front(q))
      [] OTHER -> << >>

(* What is popped comes out in the order of priorities, all of it; the     *)
(* nodes above a priority are visited, if not in order.                    *)
Answers ==
    /\ LET s == Drained(con)
       IN  /\ ToSet(s) = DOMAIN ref /\ Len(s) = Cardinality(DOMAIN ref)
           /\ \A i \in 2..Len(s) : ref[s[i - 1]] >= ref[s[i]]
    /\ con.kind = "pritree" => \A p \in Pris :
           ToSet(cucon_prinode_conj_down_to(con, p)) = {e \in DOMAIN ref : ref[e] >= p}
=============================================================================
