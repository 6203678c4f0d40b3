------------------------------- MODULE Dlink -------------------------------
(***************************************************************************)
(* cu/dlink.h and cu/dlink.c: cyclic double links; cucon/list.c: lists     *)
(* made of such links, with the end of a list as one of the nodes; and     *)
(* cu/ptr_seq.c: sources of elements and what is done with them.           *)
(* The links of all nodes are a record of two functions, next and prev; an *)
(* operation is the sequence of its assignments.                           *)
(***************************************************************************)
EXTENDS Integers, Sequences, FiniteSets

CONSTANTS Nodes,
          Eols,         \* the nodes that are the ends (eol) of the two lists
          Val           \* the elements of the other nodes of the lists

VARIABLES con, ref

\* l->next = x, l->prev = x
SetNext(L, l, x) == [L EXCEPT !.next[l] = x]
SetPrev(L, l, x) == [L EXCEPT !.prev[l] = x]
\* a->next = b; b->prev = a
Join(L, a, b) == SetPrev(SetNext(L, a, b), b, a)

cu_dlink_init_singleton(L, l) == Join(L, l, l)
cu_dlink_is_singleton(L, l) == L.next[l] = l
cu_dlink_card_eq_2(L, l) == l # L.next[l] /\ L.prev[l] = L.next[l]
cu_dlink_card_leq_2(L, l) == L.prev[l] = L.next[l]

RECURSIVE CardFrom(_, _, _, _, _)
CardFrom(L, x0, x, n, limit) ==
    IF L.next[x] # x0 /\ n + 1 < limit THEN CardFrom(L, x0, L.next[x], n + 1, limit) ELSE n + 1
cu_dlink_card_lim(L, x, limit) == IF limit = 0 THEN 0 ELSE CardFrom(L, x, x, 0, limit)

\* One goes forward and the other backward until they meet or are back.
RECURSIVE Meet(_, _, _, _, _)
Meet(L, x0, y0, x, y) ==
    \/ x = y
    \/ L.next[x] = y
    \/ /\ L.next[x] # x0 /\ L.prev[y] # y0
       /\ Meet(L, x0, y0, L.next[x], L.prev[y])
cu_dlink_cocyclic(L, x, y) == Meet(L, x, y, x, y)

cu_dlink_erase(L, l) ==
    LET a == SetNext(L, L.prev[l], L.next[l]) IN SetPrev(a, a.next[l], a.prev[l])

cu_dlink_extract(L, l) == Join(cu_dlink_erase(L, l), l, l)

cu_dlink_insert_before(L, l, new) ==
    LET a == SetNext(SetPrev(L, new, L.prev[l]), new, l)
    IN  SetPrev(SetNext(a, a.prev[l], new), l, new)

cu_dlink_insert_after(L, l, new) ==
    LET a == SetNext(SetPrev(L, new, l), new, L.next[l])
    IN  SetNext(SetPrev(a, a.next[l], new), l, new)

cu_dlink_move_before(L, l, mv) ==
    LET a == cu_dlink_erase(L, mv)
        b == SetNext(SetPrev(a, mv, a.prev[l]), mv, l)
    IN  SetPrev(SetNext(b, b.prev[mv], mv), l, mv)

cu_dlink_move_after(L, l, mv) ==
    LET a == cu_dlink_erase(L, mv)
        b == SetNext(SetPrev(a, mv, l), mv, a.next[l])
        c == SetNext(b, l, mv)
    IN  SetPrev(c, c.next[mv], mv)

cu_dlink_splice_before(L, x, y) == Join(Join(L, L.prev[y], x), L.prev[x], y)
cu_dlink_splice_after(L, x, y) == Join(Join(L, x, L.next[y]), y, L.next[x])

\* The head is left as it was, out of any cycle.
cu_dlink_splice_complement_before(L, l, head) ==
    IF L.next[head] = head THEN L
    ELSE LET a == SetNext(L, L.prev[head], l)
             b == SetPrev(a, a.next[head], a.prev[l])
             c == SetNext(b, b.prev[l], b.next[head])
         IN  SetPrev(c, l, c.prev[head])

cu_dlink_splice_complement_after(L, l, head) ==
    IF L.next[head] = head THEN L
    ELSE LET a == SetPrev(L, L.next[head], l)
             b == SetNext(a, a.prev[head], a.next[l])
             c == SetPrev(b, b.next[l], b.prev[head])
         IN  SetNext(c, l, c.next[head])
-----------------------------------------------------------------------------
\* The cycle of x, from x on.
RECURSIVE Orbit(_, _, _)
Orbit(next, x0, x) == <<x>> \o IF next[x] = x0 THEN << >> ELSE Orbit(next, x0, next[x])
Cycle(L, x) == Orbit(L.next, x, x)
On(L, x) == {Cycle(L, x)[i] : i \in DOMAIN Cycle(L, x)}
But(s, x) == SelectSeq(s, LAMBDA y : y # x)

Init == /\ con = [next |-> [n \in Nodes |-> n], prev |-> [n \in Nodes |-> n]]
        /\ ref = << >>

Next ==
    /\ \E x, y \in Nodes :
        \/ con' = cu_dlink_splice_before(con, x, y)
        \/ con' = cu_dlink_splice_after(con, x, y)
        \/ x # y /\ con' = cu_dlink_move_before(con, x, y)
        \/ x # y /\ con' = cu_dlink_move_after(con, x, y)
        \/ con' = cu_dlink_extract(con, x)
    /\ UNCHANGED ref

(* After any moving, splicing and extracting every node is on one cycle,   *)
(* the same in both directions.                                            *)
Mutual == \A x \in Nodes : con.prev[con.next[x]] = x /\ con.next[con.prev[x]] = x

(* Counting up to a limit, and the search from both ends, say what the     *)
(* cycles are.                                                             *)
Answers ==
    \A x \in Nodes :
        /\ \A limit \in 0..(Cardinality(Nodes) + 1) :
               LET n == Cardinality(On(con, x))
               IN  cu_dlink_card_lim(con, x, limit) = IF n < limit THEN n ELSE limit
        /\ cu_dlink_is_singleton(con, x) <=> Cardinality(On(con, x)) = 1
        /\ cu_dlink_card_eq_2(con, x) <=> Cardinality(On(con, x)) = 2
        /\ cu_dlink_card_leq_2(con, x) <=> Cardinality(On(con, x)) <= 2
        /\ \A y \in Nodes : cu_dlink_cocyclic(con, x, y) <=> y \in On(con, x)

(* Splicing joins two cycles in order or splits one; a moved or inserted   *)
(* node is beside the other, the rest in the order it had; of a list with  *)
(* a head all but the head goes before or after the node.                  *)
Derived ==
    \A x, y \in Nodes :
        LET sb == cu_dlink_splice_before(con, x, y)
            sa == cu_dlink_splice_after(con, x, y)
            mb == cu_dlink_move_before(con, x, y)
            ma == cu_dlink_move_after(con, x, y)
            cb == cu_dlink_splice_complement_before(con, x, y)
            ca == cu_dlink_splice_complement_after(con, x, y)
            list == Tail(Cycle(con, y))
        IN  /\ y \notin On(con, x) =>
                 /\ Cycle(sb, x) = Cycle(con, x) \o Cycle(con, y)
                 /\ Cycle(sa, con.next[x]) = Cycle(con, con.next[x]) \o Cycle(con, con.next[y])
                 /\ Cycle(cb, x) = Cycle(con, x) \o list
                 /\ Cycle(ca, x) = <<x>> \o list \o Tail(Cycle(con, x))
            /\ x # y /\ y \in On(con, x) => On(sb, x) \cap On(sb, y) = {}
            /\ x # y =>
                 /\ Cycle(mb, x) = Append(But(Cycle(con, x), y), y)
                 /\ Cycle(ma, x) = <<x, y>> \o Tail(But(Cycle(con, x), y))
            /\ x # y /\ cu_dlink_is_singleton(con, y) =>
                 /\ cu_dlink_insert_before(con, x, y) = mb
                 /\ cu_dlink_insert_after(con, x, y) = ma
-----------------------------------------------------------------------------
(* Lists.  A node that is in no list has NULL links: it is to be allocated,*)
(* or was extracted, or is garbage.                                        *)
NULL == 0
Elems == Nodes \ {Eols[1], Eols[2]}
Forget(L, l) == SetPrev(SetNext(L, l, NULL), l, NULL)

cucon_list_init(L, e) == Join(L, e, e)
cucon_list_begin(L, e) == L.next[e]
cucon_list_is_empty(L, e) == L.next[e] = e
cucon_list_is_empty_or_singleton(L, e) == L.next[e] = L.prev[e]
cucon_list_is_singleton(L, e) == L.next[e] # e /\ L.next[e] = L.prev[e]

cucon_list_insert_init(L, pos, node) ==
    LET a == SetPrev(SetNext(L, node, pos), node, L.prev[pos])
    IN  SetPrev(SetNext(a, a.prev[node], node), pos, node)

\* The order of the last two assignments is the other one here.
cucon_list_insert_ptr(L, pos, node) ==
    LET a == SetPrev(SetPrev(SetNext(L, node, pos), node, L.prev[pos]), pos, node)
    IN  SetNext(a, a.prev[node], node)

Unlink(L, node) ==
    LET a == SetPrev(L, L.next[node], L.prev[node]) IN SetNext(a, a.prev[node], a.next[node])

cucon_list_insert_live(L, pos, node) ==
    LET u == Unlink(L, node)
        a == SetPrev(SetNext(u, node, pos), node, u.prev[pos])
    IN  SetPrev(SetNext(a, a.prev[node], node), pos, node)

cucon_list_extract(L, node) == Forget(Unlink(L, node), node)

\* The links after it, and the node that followed.
cucon_list_erase_node(L, it) == [links |-> cucon_list_extract(L, it), it |-> L.next[it]]

\* The first node from it on that has the element, or the end.
RECURSIVE Seek(_, _, _, _)
Seek(L, e, it, x) == IF it = e \/ Val[it] = x THEN it ELSE Seek(L, e, L.next[it], x)

cucon_list_find_ptr(L, e, x) ==
    LET it == Seek(L, e, cucon_list_begin(L, e), x) IN IF it = e THEN NULL ELSE it

cucon_list_erase_ptr(L, e, x) ==
    LET it == Seek(L, e, cucon_list_begin(L, e), x)
    IN  IF it = e THEN [links |-> L, it |-> e] ELSE cucon_list_erase_node(L, it)

RECURSIVE EraseFrom(_, _, _, _, _)
EraseFrom(L, e, it, x, count) ==
    IF it = e THEN [links |-> L, count |-> count]
    ELSE IF Val[it] = x
         THEN LET r == cucon_list_erase_node(L, it) IN EraseFrom(r.links, e, r.it, x, count + 1)
         ELSE EraseFrom(L, e, L.next[it], x, count)
cucon_list_erase_all_ptr(L, e, x) == EraseFrom(L, e, cucon_list_begin(L, e), x, 0)

cucon_list_rotate(L, e, first) ==
    IF cucon_list_begin(L, e) = first THEN L
    ELSE LET a == SetNext(L, L.prev[e], L.next[e])
             b == SetPrev(a, a.next[e], a.prev[e])
             c == SetPrev(SetNext(b, e, first), e, b.prev[first])
             d == SetPrev(c, first, e)
         IN  SetNext(d, d.prev[e], e)

cucon_list_rotate_backwards(L, e) ==
    IF cucon_list_is_empty_or_singleton(L, e) THEN L
    ELSE cucon_list_rotate(L, e, L.next[cucon_list_begin(L, e)])

Attach(L, e) == LET a == SetPrev(L, L.next[e], e) IN SetNext(a, a.prev[e], e)

SwapNonEmptyFirst(L, d, e) ==
    LET a == SetPrev(SetNext(L, d, L.next[e]), d, L.prev[e])
        b == SetPrev(SetNext(a, e, L.next[d]), e, L.prev[d])
    IN  IF cucon_list_is_empty(L, d) THEN Attach(cucon_list_init(a, e), d)
        ELSE Attach(Attach(b, e), d)

cucon_list_swap(L, d, e) ==
    IF cucon_list_is_empty(L, e)
    THEN IF cucon_list_is_empty(L, d) THEN L ELSE SwapNonEmptyFirst(L, e, d)
    ELSE SwapNonEmptyFirst(L, d, e)

\* The other list is destructed, and initialised again by its owner.
cucon_list_append_list_dct(L, e, d) ==
    LET mid == L.next[d]
        a == SetPrev(L, mid, L.prev[e])
        b == SetNext(a, a.prev[mid], mid)
        c == SetPrev(b, e, b.prev[d])
    IN  cucon_list_init(SetNext(c, c.prev[e], e), d)

cucon_list_prepend_list_dct(L, e, d) ==
    LET mid == L.prev[e]
        a == SetPrev(L, mid, L.prev[d])
        b == SetNext(a, a.prev[mid], mid)
        c == SetNext(b, e, b.next[d])
    IN  cucon_list_init(SetPrev(c, c.next[e], e), d)

\* Copies node by node into the nodes that to names in order.
RECURSIVE CopyFrom(_, _, _, _, _, _)
CopyFrom(L, e, src, d, last, to) ==
    IF src = e THEN Join(L, last, d)
    ELSE CopyFrom(Join(L, last, to[1]), e, L.next[src], d, to[1], Tail(to))
cucon_list_init_copy_mem(L, e, d, to) ==
    LET a == cucon_list_init(L, d) IN CopyFrom(a, e, a.next[e], d, d, to)

RECURSIVE CompareFrom(_, _, _, _, _)
CompareFrom(L, d, m, e, n) ==
    IF m = d \/ n = e THEN (IF m # d THEN 1 ELSE 0) - (IF n # e THEN 1 ELSE 0)
    ELSE IF Val[m] # Val[n] THEN Val[m] - Val[n]
    ELSE CompareFrom(L, d, L.next[m], e, L.next[n])
cucon_list_cmp_mem(L, d, e) == CompareFrom(L, d, L.next[d], e, L.next[e])

RECURSIVE CountFrom(_, _, _, _)
CountFrom(L, e, it, i) == IF it = e THEN i ELSE CountFrom(L, e, L.next[it], i + 1)
cucon_list_count(L, e) == CountFrom(L, e, L.next[e], 0)

-----------------------------------------------------------------------------
(* Sources: a range of a list, an array, or a junction that passes on.     *)
cucon_listrange_source_ptr(begin, end) == [kind |-> "list", cur |-> begin, end |-> end]
cu_ptr_source_from_array(arr) == [kind |-> "array", arr |-> arr, cur |-> 1, end |-> Len(arr) + 1]
cu_ptr_junction_from_source_sink(source) == [kind |-> "junction", source |-> source]

\* What is got, NULL at the end, and the source after it.
range_source_get_ptr(L, s) ==
    IF s.cur = s.end THEN [elt |-> NULL, src |-> s]
    ELSE [elt |-> Val[s.cur], src |-> [s EXCEPT !.cur = L.next[s.cur]]]

ptr_array_source_get(s) ==
    IF s.cur = s.end THEN [elt |-> NULL, src |-> s]
    ELSE [elt |-> s.arr[s.cur], src |-> [s EXCEPT !.cur = s.cur + 1]]

RECURSIVE cu_ptr_source_get(_, _)
cu_ptr_source_get(L, s) ==
    CASE s.kind = "list"     -> range_source_get_ptr(L, s)
      [] s.kind = "array"    -> ptr_array_source_get(s)
      [] s.kind = "junction" -> LET g == cu_ptr_source_get(L, s.source)
                                IN  [elt |-> g.elt, src |-> [s EXCEPT !.source = g.src]]

\* Gets elements until there are no more, one is in stop, or limit were got.
RECURSIVE Pull(_, _, _, _, _)
Pull(L, s, stop, limit, got) ==
    IF limit = Len(got) THEN [got |-> got, hit |-> FALSE, src |-> s]
    ELSE LET g == cu_ptr_source_get(L, s)
         IN  IF g.elt = NULL THEN [got |-> got, hit |-> FALSE, src |-> g.src]
             ELSE IF g.elt \in stop THEN [got |-> Append(got, g.elt), hit |-> TRUE, src |-> g.src]
             ELSE Pull(L, g.src, stop, limit, Append(got, g.elt))
NoLimit == Cardinality(Nodes) + 1
All(L, s) == Pull(L, s, {}, NoLimit, << >>).got

\* Closures are the set of the elements they accept, or a function.
cu_ptr_source_count(L, s) == Len(All(L, s))
cu_ptr_source_iterA(L, s, f) == ~Pull(L, s, {Val[n] : n \in Elems} \ f, NoLimit, << >>).hit
cu_ptr_source_iterE(L, s, f) == Pull(L, s, f, NoLimit, << >>).hit
cu_ptr_source_sink_short(L, s) == All(L, s)
cu_ptr_source_store(L, s, array_size) == Pull(L, s, {}, array_size, << >>)
cu_ptr_source_sink_image(L, s, f) == [i \in DOMAIN All(L, s) |-> f[All(L, s)[i]]]
cu_ptr_source_sink_filter(L, s, f) == SelectSeq(All(L, s), LAMBDA x : x \in f)

RECURSIVE cu_ptr_source_compare(_, _, _)
cu_ptr_source_compare(L, s, t) ==
    LET g == cu_ptr_source_get(L, s)
        h == cu_ptr_source_get(L, t)
    IN  IF g.elt = NULL THEN IF h.elt = NULL THEN 0 ELSE -1
        ELSE IF h.elt = NULL THEN 1
        ELSE IF g.elt # h.elt THEN g.elt - h.elt
        ELSE cu_ptr_source_compare(L, g.src, h.src)

-----------------------------------------------------------------------------
Nowhere == {n \in Elems : con.next[n] = NULL}
Put(s, k, n) == SubSeq(s, 1, k - 1) \o <<n>> \o SubSeq(s, k, Len(s))
\* The node at position k of a list, its end if k is one more than its length.
At(i, k) == Append(ref[i], Eols[i])[k]
InitList ==
    /\ con = LET none == [next |-> [n \in Nodes |-> NULL], prev |-> [n \in Nodes |-> NULL]]
             IN  cucon_list_init(cucon_list_init(none, Eols[1]), Eols[2])
    /\ ref = <<<< >>, << >>>>

InsertNew(i, k, n) ==
    /\ n \in Nowhere
    /\ con' \in {cucon_list_insert_init(con, At(i, k), n), cucon_list_insert_ptr(con, At(i, k), n)}
    /\ ref' = [ref EXCEPT ![i] = Put(@, k, n)]

\* Moves a node in front of another one, of its own or of the other list.
InsertLive(i, k, j, m) ==
    /\ m <= Len(ref[j]) /\ At(i, k) # ref[j][m]
    /\ con' = cucon_list_insert_live(con, At(i, k), ref[j][m])
    /\ LET cut == [ref EXCEPT ![j] = But(@, ref[j][m])]
           pos == CHOOSE p \in 1..(Len(cut[i]) + 1) : Append(cut[i], Eols[i])[p] = At(i, k)
       IN  ref' = [cut EXCEPT ![i] = Put(@, pos, ref[j][m])]

Erase(i, k) ==
    /\ k <= Len(ref[i])
    /\ con' = cucon_list_erase_node(con, ref[i][k]).links
    /\ ref' = [ref EXCEPT ![i] = But(@, ref[i][k])]

ErasePtr(i, x) ==
    /\ con' = cucon_list_erase_ptr(con, Eols[i], x).links
    /\ LET hits == {k \in DOMAIN ref[i] : Val[ref[i][k]] = x}
       IN  ref' = IF hits = {} THEN ref
                  ELSE [ref EXCEPT ![i] = But(@, ref[i][CHOOSE k \in hits : \A h \in hits : k <= h])]

EraseAllPtr(i, x) ==
    /\ con' = cucon_list_erase_all_ptr(con, Eols[i], x).links
    /\ ref' = [ref EXCEPT ![i] = SelectSeq(@, LAMBDA n : Val[n] # x)]

Rotate(i, k) ==
    /\ k <= Len(ref[i])
    /\ \/ con' = cucon_list_rotate(con, Eols[i], ref[i][k])
       \/ k = (IF Len(ref[i]) > 1 THEN 2 ELSE 1) /\ con' = cucon_list_rotate_backwards(con, Eols[i])
    /\ ref' = [ref EXCEPT ![i] = SubSeq(@, k, Len(@)) \o SubSeq(@, 1, k - 1)]

Swap(i) ==
    /\ con' = cucon_list_swap(con, Eols[i], Eols[3 - i])
    /\ ref' = <<ref[2], ref[1]>>

\* The list added is not empty.  Of the list that it is put in front of the
\* code takes the last node for the first one.
AddList(i) ==
    /\ ref[3 - i] # << >>
    /\ \/ /\ con' = cucon_list_append_list_dct(con, Eols[i], Eols[3 - i])
          /\ ref' = [ref EXCEPT ![i] = @ \o ref[3 - i], ![3 - i] = << >>]
       \/ /\ Len(ref[i]) <= 1
          /\ con' = cucon_list_prepend_list_dct(con, Eols[i], Eols[3 - i])
          /\ ref' = [ref EXCEPT ![i] = ref[3 - i] \o @, ![3 - i] = << >>]

NextList ==
    \E i \in 1..2 :
        \/ \E k \in 1..(Len(ref[i]) + 1) :
              \/ \E n \in Nodes : InsertNew(i, k, n)
              \/ \E j \in 1..2, m \in DOMAIN Eols \cup DOMAIN ref[1] \cup DOMAIN ref[2] : InsertLive(i, k, j, m)
              \/ Erase(i, k)
              \/ Rotate(i, k)
        \/ \E x \in {Val[n] : n \in Elems} : ErasePtr(i, x) \/ EraseAllPtr(i, x)
        \/ Swap(i)
        \/ AddList(i)

(* Forward and backward a list is the sequence that its operations make    *)
(* it, and a node that is in no list has no links.                         *)
ListsLinked ==
    /\ \A i \in 1..2 : Cycle(con, Eols[i]) = <<Eols[i]>> \o ref[i]
    /\ \A n \in Nodes :
        IF con.next[n] = NULL THEN con.prev[n] = NULL
        ELSE con.prev[con.next[n]] = n /\ con.next[con.prev[n]] = n

Vals(i) == [k \in DOMAIN ref[i] |-> Val[ref[i][k]]]
Sign(n) == IF n < 0 THEN -1 ELSE IF n > 0 THEN 1 ELSE 0

\* The order of two sequences by their first difference, shorter ones first.
Order(s, t) ==
    LET len == IF Len(s) < Len(t) THEN Len(s) ELSE Len(t)
        diff == {k \in 1..len : s[k] # t[k]}
    IN  IF diff = {} THEN Sign(Len(s) - Len(t))
        ELSE LET k == CHOOSE d \in diff : \A d2 \in diff : d <= d2 IN Sign(s[k] - t[k])

(* Searches, tests, counts and comparisons of lists say what their         *)
(* sequences are; sources over a part of a list or over an array give what *)
(* is there, once, to whatever draws from them, and a store or a search    *)
(* that ends early leaves the rest in the source.                          *)
ListAnswers ==
    \A i \in 1..2 :
        LET e == Eols[i]
            s == Vals(i)
        IN  /\ cucon_list_is_empty(con, e) <=> Len(s) = 0
            /\ cucon_list_is_singleton(con, e) <=> Len(s) = 1
            /\ cucon_list_is_empty_or_singleton(con, e) <=> Len(s) <= 1
            /\ cucon_list_count(con, e) = Len(s)
            /\ \A x \in {Val[n] : n \in Elems} :
                 LET n == cucon_list_find_ptr(con, e, x)
                     hits == {k \in DOMAIN s : s[k] = x}
                 IN  /\ IF hits = {} THEN n = NULL
                        ELSE \E k \in hits : n = ref[i][k] /\ \A h \in hits : k <= h
                     /\ cucon_list_erase_all_ptr(con, e, x).count = Cardinality(hits)
            /\ Sign(cucon_list_cmp_mem(con, e, Eols[3 - i])) = Order(s, Vals(3 - i))
            /\ LET whole == cucon_listrange_source_ptr(con.next[e], e)
                   other == cu_ptr_source_from_array(Vals(3 - i))
               IN  /\ Sign(cu_ptr_source_compare(con, whole, other)) = Order(s, Vals(3 - i))
                   /\ \A f \in SUBSET {Val[n] : n \in Elems} :
                        /\ cu_ptr_source_iterA(con, whole, f) <=> \A k \in DOMAIN s : s[k] \in f
                        /\ cu_ptr_source_iterE(con, whole, f) <=> \E k \in DOMAIN s : s[k] \in f
                        /\ cu_ptr_source_sink_filter(con, whole, f) = SelectSeq(s, LAMBDA x : x \in f)
            /\ \A k \in 1..(Len(s) + 1) :
                 LET part == cucon_listrange_source_ptr(con.next[e], At(i, k))
                     st == cu_ptr_source_store(con, cu_ptr_junction_from_source_sink(part), k \div 2)
                 IN  /\ cu_ptr_source_sink_short(con, part) = SubSeq(s, 1, k - 1)
                     /\ cu_ptr_source_count(con, part) = k - 1
                     /\ st.got \o All(con, st.src) = SubSeq(s, 1, k - 1)
                     /\ Len(st.got) = IF k - 1 < k \div 2 THEN k - 1 ELSE k \div 2
                     /\ cu_ptr_source_sink_image(con, part, [x \in {Val[n] : n \in Elems} |-> -x])
                          = [m \in 1..(k - 1) |-> -s[m]]

(* A copy is a list of the same elements, and the list copied is kept.     *)
ListCopied ==
    \A i \in 1..2 :
        LET free == Nowhere
            to == CHOOSE t \in [1..Cardinality(free) -> free] : \A k, m \in DOMAIN t : k # m => t[k] # t[m]
        IN  Len(ref[i]) <= Len(to) /\ ref[3 - i] = << >> =>
              LET c == cucon_list_init_copy_mem(con, Eols[i], Eols[3 - i], to)
                  copy == Tail(Cycle(c, Eols[3 - i]))
              IN  /\ copy = SubSeq(to, 1, Len(ref[i]))
                  /\ \A k \in DOMAIN copy : c.prev[c.next[copy[k]]] = copy[k]
                  /\ Cycle(c, Eols[i]) = Cycle(con, Eols[i])
=============================================================================
