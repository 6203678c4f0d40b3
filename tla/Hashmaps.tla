------------------------------ MODULE Hashmaps ------------------------------
(***************************************************************************)
(* The hash maps of cucon: umap.c (keys that are words; pmap, uset and     *)
(* pset are the same functions), hzmap.c (keys of some words) and hmap.c   *)
(* (keys with functions to compare and hash them).  All are arrays of      *)
(* chains of nodes whose number is a power of two, and differ in where a   *)
(* node enters its chain, when the array is resized and how chains are     *)
(* carried over.  A node is its key and its slot.                          *)
(***************************************************************************)
EXTENDS Integers, Sequences, FiniteSets, SequencesExt

CONSTANTS
    Keys, Hash,         \* the keys, and a number for each
    Values,             \* what is stored, not 0
    Operands,           \* sets of keys of the maps that umaps are combined with
    MIN_SIZE,           \* umap.c: least capacity
    INIT_CAP,           \* hzmap.c: least capacity
    CAP_INIT, CAP_MIN,  \* hmap.c: first capacity, and the one not to shrink below
    SizeWords           \* numbers that a size_t can hold

VARIABLES
    con,                \* kind, arr, size
    ref                 \* the function it stands for

Exp2Ceil(n) == CHOOSE p \in {2^i : i \in 0..8} : p >= n /\ p < 2 * n
AtLeast(m, n) == IF m > n THEN m ELSE n

EmptyArr(cap) == [i \in 0..(cap - 1) |-> << >>]
Cap(m) == Cardinality(DOMAIN m.arr)
Index(m, k) == Hash[k] % Cap(m)
Chain(m, k) == m.arr[Index(m, k)]
Has(chain, k) == \E p \in DOMAIN chain : chain[p][1] = k
Drop(chain, k) == SelectSeq(chain, LAMBDA n : n[1] # k)
FirstOf(chain, k) == SelectSeq(chain, LAMBDA n : n[1] = k)[1]

\* The nodes in the order in which iter, conj and forall visit them.
Nodes(m) == FlattenSeq([i \in 1..Cap(m) |-> m.arr[i - 1]])
KeySeq(m) == LET ns == Nodes(m) IN [p \in DOMAIN ns |-> ns[p][1]]

\* All nodes are put in front of their new chains, one after the other.
Rehash(m, cap) ==
    [m EXCEPT !.arr = FoldLeft(LAMBDA a, n : [a EXCEPT ![Hash[n[1]] % cap] = <<n>> \o @],
                               EmptyArr(cap), Nodes(m))]

InsertLast(m, k, v) == [m EXCEPT !.arr[Index(m, k)] = Append(@, <<k, v>>), !.size = @ + 1]
InsertFirst(m, k, v) == [m EXCEPT !.arr[Index(m, k)] = <<<<k, v>>>> \o @, !.size = @ + 1]
Unlink(m, k) == [m EXCEPT !.arr[Index(m, k)] = Drop(@, k), !.size = @ - 1]
-----------------------------------------------------------------------------
(* umap.c *)

set_capacity(m, cap) == IF cap = Cap(m) THEN m ELSE Rehash(m, cap)

update_cap_after_erase(m) ==
    IF 2 * m.size <= Cap(m) - 1
    THEN set_capacity(m, AtLeast(Exp2Ceil(m.size + 1), MIN_SIZE)) ELSE m

update_cap_after_insert(m) ==
    IF 2 * m.size > 3 * (Cap(m) - 1) THEN set_capacity(m, Exp2Ceil(m.size + 1)) ELSE m

cucon_umap_update_cap(m) ==
    IF 2 * m.size > 3 * (Cap(m) - 1) THEN update_cap_after_insert(m)
    ELSE update_cap_after_erase(m)

cucon_umap_init == [kind |-> "umap", arr |-> EmptyArr(MIN_SIZE), size |-> 0]

\* insert_mem, insert_general, insert_init_node, insert_ptr and insert_int; the
\* slot of a key that is there is not touched.
cucon_umap_insert_mem(m, k, v) ==
    IF Has(Chain(m, k), k) THEN m ELSE update_cap_after_insert(InsertLast(m, k, v))

cucon_umap_insert_new_node(m, k, v) ==
    IF Has(Chain(m, k), k) THEN m ELSE update_cap_after_insert(InsertFirst(m, k, v))

\* erase, erase_ptr and erase_int
cucon_umap_erase(m, k) ==
    IF Has(Chain(m, k), k) THEN update_cap_after_erase(Unlink(m, k)) ELSE m

cucon_umap_erase_keep_cap(m, k) == IF Has(Chain(m, k), k) THEN Unlink(m, k) ELSE m

\* replace_ptr and replace_int
cucon_umap_replace_ptr(m, k, v) ==
    LET i == Index(m, k)
        at == CHOOSE p \in DOMAIN m.arr[i] : m.arr[i][p][1] = k
    IN  IF v = 0 THEN cucon_umap_erase(m, k)
        ELSE IF Has(m.arr[i], k) THEN [m EXCEPT !.arr[i][at] = <<k, v>>]
        ELSE cucon_umap_insert_mem(m, k, v)

\* The node that is taken when the search for a chain starts at i.
RECURSIVE PopFrom(_, _)
PopFrom(m, i) == IF m.arr[i] = << >> THEN PopFrom(m, (i + 1) % Cap(m)) ELSE m.arr[i][1][1]
cucon_umap_pop_any_node(m, i) == update_cap_after_erase(Unlink(m, PopFrom(m, i)))

\* find_node, find_mem, find_ptr and find_int
cucon_umap_find_ptr(m, k) == IF Has(Chain(m, k), k) THEN FirstOf(Chain(m, k), k)[2] ELSE 0

cucon_umap_eq_keys(m0, m1) ==
    /\ m0.size = m1.size
    /\ \A p \in DOMAIN KeySeq(m0) : cucon_umap_find_ptr(m1, KeySeq(m0)[p]) # 0

\* An iterator: the array has an end mark in the place after the last chain.
End(m) == [head |-> Cap(m), at |-> 1]
RECURSIVE NextHead(_, _)
NextHead(m, i) == IF i < Cap(m) /\ m.arr[i] = << >> THEN NextHead(m, i + 1) ELSE i
cucon_umap_begin(m) == IF m.size = 0 THEN End(m) ELSE [head |-> NextHead(m, 0), at |-> 1]
cucon_umap_it_next(m, it) ==
    IF it.at < Len(m.arr[it.head]) THEN [it EXCEPT !.at = @ + 1]
    ELSE [head |-> NextHead(m, it.head + 1), at |-> 1]
RECURSIVE Iterated(_, _)
Iterated(m, it) ==
    IF it = End(m) THEN << >>
    ELSE <<m.arr[it.head][it.at]>> \o Iterated(m, cucon_umap_it_next(m, it))

\* Nodes of m0 that m1 does not have move to the front of their chains in m1.
\* The chain of m1 is found with the capacity of m0.
cucon_umap_assign_isecn_union(map0, map1) ==
    LET swap == map0.size > map1.size
        m0 == IF swap THEN map1 ELSE map0
        m1 == IF swap THEN map0 ELSE map1
        r == FoldLeft(LAMBDA s, n :
                 LET j == Hash[n[1]] % Cap(m0)
                 IN  IF Has(s[2].arr[j], n[1]) THEN s
                     ELSE <<Unlink(s[1], n[1]),
                            [s[2] EXCEPT !.arr[j] = <<n>> \o @, !.size = @ + 1]>>,
                 <<m0, m1>>, Nodes(m0))
    IN  <<update_cap_after_erase(r[1]), update_cap_after_insert(r[2])>>

cucon_umap_move_isecn(dst, src0, src1) ==
    LET swap == src0.size > src1.size
        s0 == IF swap THEN src1 ELSE src0
        s1 == IF swap THEN src0 ELSE src1
        r == FoldLeft(LAMBDA s, n :
                 IF ~Has(Chain(s[3], n[1]), n[1]) THEN s
                 ELSE <<InsertFirst(s[1], n[1], n[2]), Unlink(s[2], n[1]), Unlink(s[3], n[1])>>,
                 <<dst, s0, s1>>, Nodes(s0))
    IN  <<update_cap_after_insert(r[1]), update_cap_after_erase(r[2]),
          update_cap_after_erase(r[3])>>

\* The size of dst stays what it was.
cucon_umap_assign_isecn(dst, src) ==
    [dst EXCEPT !.arr = [i \in DOMAIN @ |->
        SelectSeq(@[i], LAMBDA n : cucon_umap_find_ptr(src, n[1]) # 0)]]

cucon_umap_assign_union_void(dst, src) ==
    FoldLeft(LAMBDA m, k : cucon_umap_insert_mem(m, k, 1), dst, KeySeq(src))
-----------------------------------------------------------------------------
(* hzmap.c.  The capacity is resized before an insertion, whether or not   *)
(* the key is there.                                                       *)

cucon_hzmap_init == [kind |-> "hzmap", arr |-> EmptyArr(INIT_CAP), size |-> 0]

\* The chains of the upper half are appended to those of the lower.
shrink(m, cap) ==
    IF cap < INIT_CAP THEN m
    ELSE [m EXCEPT !.arr = [i \in 0..(cap - 1) |-> m.arr[i] \o m.arr[i + cap]]]

expand(m, cap) == Rehash(m, cap)

Roomy(m) == IF 2 * m.size > 3 * Cap(m) THEN expand(m, 2 * Cap(m)) ELSE m

cucon_hzmap_prepare_insert(m, count) ==
    IF 2 * (m.size + count) > 3 * Cap(m) THEN expand(m, Exp2Ceil(2 * (m.size + count))) ELSE m

\* insert_node, insert and insert_void
cucon_hzmap_insert(m, k, v) ==
    LET r == Roomy(m) IN IF Has(Chain(r, k), k) THEN r ELSE InsertLast(r, k, v)

cucon_hzmap_finish_erase(m) == IF 2 * m.size < Cap(m) THEN shrink(m, Cap(m) \div 2) ELSE m
cucon_hzmap_step_erase(m, k) == IF Has(Chain(m, k), k) THEN Unlink(m, k) ELSE m
cucon_hzmap_erase(m, k) ==
    IF Has(Chain(m, k), k) THEN cucon_hzmap_finish_erase(Unlink(m, k)) ELSE m

\* filter and filter_keys
cucon_hzmap_filter(m, S) ==
    cucon_hzmap_finish_erase(FoldLeft(LAMBDA x, k : IF k \in S THEN x ELSE Unlink(x, k),
                                      m, KeySeq(m)))
-----------------------------------------------------------------------------
(* hmap.c.  Resizing sets the size to zero, and the nodes that are carried *)
(* over are not counted again: the size is only a hint.                    *)

cucon_hmap_init == [kind |-> "hmap", arr |-> EmptyArr(CAP_INIT), size |-> 0]

cucon_hmap_set_capacity(m, cap) == [Rehash(m, cap) EXCEPT !.size = 0]

Wrapped(m) == [m EXCEPT !.size = @ % SizeWords]

cucon_hmap_insert_mem(m, k, v) ==
    LET r == Wrapped(InsertFirst(m, k, v))
    IN  IF Has(Chain(m, k), k) THEN m
        ELSE IF m.size > (Cap(m) - 1) \div 2 THEN cucon_hmap_set_capacity(r, 2 * Cap(m))
        ELSE r

cucon_hmap_isocap_pop_mem(m, k) == IF Has(Chain(m, k), k) THEN Wrapped(Unlink(m, k)) ELSE m

cucon_hmap_pop_mem(m, k) ==
    LET r == Wrapped(Unlink(m, k))
    IN  IF ~Has(Chain(m, k), k) THEN m
        ELSE IF m.size < (Cap(m) - 1) \div 4 /\ Cap(m) - 1 > CAP_MIN
        THEN cucon_hmap_set_capacity(r, Cap(m) \div 2)
        ELSE r
-----------------------------------------------------------------------------
Added(f, k, v) == [j \in DOMAIN f \cup {k} |-> IF j \in DOMAIN f THEN f[j] ELSE v]
Put(f, k, v) == [j \in DOMAIN f \cup {k} |-> IF j = k THEN v ELSE f[j]]
Without(f, S) == [j \in DOMAIN f \ S |-> f[j]]

Init ==
    /\ con \in {cucon_umap_init, cucon_hzmap_init, cucon_hmap_init}
    /\ ref = << >>

NextUmap ==
    /\ con.kind = "umap"
    /\ \/ \E k \in Keys, v \in Values :
            \/ con' = cucon_umap_insert_mem(con, k, v) /\ ref' = Added(ref, k, v)
            \/ con' = cucon_umap_insert_new_node(con, k, v) /\ ref' = Added(ref, k, v)
            \/ con' = cucon_umap_replace_ptr(con, k, v) /\ ref' = Put(ref, k, v)
       \/ \E k \in Keys :
            \/ con' = cucon_umap_erase(con, k) /\ ref' = Without(ref, {k})
            \/ con' = cucon_umap_erase_keep_cap(con, k) /\ ref' = Without(ref, {k})
            \/ con' = cucon_umap_replace_ptr(con, k, 0) /\ ref' = Without(ref, {k})
       \/ \E i \in DOMAIN con.arr :
            /\ con.size > 0
            /\ con' = cucon_umap_pop_any_node(con, i)
            /\ ref' = Without(ref, {PopFrom(con, i)})
       \/ con' = cucon_umap_update_cap(con) /\ UNCHANGED ref

NextHzmap ==
    /\ con.kind = "hzmap"
    /\ \/ \E k \in Keys, v \in Values :
            con' = cucon_hzmap_insert(con, k, v) /\ ref' = Added(ref, k, v)
       \/ \E k \in Keys :
            \/ con' = cucon_hzmap_erase(con, k) /\ ref' = Without(ref, {k})
            \/ con' = cucon_hzmap_step_erase(con, k) /\ ref' = Without(ref, {k})
       \/ \E S \in Operands : con' = cucon_hzmap_filter(con, S) /\ ref' = Without(ref, Keys \ S)
       \/ con' = cucon_hzmap_finish_erase(con) /\ UNCHANGED ref
       \/ con' = cucon_hzmap_prepare_insert(con, Cardinality(Keys \ DOMAIN ref)) /\ UNCHANGED ref

NextHmap ==
    /\ con.kind = "hmap"
    /\ \/ \E k \in Keys, v \in Values :
            con' = cucon_hmap_insert_mem(con, k, v) /\ ref' = Added(ref, k, v)
       \/ \E k \in Keys :
            \/ con' = cucon_hmap_pop_mem(con, k) /\ ref' = Without(ref, {k})
            \/ con' = cucon_hmap_isocap_pop_mem(con, k) /\ ref' = Without(ref, {k})

Next == NextUmap \/ NextHzmap \/ NextHmap

\* The map m has the nodes of f and no others, each once and in its chain.
Holds(m, f) ==
    /\ \A i \in DOMAIN m.arr : \A p \in DOMAIN m.arr[i] :
           Hash[m.arr[i][p][1]] % Cap(m) = i /\ m.arr[i][p][1] \in DOMAIN f
    /\ Len(Nodes(m)) = Cardinality(DOMAIN f)
    /\ \A k \in DOMAIN f : Has(Chain(m, k), k) /\ FirstOf(Chain(m, k), k)[2] = f[k]

(* After any insertions, erasures and resizings every node is in the chain *)
(* of its hash, once, with its value; umaps and hzmaps know their size and *)
(* keep within their load.                                                 *)
Placed ==
    /\ Holds(con, ref)
    /\ con.kind # "hmap" => con.size = Cardinality(DOMAIN ref)
    /\ con.kind = "umap" => 2 * con.size <= 3 * (Cap(con) - 1) /\ Cap(con) >= MIN_SIZE
    /\ con.kind = "hzmap" => 2 * con.size <= 3 * Cap(con) + 2 /\ Cap(con) >= INIT_CAP

OfSet(S) ==
    FoldLeft(LAMBDA m, k : cucon_umap_insert_mem(m, k, 1), cucon_umap_init,
             SelectSeq([i \in 1..8 |-> i - 1], LAMBDA k : k \in S))
Ones(S) == [k \in S |-> 1]

(* The iterator passes every node once and stops at the end mark; equality *)
(* of key sets does not depend on how the maps came about.                 *)
Answers ==
    con.kind = "umap" =>
        /\ Iterated(con, cucon_umap_begin(con)) = Nodes(con)
        /\ \A S \in Operands : cucon_umap_eq_keys(con, OfSet(S)) <=> DOMAIN ref = S

(* Combining two maps: the nodes are moved, not copied, so that each is in *)
(* one of the maps after it.  cucon_umap_assign_isecn_union is right only  *)
(* for maps of the same capacity, and cucon_umap_assign_isecn but for the  *)
(* size.                                                                   *)
Derived ==
    con.kind = "umap" => \A S \in Operands :
        LET T == DOMAIN ref
            iu == cucon_umap_assign_isecn_union(con, OfSet(S))
            mv == cucon_umap_move_isecn(cucon_umap_init, con, OfSet(S))
            un == cucon_umap_assign_union_void(con, OfSet(S))
            ic == cucon_umap_assign_isecn(con, OfSet(S))
            keys(m) == ToSet(KeySeq(m))
            sound(m) == Holds(m, [k \in keys(m) |-> cucon_umap_find_ptr(m, k)])
        IN  /\ Cap(con) = Cap(OfSet(S)) =>
                 /\ sound(iu[1]) /\ keys(iu[1]) = T \cap S /\ iu[1].size = Len(KeySeq(iu[1]))
                 /\ sound(iu[2]) /\ keys(iu[2]) = T \cup S /\ iu[2].size = Len(KeySeq(iu[2]))
            /\ \A i \in 1..3 : sound(mv[i]) /\ mv[i].size = Len(KeySeq(mv[i]))
            /\ keys(mv[1]) = T \cap S
            /\ {keys(mv[2]), keys(mv[3])} = {T \ S, S \ T}
            /\ sound(un) /\ keys(un) = T \cup S /\ un.size = Cardinality(T \cup S)
            /\ \A k \in T : cucon_umap_find_ptr(un, k) = ref[k]
            /\ Holds(ic, Without(ref, T \ S))
=============================================================================
