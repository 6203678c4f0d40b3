----------------------------- MODULE Ucmultimap -----------------------------
(***************************************************************************)
(* cucon/ucmultimap.c: multi-maps of words, as maps (Ucmap) to sets        *)
(* (Ucset), where no key has the empty set.                                *)
(***************************************************************************)
EXTENDS Integers, Sequences, FiniteSets, SequencesExt

CONSTANTS W, BitsetWidth, IntWidth, Keys, Elems, Operands

VARIABLES
    con,                \* the tree of sets
    ref                 \* the set of pairs it stands for

US == INSTANCE Ucset WITH Keys <- Elems, Operands <- {}
union_merge(s0, s1) == US!cucon_ucset_union(s0, s1)
UM == INSTANCE Ucmap WITH Zero <- US!Null, Merge <- union_merge, Values <- {}, Operands <- {}

isokey_find(M, k) == UM!cucon_ucmap_find(M, k, US!Null)

cucon_ucmultimap_isokey_merge(M, k, V) ==
    LET old == isokey_find(M, k)
        new == US!cucon_ucset_union(old, V)
    IN  IF new = old THEN M ELSE UM!cucon_ucmap_insert(M, k, new)

\* The end of cucon_ucmultimap_erase and of isokey_unmerge.
Replace(M, k, old, new) ==
    IF new = old THEN M
    ELSE IF new = US!Null THEN UM!cucon_ucmap_erase(M, k)
    ELSE UM!cucon_ucmap_insert(M, k, new)

cucon_ucmultimap_isokey_unmerge(M, k, V) ==
    LET old == isokey_find(M, k) IN Replace(M, k, old, US!cucon_ucset_compl(old, V))

cucon_ucmultimap_erase(M, k, v) ==
    LET old == isokey_find(M, k) IN Replace(M, k, old, US!cucon_ucset_erase(old, v))

cucon_ucmultimap_insert(M, k, v) ==
    LET old == isokey_find(M, k)
        new == US!cucon_ucset_insert(old, v)
    IN  IF new = old THEN M ELSE UM!cucon_ucmap_insert(M, k, new)

cucon_ucmultimap_union(M0, M1) == UM!cucon_ucmap_combined_union(M0, M1)

\* The elements come in lexicographic order; those of a key are gathered.
cucon_ucmultimap_from_sorted_array(arr) ==
    LET keys == UM!Ascending({arr[i][1] : i \in DOMAIN arr})
        set(k) == LET run == SelectSeq(arr, LAMBDA e : e[1] = k)
                  IN  US!cucon_ucset_from_sorted_array([i \in DOMAIN run |-> run[i][2]])
    IN  UM!cucon_ucmap_from_sorted_array([i \in DOMAIN keys |-> <<keys[i], set(keys[i])>>])

cucon_ucmultimap_contains(M, k, v) == US!cucon_ucset_find(isokey_find(M, k), v)

cucon_ucmultimap_card(M) ==
    FoldLeft(LAMBDA n, e : n + US!cucon_ucset_card(e[2]), 0, UM!cucon_ucmap_iterA(M))

\* The visits of cucon_ucmultimap_iterA.  Its _ucmap_node_right is the left
\* link, so what is right of a node is left out and what is left comes twice.
RECURSIVE cucon_ucmultimap_iterA(_)
cucon_ucmultimap_iterA(M) ==
    LET vs == US!cucon_ucset_iter(M.val)
        here == IF M.has THEN [i \in DOMAIN vs |-> <<M.key, vs[i]>>] ELSE << >>
    IN  IF M = UM!Null THEN << >>
        ELSE cucon_ucmultimap_iterA(M.left) \o here \o cucon_ucmultimap_iterA(M.left)
-----------------------------------------------------------------------------
InOrder(R) ==
    LET ks == UM!Ascending({p[1] : p \in R})
        at(k) == LET vs == UM!Ascending({p[2] : p \in {q \in R : q[1] = k}})
                 IN  [i \in DOMAIN vs |-> <<k, vs[i]>>]
    IN  FlattenSeq([i \in DOMAIN ks |-> at(ks[i])])
FromPairs(R) == cucon_ucmultimap_from_sorted_array(InOrder(R))

Init == con = UM!Null /\ ref = {}

Next ==
    \/ \E k \in Keys, v \in Elems :
          \/ con' = cucon_ucmultimap_insert(con, k, v) /\ ref' = ref \cup {<<k, v>>}
          \/ con' = cucon_ucmultimap_erase(con, k, v) /\ ref' = ref \ {<<k, v>>}
    \/ \E k \in Keys, V \in SUBSET Elems :
          LET pairs == {k} \X V
              set == US!FromSet(V)
          IN  \/ /\ con' = cucon_ucmultimap_isokey_merge(con, k, set)
                 /\ ref' = ref \cup pairs
              \/ /\ con' = cucon_ucmultimap_isokey_unmerge(con, k, set)
                 /\ ref' = ref \ pairs
    \/ \E R \in Operands :
          con' = cucon_ucmultimap_union(con, FromPairs(R)) /\ ref' = ref \cup R

(* A multi-map has one tree of trees, which cucon_ucmultimap_eq relies on; *)
(* in particular a key goes with its last value.                           *)
Canonical == con = FromPairs(ref)

(* Search and count agree with the pairs, whichever operations made the    *)
(* map; the visit of all pairs is right for maps of one key only.          *)
Answers ==
    /\ \A k \in Keys, v \in Elems : cucon_ucmultimap_contains(con, k, v) <=> <<k, v>> \in ref
    /\ cucon_ucmultimap_card(con) = Cardinality(ref)
    /\ Cardinality({p[1] : p \in ref}) = 1 => cucon_ucmultimap_iterA(con) = InOrder(ref)
=============================================================================
