-------------------------------- MODULE Hset --------------------------------
(***************************************************************************)
(* One hash-consing set of cuoo/halloc_disclaim.c: buckets of chained      *)
(* objects, the free lists of chain nodes, growing and shrinking.          *)
(*                                                                         *)
(* A bucket holds an object, a pair of objects, or a "quad" of three       *)
(* objects and a link to the rest.  Every quad is full, so a chain is      *)
(* given by the sequence of its objects: Len \div 3 quads, then a link     *)
(* which is a pair, an object or null as Len % 3 is 2, 1 or 0.             *)
(*                                                                         *)
(* The operations run with the set's mutex held and are one step here;     *)
(* Hcons has the interleavings with other threads and with the collector.  *)
(***************************************************************************)
EXTENDS Integers, FiniteSets, SequencesExt

CONSTANTS
    Objs,           \* the objects, one per key that may be allocated
    Hash,           \* cuex_key_hash of each
    MIN_CAPACITY,   \* the least number of buckets
    MAX_FREE        \* MAX_FREE_PAIR_COUNT and MAX_FREE_QUAD_COUNT

ASSUME HsetAssumption ==
    /\ IsFiniteSet(Objs)
    /\ Hash \in [Objs -> Nat]
    /\ MAX_FREE \in Nat

VARIABLES
    hset,   \* struct _hset, with the number of nodes malloc has handed out
    ret     \* the last operation: its object, and what came of it

vars == <<hset, ret>>

Mask(h) == Cardinality(DOMAIN h.arr) - 1
Slots == DOMAIN hset.arr
Members == UNION {ToSet(hset.arr[i]) : i \in Slots}

\* What the set is of.
Abstract == INSTANCE HashSet WITH Keys <- Objs, members <- Members

-----------------------------------------------------------------------------
(* The limits of the load, and the sizes of the table.                     *)
MIN_LOAD_NUMER == 3
MIN_LOAD_DENOM == 8
MAX_LOAD_NUMER == 3
MAX_LOAD_DENOM == 2

\* The powers of two.
Exp2[n \in Nat] == IF n = 0 THEN 1 ELSE 2 * Exp2[n - 1]

ASSUME CapacityAssumption ==
    MIN_CAPACITY \in Nat /\ \E n \in 1 .. MIN_CAPACITY : MIN_CAPACITY = Exp2[n]

\* cu_size_exp2ceil, where 0 - 1 wraps around and makes the result 0.
Exp2Ceil(n) ==
    IF n = 0 THEN 0
    ELSE CHOOSE p \in {Exp2[k] : k \in 0 .. n} : p >= n /\ p < 2 * n

Overloaded(size, mask) == size * MAX_LOAD_DENOM > mask * MAX_LOAD_NUMER

(* Fault: the table shrinks below the load at which it grows.              *)
Underloaded_NoGap(size, mask) ==
    /\ size * MAX_LOAD_DENOM < mask * MAX_LOAD_NUMER
    /\ mask > MIN_CAPACITY

Underloaded(size, mask) ==
    /\ size * MIN_LOAD_DENOM < mask * MIN_LOAD_NUMER
    /\ mask > MIN_CAPACITY

(* The number of buckets after an erasure which has left too few objects.  *)
ShrunkCap(size) ==
    LET cap == Exp2Ceil((size * MAX_LOAD_DENOM) \div MAX_LOAD_NUMER)
    IN  IF cap < MIN_CAPACITY THEN MIN_CAPACITY ELSE cap

\* hash & mask, where mask + 1 is a power of two.
Slot(h, o) == Hash[o] % (Mask(h) + 1)
Bucket(h, o) == h.arr[Slot(h, o)]

Init ==
    /\ hset = [arr |-> [i \in 0 .. MIN_CAPACITY - 1 |-> <<>>], size |-> 0,
               free_pairs |-> 0, free_quads |-> 0, pairs |-> 0, quads |-> 0]
    /\ ret = <<>>

-----------------------------------------------------------------------------
(* The nodes: the free lists are counters, pairs and quads count what      *)
(* malloc has handed out and free not taken back.  In the code the free    *)
(* lists have short words for counters.  These wrap, and forget a list,    *)
(* when 2^16 erasures have stashed a node each and no resizing has pruned, *)
(* which is not modelled.                                                  *)
AllocPair(h) ==
    IF h.free_pairs > 0 THEN [h EXCEPT !.free_pairs = @ - 1]
                        ELSE [h EXCEPT !.pairs = @ + 1]
AllocQuad(h) ==
    IF h.free_quads > 0 THEN [h EXCEPT !.free_quads = @ - 1]
                        ELSE [h EXCEPT !.quads = @ + 1]

StashPair(h) == [h EXCEPT !.free_pairs = @ + 1]
StashQuad(h) == [h EXCEPT !.free_quads = @ + 1]

FreePair(h) ==
    IF h.free_pairs < MAX_FREE THEN StashPair(h) ELSE [h EXCEPT !.pairs = @ - 1]
FreeQuad(h) ==
    IF h.free_quads < MAX_FREE THEN StashQuad(h) ELSE [h EXCEPT !.quads = @ - 1]

(* _hset_prune_freelists *)
Prune(h) ==
    LET excess(n) == IF n > MAX_FREE THEN n - MAX_FREE ELSE 0
    IN  [h EXCEPT !.free_pairs = @ - excess(h.free_pairs),
                  !.pairs      = @ - excess(h.free_pairs),
                  !.free_quads = @ - excess(h.free_quads),
                  !.quads      = @ - excess(h.free_quads)]

-----------------------------------------------------------------------------
(* Merging chains.  Each XNodes operator gives the nodes taken and         *)
(* returned when X is merged into the chain s.                             *)
TailLen(s) == Len(s) % 3
Quads(s) == SubSeq(s, 1, Len(s) - TailLen(s))
LastLink(s) == SubSeq(s, Len(s) - TailLen(s) + 1, Len(s))

\* _merge_obj: the object goes last.
MergeObjNodes(h, s) ==
    CASE TailLen(s) = 0 -> h
      [] TailLen(s) = 1 -> AllocPair(h)
      [] TailLen(s) = 2 -> StashPair(AllocQuad(h))

\* _merge_pair: the pair goes before the objects of the last link.
MergePair(s, pair) == Quads(s) \o pair \o LastLink(s)

MergePairNodes(h, s) ==
    CASE TailLen(s) = 0 -> h
      [] TailLen(s) = 1 -> StashPair(AllocQuad(h))
      [] TailLen(s) = 2 -> StashPair(StashPair(AllocQuad(h)))

\* _merge_quad: a quad without a link goes first; else the quads go last
\* and take over what was in the last link.
MergeQuad(s, src) ==
    IF Len(src) = 3
    THEN src \o s
    ELSE CASE TailLen(s) = 0 -> s \o src
           [] TailLen(s) = 1 -> Quads(s) \o src \o LastLink(s)
           [] TailLen(s) = 2 -> Quads(s) \o MergePair(src, LastLink(s))

MergeQuadNodes(h, s, src) ==
    IF Len(src) = 3
    THEN h
    ELSE CASE TailLen(s) = 0 -> h
           [] TailLen(s) = 1 -> MergeObjNodes(h, src)
           [] TailLen(s) = 2 -> MergePairNodes(h, src)

\* One slot of _hset_shrink: the chain src joins slot i.
MergeSlot(h, i, src) ==
    LET s == h.arr[i]
        into(g, chain) == [g EXCEPT !.arr[i] = chain]
    IN  IF src = <<>> THEN h
        ELSE IF s = <<>> THEN into(h, src)
        ELSE CASE Len(src) = 1 -> into(MergeObjNodes(h, s), s \o src)
               [] Len(src) = 2 -> into(MergePairNodes(h, s), MergePair(s, src))
               [] OTHER        -> into(MergeQuadNodes(h, s, src), MergeQuad(s, src))

\* The slots of _hset_shrink: each from cap up joins the one of its number
\* modulo cap.
Merged(h, cap) ==
    LET merged[n \in 0 .. Mask(h) + 1 - cap] ==
            IF n = 0 THEN h
            ELSE MergeSlot(merged[n - 1], (cap + n - 1) % cap, h.arr[cap + n - 1])
    IN  merged

(* _hset_shrink *)
Shrink(h, cap) ==
    LET g == Merged(h, cap)[Mask(h) + 1 - cap]
    IN  Prune([g EXCEPT !.arr = [i \in 0 .. cap - 1 |-> g.arr[i]]])

(* _hset_reinsert *)
Reinsert(h, o) ==
    [MergeObjNodes(h, Bucket(h, o)) EXCEPT !.arr[Slot(h, o)] = Append(@, o)]

(* One chain of _hset_grow: a node is stashed after its last object.       *)
Reinserted(h, s) ==
    LET reinserted[k \in 0 .. Len(s)] ==
            IF k = 0 THEN h
            ELSE LET g == Reinsert(reinserted[k - 1], s[k])
                 IN  CASE k % 3 = 0               -> StashQuad(g)
                       [] k % 3 = 2 /\ k = Len(s) -> StashPair(g)
                       [] OTHER                   -> g
    IN  reinserted

\* The slots of _hset_grow, one after the other.
Grown(h, cap) ==
    LET grown[n \in 0 .. Mask(h) + 1] ==
            IF n = 0 THEN [h EXCEPT !.arr = [i \in 0 .. cap - 1 |-> <<>>]]
            ELSE LET s == h.arr[n - 1]
                 IN  Reinserted(grown[n - 1], s)[Len(s)]
    IN  grown

(* _hset_grow *)
Grow(h, cap) == Prune(Grown(h, cap)[Mask(h) + 1])

-----------------------------------------------------------------------------
(* The insertion at the end of cuexP_halloc_raw's search.                  *)
Insert(h, o) ==
    LET s == Bucket(h, o)
        nodes == CASE TailLen(s) = 0 -> h
                   [] TailLen(s) = 1 -> AllocPair(h)
                   [] TailLen(s) = 2 -> FreePair(AllocQuad(h))
    IN  [nodes EXCEPT !.arr[Slot(h, o)] = Append(@, o), !.size = @ + 1]

(* cuexP_halloc_raw, and cuexP_hxalloc_raw, which also initialises the     *)
(* object: the object of the key is found, or made and inserted.           *)
Halloc(o) ==
    IF Contains(Bucket(hset, o), o)
    THEN ret' = <<o, "found">> /\ UNCHANGED hset
    ELSE LET h == Insert(hset, o)
             m == Mask(hset)
         IN  /\ ret' = <<o, "inserted">>
             /\ hset' = IF Overloaded(h.size, m) THEN Grow(h, (m + 1) * 2) ELSE h

\* The nodes returned when _hset_link_pop takes the last object of s.
PopNodes(h, s) ==
    CASE TailLen(s) = 1 -> h
      [] TailLen(s) = 2 -> StashPair(h)
      [] TailLen(s) = 0 -> StashQuad(AllocPair(h))

(* Fault: the last object of the chain is taken, not the one disclaimed.   *)
Unchain_Last(h, s, p) == <<Front(s), PopNodes(h, s)>>

(* _hset_erase, up to the resizing: what is left of chain s without its    *)
(* object at position p, and the nodes.  An object of the last link, or of *)
(* a last quad without one, leaves a smaller node; an object of an earlier *)
(* quad is replaced by the last one of the chain.                          *)
Unchain(h, s, p) ==
    LET n == Len(s)
        rest(k) == s[n - 2 + ((p - n + 2 + k) % 3)]
    IN  CASE p > n - TailLen(s) ->
               <<RemoveAt(s, p), IF TailLen(s) = 2 THEN FreePair(h) ELSE h>>
          [] TailLen(s) = 0 /\ p > n - 3 ->
               <<SubSeq(s, 1, n - 3) \o <<rest(1), rest(2)>>, FreeQuad(AllocPair(h))>>
          [] OTHER ->
               <<[Front(s) EXCEPT ![p] = Last(s)], PopNodes(h, s)>>

(* _hset_erase, called by cuooP_hcons_disclaim_proc when the collector is  *)
(* about to reclaim the object.                                            *)
Disclaim(o) ==
    LET s == Bucket(hset, o)
        left == Unchain(hset, s, CHOOSE p \in 1 .. Len(s) : s[p] = o)
        h == [left[2] EXCEPT !.arr[Slot(hset, o)] = left[1], !.size = @ - 1]
        m == Mask(hset)
    IN  /\ Contains(s, o)
        /\ hset' = IF Underloaded(h.size, m) THEN Shrink(h, ShrunkCap(h.size)) ELSE h
        /\ ret' = <<o, "disclaimed">>

Next == \E o \in Objs : Halloc(o) \/ Disclaim(o)

Spec == Init /\ [][Next]_vars

-----------------------------------------------------------------------------
\* The sums of the first values of f, a function on 0 .. n - 1, and of all.
Sums(f) ==
    LET sum[n \in 0 .. Cardinality(DOMAIN f)] == IF n = 0 THEN 0 ELSE sum[n - 1] + f[n - 1]
    IN  sum
Total(f) == Sums(f)[Cardinality(DOMAIN f)]

PairsIn(s) == IF TailLen(s) = 2 THEN 1 ELSE 0
QuadsIn(s) == Len(s) \div 3

TypeOK ==
    /\ \A i \in Slots : hset.arr[i] \in Seq(Objs)
    /\ {hset.size, hset.free_pairs, hset.free_quads, hset.pairs, hset.quads} \subseteq Nat
    /\ Slots = 0 .. Mask(hset)
    /\ ret \in {<<>>} \cup (Objs \X {"found", "inserted", "disclaimed"})

(* The last assertions of _hset_validate: every object is in the bucket of *)
(* its hash, once, and size counts them.                                   *)
Placed ==
    /\ \A i \in Slots : \A p \in DOMAIN hset.arr[i] : Slot(hset, hset.arr[i][p]) = i
    /\ Total([i \in Slots |-> Len(hset.arr[i])]) = Cardinality(Members)
    /\ hset.size = Cardinality(Members)

(* Every pair and quad from malloc is in a chain or on a free list: the    *)
(* merges, pops and frees neither leak a node nor use one twice.           *)
NodesAccounted ==
    /\ hset.pairs = hset.free_pairs + Total([i \in Slots |-> PairsIn(hset.arr[i])])
    /\ hset.quads = hset.free_quads + Total([i \in Slots |-> QuadsIn(hset.arr[i])])

(* The chains, free lists and resizing implement a set with one object     *)
(* per key: a search finds what was inserted and not disclaimed.           *)
ImplementsHashSet == Abstract!Spec

(* The first assertion of _hset_validate: the set is not more sparse than  *)
(* the minimum load, unless it has the minimum capacity.                   *)
NotSparse ==
    \/ hset.size * MIN_LOAD_DENOM >= Mask(hset) * MIN_LOAD_NUMER
    \/ Mask(hset) + 1 = MIN_CAPACITY

(* The second one asks for size * MAX_LOAD_DENOM <= mask * MAX_LOAD_NUMER. *)
(* A set that shrinks can exceed that by one, and by no more: _hset_erase  *)
(* rounds the buckets it needs down, and does not count the mask but the   *)
(* buckets.  So 32 buckets left with 11 objects become 8.                  *)
NotDense == hset.size * MAX_LOAD_DENOM <= Mask(hset) * MAX_LOAD_NUMER + 1

(* The load stays between its limits, however insertions and erasures      *)
(* follow each other and whenever the table is resized.                    *)
LoadBounded == NotSparse /\ NotDense

(* Growing and shrinking do not chase each other: after either of them no  *)
(* erasure shrinks the table before half of the objects have gone, and     *)
(* after growing no insertion lets it grow before their number has about   *)
(* doubled.  And what an insertion leaves is as sparse as _hset_validate   *)
(* asserts.                                                                *)
ResizesLast ==
    [][ /\ Mask(hset)' # Mask(hset) =>
               \A n \in 0 .. hset'.size : 2 * n > hset'.size => ~Underloaded(n, Mask(hset)')
        /\ Mask(hset)' > Mask(hset) =>
               \A n \in 0 .. 2 * hset'.size - 2 : ~Overloaded(n, Mask(hset)')
        /\ hset'.size > hset.size => ~Overloaded(hset'.size, Mask(hset)') ]_vars
=============================================================================
