------------------------------- MODULE Cache -------------------------------
(***************************************************************************)
(* cuflow/cache.c: one bin of a cache of computed objects.  The bins are   *)
(* independent, and a call holds the mutex of its bin from the search to   *)
(* the end, the callback included, so that a call is one step; the other   *)
(* thread that matters is the worker which advances current_ticks.  An     *)
(* object is its key, the tick of its last access and its access function. *)
(***************************************************************************)
EXTENDS Integers, Sequences, FiniteSets, SequencesExt

CONSTANTS
    Keys, Hash,             \* the keys of this bin, and a number for each
    Gain,                   \* what the callbacks say of the objects, not 0
    byte_cost_per_tick,
    TickWords,              \* numbers that current_ticks can hold
    Bits,                   \* of the access function
    MIN_CAP

VARIABLES
    con,                    \* cap, size, access_since_pruned, link_arr, ticks
    ref                     \* keys, those that should be found: computed, not pruned
                            \* since, and not lost; lost, the number of objects lost

Words == 2^Bits
Empty(cap) == [i \in 0..(cap - 1) |-> << >>]
InChains(b) == FlattenSeq([i \in 1..b.cap |-> b.link_arr[i - 1]])
KeysOf(b) == {o.key : o \in ToSet(InChains(b))}
Slot(k, cap) == Hash[k] % cap

cuflow_cache_init ==
    [cap |-> MIN_CAP, size |-> 0, access_since_pruned |-> 0, link_arr |-> Empty(MIN_CAP),
     ticks |-> 0]

resize_lck(b, cap) ==
    [b EXCEPT !.cap = cap,
              !.link_arr = FoldLeft(LAMBDA a, o : [a EXCEPT ![Slot(o.key, cap)] = <<o>> \o @],
                                    Empty(cap), InChains(b))]

drop_condition(o) == byte_cost_per_tick > o.access_function

\* The ticks passed are a difference of unsigned numbers.
update(ticks, o) ==
    LET delta == (ticks - o.access_ticks) % TickWords
    IN  [o EXCEPT !.access_ticks = ticks,
                  !.access_function = IF delta >= Bits THEN 0 ELSE @ \div 2^delta]

Pruned(b) ==
    LET arr == [i \in DOMAIN b.link_arr |->
                   SelectSeq([p \in DOMAIN b.link_arr[i] |-> update(b.ticks, b.link_arr[i][p])],
                             LAMBDA o : ~drop_condition(o))]
        pruned == [b EXCEPT !.link_arr = arr]
    IN  [pruned EXCEPT !.size = @ - (Len(InChains(b)) - Len(InChains(pruned)))]

prune_and_adjust_lck(b) ==
    LET r == Pruned(b)
        adjusted == IF 3 * r.size > 4 * r.cap THEN resize_lck(r, 2 * r.cap)
                    ELSE IF 2 * r.size < r.cap /\ r.cap \div 2 >= MIN_CAP
                    THEN resize_lck(r, r.cap \div 2)
                    ELSE r
    IN  [adjusted EXCEPT !.access_since_pruned = 0]

\* The object is found, and the access is counted.
Hit(b, k) ==
    LET i == Slot(k, b.cap)
        p == CHOOSE p \in DOMAIN b.link_arr[i] : b.link_arr[i][p].key = k
        o == update(b.ticks, b.link_arr[i][p])
        r == [b EXCEPT !.link_arr[i][p] =
                           [o EXCEPT !.access_function = (@ + Gain[k]) % Words],
                       !.access_since_pruned = @ + 1]
    IN  IF r.access_since_pruned = b.cap THEN prune_and_adjust_lck(r) ELSE r

\* The place of the new object is a pointer into the array as it was before
\* pruning: when the bin is resized meanwhile the object is put into an array
\* that is no longer used.
Miss(b, k) ==
    LET r == IF 3 * b.size > 4 * b.cap THEN prune_and_adjust_lck(b) ELSE b
        o == [key |-> k, access_ticks |-> b.ticks, access_function |-> Gain[k]]
    IN  IF r.cap = b.cap
        THEN [r EXCEPT !.link_arr[Slot(k, b.cap)] = <<o>> \o @, !.size = @ + 1]
        ELSE [r EXCEPT !.size = @ + 1]

cuflow_cache_call(b, k) == IF k \in KeysOf(b) THEN Hit(b, k) ELSE Miss(b, k)

\* _cacheconf_update, called by a worker
cacheconf_update(b) == [b EXCEPT !.ticks = (@ + 1) % TickWords]

\* What pruning drops, for the record of what should be there.
DroppedBy(b) == {o.key : o \in {x \in ToSet(InChains(b)) : drop_condition(update(b.ticks, x))}}

Init == con = cuflow_cache_init /\ ref = [keys |-> {}, lost |-> 0]

Next ==
    \/ con' = cacheconf_update(con) /\ UNCHANGED ref
    \/ \E k \in Keys \cap KeysOf(con) :
        /\ con' = cuflow_cache_call(con, k)
        /\ ref' = [ref EXCEPT !.keys = @ \ (KeysOf(con) \ KeysOf(con'))]
    \/ \E k \in Keys \ KeysOf(con) :
        /\ con' = cuflow_cache_call(con, k)
        /\ LET pruned == IF 3 * con.size > 4 * con.cap THEN DroppedBy(con) ELSE {}
               lost == con'.cap # con.cap
           IN  ref' = [keys |-> (ref.keys \ pruned) \cup (IF lost THEN {} ELSE {k}),
                       lost |-> ref.lost + (IF lost THEN 1 ELSE 0)]

Spec == Init /\ [][Next]_<<con, ref>>

(* Objects are in the chains of their hashes, one for each key.  The bin   *)
(* has what was computed and not pruned, with one exception: the object of *)
(* a miss that resizes the bin is lost, although it is counted for ever.   *)
(* So a call can compute again what has just been computed, where cache.h  *)
(* says that the callback is only called if the object is not in the       *)
(* cache.  Nothing else is lost, and no count is wrong for another reason. *)
Placed ==
    /\ DOMAIN con.link_arr = 0..(con.cap - 1)
    /\ \A i \in DOMAIN con.link_arr : \A p \in DOMAIN con.link_arr[i] :
           Slot(con.link_arr[i][p].key, con.cap) = i
    /\ Cardinality(KeysOf(con)) = Len(InChains(con))
    /\ KeysOf(con) = ref.keys
    /\ con.size = Len(InChains(con)) + ref.lost
    /\ con.access_since_pruned < con.cap
=============================================================================
