------------------------------- MODULE Cached -------------------------------
(***************************************************************************)
(* cuflow/cached.c: one bin of cached calls, used by several threads.  A   *)
(* call that finds no node puts an unfinished one into the bin before it   *)
(* computes, in the calling thread or as a scheduled call, and all other   *)
(* calls for the key wait for its cdisj to become zero; meanwhile the bin  *)
(* is pruned and resized.  What happens with the bin locked is one step.   *)
(* Waiting is cuflow_cdisj_wait_while, of which Cdisj shows that it        *)
(* returns when the counter is zero, and a scheduled call is made once by  *)
(* some thread, which Sched shows.                                         *)
(*                                                                         *)
(* The chain of a slot is the set of its nodes: a search compares all that *)
(* is compared, and finds the node of its key wherever in the chain it is. *)
(* The number of slots is a power of two, so hash & mask is the remainder. *)
(***************************************************************************)
EXTENDS Integers, FiniteSets

CONSTANTS
    Callers,                \* the threads
    Keys,                   \* the arguments they call with
    Hash,                   \* a number for each argument
    Old, OldCap,            \* the arguments of the nodes that a bin may have
                            \* at first, and its number of slots
    Gain,                   \* what the callbacks give as gain
    UnsetGain,              \* what a new node has: -1 or 0 by CU_NDEBUG_CLIENT
    byte_cost_per_tick,
    TickWords, Bits,        \* of current_ticks and of the access function
    LongSize,               \* sizeof the access function
    NodeIds                 \* bound: nodes at one time; unused ones are collected

VARIABLES
    bin,                    \* head_arr, size, access_count, current_ticks, node
    pc, ref,                \* what each thread does, and with which node
    jobs                    \* the nodes whose computation is scheduled

Words == 2^Bits
Mask(b) == Cardinality(DOMAIN b.head_arr) - 1
InBin(b) == UNION {b.head_arr[i] : i \in DOMAIN b.head_arr}
Found(b, k) == {n \in b.head_arr[Hash[k] % (Mask(b) + 1)] : b.node[n].key = k}

cachebin_init ==
    [head_arr |-> [i \in {0} |-> {}], size |-> 0, access_count |-> 0, ticks |-> 0, node |-> << >>]

\* Delta is compared with the size in bytes.
node_normalise_access(x, ticks) ==
    LET delta == (ticks - x.access_ticks) % TickWords
    IN  [x EXCEPT !.access_ticks = ticks,
                  !.access_function = IF delta >= LongSize THEN 0 ELSE @ \div 2^delta]

\* Fault: a node may be dropped while it is being computed.
node_drop_condition_Unfinished(x) == byte_cost_per_tick > x.access_function

node_drop_condition(x) == x.cdisj = 0 /\ byte_cost_per_tick > x.access_function

fcachebin_resize_locked(b, new_size) ==
    [b EXCEPT !.head_arr = [i \in 0 .. new_size - 1 |->
                               {n \in InBin(b) : Hash[b.node[n].key] % new_size = i}]]

\* The nodes that stay, each with its access brought up to date.
Pruned(b) ==
    LET normal == [n \in DOMAIN b.node |-> IF n \in InBin(b) THEN node_normalise_access(b.node[n], b.ticks)
                                           ELSE b.node[n]]
        drop == {n \in InBin(b) : node_drop_condition(normal[n])}
    IN  [b EXCEPT !.node = normal, !.size = @ - Cardinality(drop),
                  !.head_arr = [i \in DOMAIN b.head_arr |-> b.head_arr[i] \ drop]]

fcachebin_prune_locked(b) ==
    LET r == Pruned(b)
        shrunk == IF 2 * r.size < Mask(r) /\ Mask(r) \div 2 > 1
                  THEN fcachebin_resize_locked(r, (Mask(r) + 1) \div 2) ELSE r
    IN  [shrunk EXCEPT !.access_count = 0]

\* fcachebin_insert when there is a node: its gain may not have been set yet.
Used(x, ticks) ==
    LET y == node_normalise_access(x, ticks)
    IN  [y EXCEPT !.access_function = (@ + x.access_gain) % Words]
Hit(b, n) ==
    LET r == [b EXCEPT !.node[n] = Used(@, b.ticks), !.access_count = @ + 1]
    IN  IF r.access_count > Mask(r) THEN fcachebin_prune_locked(r) ELSE r

\* fcachebin_insert when there is none.
NewNode(b, k) ==
    [key |-> k, cdisj |-> 1, done |-> FALSE,
     access_ticks |-> b.ticks, access_function |-> 0, access_gain |-> UnsetGain]
Miss(b, k, n) ==
    LET r == [b EXCEPT !.node = [m \in DOMAIN @ \cup {n} |-> IF m = n THEN NewNode(b, k) ELSE @[m]],
                       !.head_arr[Hash[k] % (Mask(b) + 1)] = {n} \cup @,
                       !.size = @ + 1]
    IN  IF 3 * r.size > 4 * Mask(r) THEN fcachebin_resize_locked(r, 2 * (Mask(r) + 1)) ELSE r

-----------------------------------------------------------------------------
NoNode == 0

\* The node of a new call, while the bound on their number lasts.
Fresh == CHOOSE n \in NodeIds : n \notin DOMAIN bin.node
MayInsert == \E n \in NodeIds : n \notin DOMAIN bin.node

\* Nodes that neither the bin nor a thread refers to are collected.
BinBecomes(b) ==
    LET held == InBin(b) \cup {ref'[t] : t \in Callers} \cup jobs'
    IN  bin' = [b EXCEPT !.node = [n \in DOMAIN b.node \cap held |-> b.node[n]]]

Moves(t, label, n) == pc' = [pc EXCEPT ![t] = label] /\ ref' = [ref EXCEPT ![t] = n]

Filled ==
    fcachebin_resize_locked(
        [cachebin_init EXCEPT
            !.size = Cardinality(DOMAIN Old), !.head_arr = [i \in {0} |-> DOMAIN Old],
            !.node = [n \in DOMAIN Old |->
                         [key |-> Old[n], cdisj |-> 0, done |-> TRUE, access_ticks |-> 0,
                          access_function |-> Gain, access_gain |-> Gain]]],
        OldCap)

Init ==
    /\ bin \in {cachebin_init, Filled}
    /\ pc = [t \in Callers |-> "idle"] /\ ref = [t \in Callers |-> NoNode] /\ jobs = {}

(* Fault: a node that was found is returned as it is.                      *)
cuflowP_cached_call_NoWait(t, k) ==
    /\ pc[t] = "idle" /\ UNCHANGED jobs
    /\ \/ \E n \in Found(bin, k) : Moves(t, "return", n) /\ BinBecomes(Hit(bin, n))
       \/ /\ Found(bin, k) = {} /\ MayInsert
          /\ Moves(t, "compute", Fresh) /\ BinBecomes(Miss(bin, k, Fresh))

(* cuflowP_cached_call: the node is computed here, or waited for.          *)
cuflowP_cached_call(t, k) ==
    /\ pc[t] = "idle" /\ UNCHANGED jobs
    /\ \/ \E n \in Found(bin, k) : Moves(t, "wait", n) /\ BinBecomes(Hit(bin, n))
       \/ /\ Found(bin, k) = {} /\ MayInsert
          /\ Moves(t, "compute", Fresh) /\ BinBecomes(Miss(bin, k, Fresh))

(* cuflowP_sched_cached_call: the node is a promise.                       *)
cuflowP_sched_cached_call(t, k) ==
    /\ pc[t] = "idle"
    /\ \/ \E n \in Found(bin, k) :
            UNCHANGED jobs /\ Moves(t, "promise", n) /\ BinBecomes(Hit(bin, n))
       \/ /\ Found(bin, k) = {} /\ MayInsert /\ jobs' = jobs \cup {Fresh}
          /\ Moves(t, "promise", Fresh) /\ BinBecomes(Miss(bin, k, Fresh))

\* The callback stores the result and the gain in the node.
Computed(n) == bin' = [bin EXCEPT !.node[n] = [@ EXCEPT !.done = TRUE, !.access_gain = Gain]]
Compute(t) ==
    /\ pc[t] = "compute" /\ pc' = [pc EXCEPT ![t] = "release"]
    /\ Computed(ref[t]) /\ UNCHANGED <<ref, jobs>>

\* cuflow_cdisj_sub1_release_write
Subtracted(n) == [bin EXCEPT !.node[n].cdisj = @ - 1]
Release(t) ==
    /\ pc[t] = "release" /\ pc' = [pc EXCEPT ![t] = "return"]
    /\ bin' = Subtracted(ref[t]) /\ UNCHANGED <<ref, jobs>>

\* A scheduled call is made, by whichever thread.
RunJob(n) ==
    /\ n \in jobs /\ UNCHANGED <<pc, ref>>
    /\ IF bin.node[n].done THEN jobs' = jobs \ {n} /\ BinBecomes(Subtracted(n))
       ELSE Computed(n) /\ UNCHANGED jobs

\* NAME_fulfill of a promise
Fulfill(t) ==
    /\ pc[t] = "promise" /\ pc' = [pc EXCEPT ![t] = "wait"] /\ UNCHANGED <<bin, ref, jobs>>

\* cuflow_cdisj_wait_while returns.
WaitDone(t) ==
    /\ pc[t] = "wait" /\ bin.node[ref[t]].cdisj = 0
    /\ pc' = [pc EXCEPT ![t] = "return"] /\ UNCHANGED <<bin, ref, jobs>>

Return(t) == pc[t] = "return" /\ UNCHANGED jobs /\ Moves(t, "idle", NoNode) /\ BinBecomes(bin)

Tick == bin' = [bin EXCEPT !.ticks = (@ + 1) % TickWords] /\ UNCHANGED <<pc, ref, jobs>>

Next ==
    \/ \E t \in Callers :
        \/ \E k \in Keys : cuflowP_cached_call(t, k) \/ cuflowP_sched_cached_call(t, k)
        \/ Compute(t) \/ Release(t) \/ Fulfill(t) \/ WaitDone(t) \/ Return(t)
    \/ \E n \in NodeIds : RunJob(n)
    \/ Tick

vars == <<bin, pc, ref, jobs>>

Spec == Init /\ [][Next]_vars

-----------------------------------------------------------------------------
(* A node is in the chain of its key, once, and no key has two; the count  *)
(* is exact.                                                               *)
Placed ==
    /\ \A i \in DOMAIN bin.head_arr : \A n \in bin.head_arr[i] :
           Hash[bin.node[n].key] % (Mask(bin) + 1) = i
    /\ bin.size = Cardinality(InBin(bin))
    /\ \A n, m \in InBin(bin) : bin.node[n].key = bin.node[m].key => n = m

(* However calls, promises, pruning and resizing interleave, a node being  *)
(* computed stays in the bin, so that no argument is computed twice at a   *)
(* time, and who computes it is someone.                                   *)
Computing(n) == {t \in Callers : ref[t] = n /\ pc[t] \in {"compute", "release"}}
ComputedOnce ==
    \A n \in DOMAIN bin.node : bin.node[n].cdisj # 0 =>
        /\ bin.node[n].cdisj = 1 /\ n \in InBin(bin)
        /\ \A t, u \in Computing(n) : t = u
        /\ n \in jobs <=> Computing(n) = {}

(* A call returns a node with its result and with its gain set, also when  *)
(* the node has been dropped from the bin meanwhile.                       *)
ReturnsComputed ==
    \A t \in Callers : pc[t] = "return" =>
        /\ ref[t] \in DOMAIN bin.node
        /\ bin.node[ref[t]].done /\ bin.node[ref[t]].access_gain = Gain
=============================================================================
