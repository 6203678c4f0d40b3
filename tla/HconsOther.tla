----------------------------- MODULE HconsOther ------------------------------
(***************************************************************************)
(* cuoo/halloc_disapp.c: hash-consed allocation for collectors without     *)
(* disclaim procedures.  The table is an array of chains of nodes; every   *)
(* slot that holds an object is registered with the collector as a         *)
(* disappearing link, and the collector clears it when the object dies.    *)
(* An object can stand in place of the NULL that ends a chain, so a slot   *)
(* changes between node pointer, object and NULL, and its registration     *)
(* has to follow.                                                          *)
(*                                                                         *)
(* One thread allocates while the collector runs between its steps.        *)
(* con is the memory and ref is the thread.  A pointer is 0, an object     *)
(* (positive) or a node (negative, as nodes have the lowest bit set).      *)
(***************************************************************************)
EXTENDS Integers, Sequences, FiniteSets, SequencesExt

CONSTANTS
    Keys,               \* meta and key words of the objects that are asked for
    Hash,               \* cu_wordarr_hash
    INIT_CAP,           \* CUOO_HCONS_INIT_CAP
    NodeIds,            \* addresses of nodes, a bound on memory
    Objs, CAP_MIN       \* see below

VARIABLES con, ref

(* An object is one of two addresses for its key.                          *)
Objects == {2 * k : k \in Keys} \cup {(2 * k) + 1 : k \in Keys}
KeyOf(o) == o \div 2

-----------------------------------------------------------------------------
(* A link is the address of a slot: in the table, in the table that is     *)
(* being replaced, or one of the two fields of a node.                     *)
Read(m, l) ==
    CASE l[1] = "arr" -> m.arr[l[2]]
      [] l[1] = "old" -> m.old[l[2]]
      [] l[1] = "obj" -> m.nodes[l[2]].obj
      [] l[1] = "next" -> m.nodes[l[2]].next

Write(m, l, p) ==
    CASE l[1] = "arr" -> [m EXCEPT !.arr[l[2]] = p]
      [] l[1] = "old" -> [m EXCEPT !.old[l[2]] = p]
      [] l[1] = "obj" -> [m EXCEPT !.nodes[l[2]].obj = p]
      [] l[1] = "next" -> [m EXCEPT !.nodes[l[2]].next = p]

(* cu_bugf: the collector reports a link registered twice, or one that was *)
(* not registered when it is dropped.                                      *)
init_disappearing(m, l, o) ==
    [Write(m, l, o) EXCEPT !.links = @ \cup {l}, !.bug = @ \/ l \in m.links]

unreg_disappearing(m, l) ==
    [m EXCEPT !.links = @ \ {l}, !.bug = @ \/ l \notin m.links]

is_hcnode(p) == p < 0

(* cu_unew_atomic gives the lowest free address; fields are written next.  *)
NewId(m) == CHOOSE n \in NodeIds \ DOMAIN m.nodes :
                \A i \in NodeIds \ DOMAIN m.nodes : n <= i
NewNode(m) ==
    [m EXCEPT !.nodes = [n \in DOMAIN m.nodes \cup {NewId(m)} |->
                            IF n = NewId(m) THEN [obj |-> 0, next |-> 0] ELSE m.nodes[n]]]

(* cu_ufree_atomic, of no node if n is 0.                                  *)
FreeNode(m, n) == [m EXCEPT !.nodes = [i \in DOMAIN m.nodes \ {n} |-> m.nodes[i]]]

Size(m) == Cardinality(DOMAIN m.arr)
hcset_link(m, hash) == <<"arr", hash % Size(m)>>
Zeroed(size) == [i \in 0..(size - 1) |-> 0]

-----------------------------------------------------------------------------
PushNode(m, n, l, obj, next) ==
    Write(Write(init_disappearing(m, <<"obj", n>>, obj), <<"next", n>>, next), l, -n)

MoveToNode(m, n, l, obj, coll_obj) ==
    Write(init_disappearing(init_disappearing(m, <<"obj", n>>, obj), <<"next", n>>, coll_obj),
          l, -n)

InsertAtLink(m, l, obj) ==
    IF is_hcnode(Read(m, l)) THEN PushNode(NewNode(m), NewId(m), l, obj, Read(m, l))
    ELSE IF Read(m, l) # 0
    THEN MoveToNode(NewNode(unreg_disappearing(m, l)), NewId(m), l, obj, Read(m, l))
    ELSE init_disappearing(m, l, obj)

hcset_insert(m, obj) == InsertAtLink(m, hcset_link(m, Hash[KeyOf(obj)]), obj)

(* One slot of the old table: its object, if it is alive, goes to the new. *)
MoveSlot(m, l) ==
    IF Read(m, l) = 0 THEN m ELSE hcset_insert(unreg_disappearing(m, l), Read(m, l))

(* A node is freed when its successor has been read from it.               *)
RECURSIVE MoveChain(_, _, _)
MoveChain(m, l, free_node) ==
    IF is_hcnode(Read(m, l))
    THEN MoveChain(MoveSlot(FreeNode(m, free_node), <<"obj", -Read(m, l)>>),
                   <<"next", -Read(m, l)>>, -Read(m, l))
    ELSE FreeNode(MoveSlot(m, l), free_node)

RECURSIVE MoveFrom(_, _)
MoveFrom(m, i) ==
    IF i \notin DOMAIN m.old THEN m
    ELSE MoveFrom(MoveChain(m, <<"old", i>>, 0), i + 1)

(* cu_ulong_exp2_ceil_log2                                                 *)
exp2_ceil_log2(x) ==
    IF x = 0 THEN 0 ELSE
    CHOOSE p \in {2 ^ i : i \in 0..x} : p >= x /\ \A i \in 0..x : 2 ^ i >= x => p <= 2 ^ i

OldLinks(links) == {IF l[1] = "arr" THEN <<"old", l[2]>> ELSE l : l \in links}

hcset_resize_locked(m, cnt) ==
    [MoveFrom([m EXCEPT !.old = m.arr, !.links = OldLinks(@),
                        !.arr = Zeroed(exp2_ceil_log2((cnt * 3) \div 2))], 0)
        EXCEPT !.old = << >>]

-----------------------------------------------------------------------------
(* The nodes of a chain from a slot on, and the slot that ends it.         *)
RECURSIVE ChainOf(_, _)
ChainOf(m, l) ==
    IF is_hcnode(Read(m, l)) THEN <<-Read(m, l)>> \o ChainOf(m, <<"next", -Read(m, l)>>)
    ELSE << >>

NodesOf(m, l) == {ChainOf(m, l)[i] : i \in 1..Len(ChainOf(m, l))}
LastLink(m, l) ==
    IF ChainOf(m, l) = << >> THEN l ELSE <<"next", ChainOf(m, l)[Len(ChainOf(m, l))]>>

(* The slots of a chain that hold objects or are free.                     *)
SlotsOf(m, l) == {<<"obj", n>> : n \in NodesOf(m, l)} \cup {LastLink(m, l)}

Found(m, k) ==
    {l \in SlotsOf(m, hcset_link(m, Hash[k])) : Read(m, l) # 0 /\ KeyOf(Read(m, l)) = k}

(* The node that loses its object last in the chain is reused.             *)
FreeIn(m, l) ==
    {i \in 1..Len(ChainOf(m, l)) : m.nodes[ChainOf(m, l)[i]].obj = 0}
ReusedLink(m, l) ==
    <<"obj", ChainOf(m, l)[CHOOSE i \in FreeIn(m, l) : \A j \in FreeIn(m, l) : j <= i]>>

(* The last object is moved to a new node, whose other field takes the new *)
(* one.                                                                    *)
Extended(m, link, n) ==
    Write(init_disappearing(NewNode(Write(unreg_disappearing(m, link), link, 0)),
                            <<"obj", n>>, Read(m, link)),
          link, -n)

NewObject(m, k) == IF 2 * k \in m.live THEN (2 * k) + 1 ELSE 2 * k

Stored(m, l, o) ==
    [init_disappearing(m, l, o) EXCEPT !.live = @ \cup {o}, !.insert_cnt = @ + 1]

(* _halloc after the search of the chain at l has failed.                  *)
HallocAt(m, l, o) ==
    IF Read(m, LastLink(m, l)) = 0 THEN Stored(m, LastLink(m, l), o)
    ELSE IF FreeIn(m, l) # {} THEN Stored(m, ReusedLink(m, l), o)
    ELSE Stored(Extended(m, LastLink(m, l), NewId(m)), <<"next", NewId(m)>>, o)

AdjustDue(m) == m.insert_cnt * 4 > Size(m) - 1

(* The section under the lock, and the test after it.                      *)
Halloc(k) ==
    /\ ref.pc = "idle"
    /\ \/ /\ Found(con, k) # {}
          /\ ref' = [ref EXCEPT !.held = @ \cup {Read(con, l) : l \in Found(con, k)}]
          /\ UNCHANGED con
       \/ /\ Found(con, k) = {}
          /\ con' = HallocAt(con, hcset_link(con, Hash[k]), NewObject(con, k))
          /\ ref' = [ref EXCEPT !.held = @ \cup {NewObject(con, k)},
                                !.pc = IF AdjustDue(con') THEN "count" ELSE "idle",
                                !.cnt = 0, !.bucket = 0]

(* _hcset_adjust counts the objects, bucket by bucket, without the lock,   *)
(* while the collector clears slots.                                       *)
ObjectsAt(m, l) == Cardinality({s \in SlotsOf(m, l) : Read(m, s) # 0})

Count ==
    /\ ref.pc = "count"
    /\ ref' = [ref EXCEPT !.cnt = @ + ObjectsAt(con, <<"arr", ref.bucket>>),
                          !.bucket = @ + 1,
                          !.pc = IF ref.bucket + 1 = Size(con) THEN "adjust" ELSE "count"]
    /\ UNCHANGED con

(* The loop that would remove the nodes of dead objects starts where the   *)
(* loop that counts has ended, so it has no passes.                        *)
Adjust ==
    /\ ref.pc = "adjust"
    /\ con' = [IF ref.cnt * 4 < Size(con) \/ ref.cnt > Size(con)
               THEN hcset_resize_locked(con, ref.cnt) ELSE con
               EXCEPT !.insert_cnt = 0]
    /\ ref' = [ref EXCEPT !.pc = "idle", !.cnt = 0, !.bucket = 0]

(* The program drops its references to an object.                          *)
Release(o) ==
    /\ ref.pc = "idle" /\ o \in ref.held
    /\ ref' = [ref EXCEPT !.held = @ \ {o}]
    /\ UNCHANGED con

(* The collector frees an object and clears the links registered for it.   *)
LinksTo(m, o) == {l \in m.links : Read(m, l) = o}

RECURSIVE Clear(_, _)
Clear(m, links) ==
    IF links = {} THEN m
    ELSE LET l == CHOOSE x \in links : TRUE
         IN  Clear([Write(m, l, 0) EXCEPT !.links = @ \ {l}], links \ {l})

Disappear(o) ==
    /\ o \in con.live \ ref.held
    /\ con' = [Clear(con, LinksTo(con, o)) EXCEPT !.live = @ \ {o}]
    /\ UNCHANGED ref

-----------------------------------------------------------------------------
hcons_init ==
    [arr |-> Zeroed(INIT_CAP), old |-> << >>, nodes |-> << >>, links |-> {},
     live |-> {}, insert_cnt |-> 0, bug |-> FALSE]

Init ==
    /\ con = hcons_init
    /\ ref = [held |-> {}, pc |-> "idle", cnt |-> 0, bucket |-> 0]

Next ==
    \/ \E k \in Keys : Halloc(k)
    \/ Count
    \/ Adjust
    \/ \E o \in Objects : Release(o) \/ Disappear(o)

-----------------------------------------------------------------------------
TableSlots(m) == UNION {SlotsOf(m, <<"arr", i>>) : i \in DOMAIN m.arr}
TableNodes(m) == UNION {NodesOf(m, <<"arr", i>>) : i \in DOMAIN m.arr}

(* The registered links are exactly the slots that hold objects, all of    *)
(* them alive; no call of the collector's interface was refused, and no    *)
(* node is lost: whatever the order of allocation, death and resizing.     *)
Linked ==
    /\ con.links = {l \in TableSlots(con) : Read(con, l) # 0}
    /\ \A l \in con.links : Read(con, l) \in con.live
    /\ ~con.bug
    /\ DOMAIN con.nodes = TableNodes(con)

(* Hash-consing: equal keys have one object while it is alive, and         *)
(* _halloc finds it.                                                       *)
Unique ==
    /\ \A o, p \in con.live : KeyOf(o) = KeyOf(p) => o = p
    /\ \A o \in con.live : \E l \in Found(con, KeyOf(o)) : Read(con, l) = o

(* The table is resized for at least the objects in use, so it never gets  *)
(* no buckets, although the collector runs while they are counted.         *)
Counted == ref.pc = "adjust" => ref.cnt >= Cardinality(ref.held) /\ ref.cnt > 0

-----------------------------------------------------------------------------
(***************************************************************************)
(* cuoo/halloc_disclaim_old.c: the table of the older hash-consing, where  *)
(* the objects of a bucket are linked through a word of their own.  Hcons  *)
(* is about the threads and the collector: like there, an object that a    *)
(* thread finds is marked for the collector, here before the lock is       *)
(* released, and the disclaim procedure does not look at the mark again.   *)
(*                                                                         *)
(* con is the table and ref the objects that exist, out of Objs, which     *)
(* have different keys, by which they are found.                           *)
(***************************************************************************)
Cap(h) == h.mask + 1
Empty(cap) == [i \in 0..(cap - 1) |-> << >>]
hcset_init == [mask |-> CAP_MIN - 1, arr |-> Empty(CAP_MIN), cnt |-> 0]

(* The chains are emptied one after the other, each object is pushed in    *)
(* front of its new chain.                                                 *)
Push(arr, i, o) == [arr EXCEPT ![i] = <<o>> \o @]
InOrder(h) == FlattenSeq([i \in 1..Cap(h) |-> [j \in DOMAIN h.arr[i - 1] |-> <<i - 1, h.arr[i - 1][j]>>]])
Rehashed(h, new_cap, HashOf(_)) ==
    [h EXCEPT !.mask = new_cap - 1,
              !.arr = FoldLeft(LAMBDA arr, e : Push(arr, HashOf(e) % new_cap, e[2]),
                               Empty(new_cap), InOrder(h))]

\* The old bucket has the bits of the hash that the new one needs.
hcset_shrink_wlck(h, new_cap) == Rehashed(h, new_cap, LAMBDA e : e[1])
hcset_grow_wlck(h, new_cap) == Rehashed(h, new_cap, LAMBDA e : Hash[e[2]])

AtLeast(x, y) == IF x < y THEN y ELSE x

Sparse(h) == h.cnt * 2 < h.mask /\ h.mask > CAP_MIN
ShrunkCap(h) == AtLeast(exp2_ceil_log2(h.cnt \div 2), CAP_MIN)
Shrunk(h) == IF Sparse(h) THEN hcset_shrink_wlck(h, ShrunkCap(h)) ELSE h

hcset_hasheqv_erase_wlck(h, o) ==
    Shrunk([h EXCEPT !.arr[Hash[o] % Cap(h)] = SelectSeq(@, LAMBDA p : p # o), !.cnt = @ - 1])

Full(h) == h.cnt > h.mask * 2
Grown(h) == IF Full(h) THEN hcset_grow_wlck(h, Cap(h) * 2) ELSE h
Insert(h, o) == [h EXCEPT !.arr = Push(@, Hash[o] % Cap(h), o), !.cnt = @ + 1]

FoundOld(h, o) == o \in ToSet(h.arr[Hash[o] % Cap(h)])

(* cuexP_halloc_raw and cuexP_hxalloc_raw.                                 *)
HallocOld(o) ==
    /\ con' = IF FoundOld(con, o) THEN con ELSE Insert(Grown(con), o)
    /\ ref' = ref \cup {o}

(* cuooP_hcons_disclaim_proc, with the lock.                               *)
Disclaim(o) ==
    /\ o \in ref
    /\ con' = hcset_hasheqv_erase_wlck(con, o)
    /\ ref' = ref \ {o}

(* The collector is told to keep an object whose set is locked.            *)
DisclaimLocked(o) == o \in ref /\ UNCHANGED <<con, ref>>

InitOld == con = hcset_init /\ ref = {}

(* Keys are asked for again while their object exists; new objects come in *)
(* the order of their addresses.                                           *)
NextOld == \E o \in Objs :
    \/ (o \in ref \/ \A p \in Objs : p < o => p \in ref) /\ HallocOld(o)
    \/ Disclaim(o)
    \/ DisclaimLocked(o)

-----------------------------------------------------------------------------
(* Each object is in its bucket, once, and counted: cuexP_halloc_raw finds *)
(* it whatever resizing there was since it was made.                       *)
Placed ==
    /\ \A i \in DOMAIN con.arr : \A o \in ToSet(con.arr[i]) : Hash[o] % Cap(con) = i
    /\ \A o \in Objs : FoundOld(con, o) <=> o \in ref
    /\ con.cnt = Cardinality(ref) /\ Len(InOrder(con)) = con.cnt
    /\ DOMAIN con.arr = 0..con.mask

(* The chains are short and the table is not too large.  It can have one   *)
(* object more than the limit for growing asks for, and two more when it   *)
(* has shrunk.                                                             *)
Load ==
    /\ con.cnt <= (con.mask * 2) + 3
    /\ con.mask <= CAP_MIN \/ con.mask <= con.cnt * 2

(* What is asserted of the new capacity.                                   *)
Shrinks ==
    \A o \in ref : LET h == [con EXCEPT !.cnt = @ - 1]
                   IN  Sparse(h) => 0 < ShrunkCap(h) /\ ShrunkCap(h) < Cap(h)
=============================================================================
