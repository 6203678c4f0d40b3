---------------------------- MODULE MCContainers ----------------------------
(***************************************************************************)
(* Small instances of the containers of the libraries: what says which of  *)
(* them a behaviour is about.                                              *)
(* Hset has its own variables, hset and ret, and so has Hcons; the others  *)
(* share con, the data structure, and ref, what it stands for or what its  *)
(* clients do.                                                             *)
(***************************************************************************)
EXTENDS Hset, Hcons

CONSTANTS Few, Many     \* the objects of the two clients of a hash-consing set

VARIABLES what, con, ref

-----------------------------------------------------------------------------
\* Half of the few have chosen hashes, the others share bucket 0; the many
\* are on two chains, which are one chain in tables of up to eight buckets.
SmallHash == [o \in Objs |-> IF o \in Few THEN (IF o % 3 = 0 THEN o ELSE 8 * o)
                             ELSE 8 * (o % 2)]

(* A client that allocates and drops a few objects in any order.           *)
NextFew == Members \subseteq Few /\ \E o \in Few : Halloc(o) \/ Disclaim(o)

(* A client for tables large enough that long chains are merged when the   *)
(* table shrinks: it allocates the objects in order, and the collector     *)
(* disclaims the oldest of the first chain and the youngest of the second. *)
Ends(o) ==
    \A x \in Members :
        Hash[x] = Hash[o] => IF Hash[o] = 0 THEN x >= o ELSE x <= o

NextMany ==
    /\ Members \subseteq Many
    /\ \E o \in Many :
        \/ Members = {x \in Many : x < o} /\ Halloc(o)
        \/ Ends(o) /\ Disclaim(o)

-----------------------------------------------------------------------------
(* The instances.  Words have five or four bits, so that the sign changes  *)
(* and sums wrap within the keys chosen.                                   *)
SetKeys == {0, 3, 5, 10, 12, 16, 21, 31}
US == INSTANCE Ucset
        WITH W <- 5, BitsetWidth <- 4, IntWidth <- 6, Keys <- SetKeys,
             Operands <- {{}, {0, 3, 12}, {5, 12, 16, 31}, SetKeys}

Larger(x, y) == IF x > y THEN x ELSE y
UM == INSTANCE Ucmap
        WITH W <- 4, Zero <- 0, Merge <- Larger, Keys <- {0, 3, 5, 8, 12, 15}, Values <- {1, 2},
             Operands <- {<< >>, [k \in {0, 3, 12} |-> 1], [k \in {5, 8, 15} |-> 2],
                          [k \in {3, 8, 12} |-> (k % 2) + 1]}

UMM == INSTANCE Ucmultimap
        WITH W <- 4, BitsetWidth <- 4, IntWidth <- 8, Keys <- {0, 3, 5}, Elems <- {2, 3, 9},
             Operands <- {{}, {<<0, 2>>, <<3, 9>>}, {<<3, 2>>, <<3, 3>>, <<5, 9>>}}

RB == INSTANCE Rbtree WITH Keys <- 1..9

MapKeys == 0..4
MapHash == [k \in MapKeys |-> IF k < 2 THEN 0 ELSE IF k = 2 THEN 4 ELSE k]
HM == INSTANCE Hashmaps
        WITH Keys <- MapKeys, Hash <- MapHash, Values <- {1},
             Operands <- {{}, {0, 2, 3}, {1, 4}, MapKeys},
             MIN_SIZE <- 2, INIT_CAP <- 2, CAP_INIT <- 2, CAP_MIN <- 4, SizeWords <- 16

HeapElems == 1..5
HeapPri == [e \in HeapElems |-> (e * 2) \div 3]
HP == INSTANCE Heaps
        WITH Elems <- HeapElems, Pri <- HeapPri, Pris <- 1..3,
             Keep <- {{1, 2, 3, 4}, {2, 4, 5}, {1, 3, 5}}, ReduceAbove <- 1

DL == INSTANCE Dlink WITH Nodes <- 1..4, Eols <- << >>, Val <- << >>
DLL == INSTANCE Dlink WITH Nodes <- 1..6, Eols <- <<1, 2>>, Val <- <<0, 0, 1, 2, 1, 2>>

BinKeys == {0, 1, 2, 4}
CA == INSTANCE Cache
        WITH Keys <- BinKeys, Hash <- [k \in BinKeys |-> k], Gain <- [k \in BinKeys |-> 1],
             byte_cost_per_tick <- 1, TickWords <- 2, Bits <- 1, MIN_CAP <- 2

ArcHash(V) == [p \in V \X V |-> p[1] + (2 * p[2])]
GR == INSTANCE Graph
        WITH Vertices <- 1..3, Graphs <- {0, 9}, PairHash <- ArcHash(1..3), MaxArcs <- 2
GR2 == INSTANCE Graph
        WITH Vertices <- 1..2, Graphs <- {0, 9}, PairHash <- ArcHash(1..2), MaxArcs <- 3

AlgoVertices == 1..4
GA == INSTANCE GraphAlgo
        WITH Vertices <- AlgoVertices,
             Arcs <- {p \in AlgoVertices \X AlgoVertices : p[1] # p[2] \/ p[1] = 2},
             Paths <- {<<1, 4>>, <<3, 1>>, <<2, 2>>},
             Distance <- [p \in AlgoVertices \X AlgoVertices |-> 1 + ((p[1] * p[2]) % 3)]

\* Three keys share a bucket in tables of up to four.
ConsHash == [k \in 1..4 |-> IF k < 4 THEN 4 * k ELSE 1]
HD == INSTANCE HconsOther
        WITH Keys <- 1..4, Hash <- ConsHash, INIT_CAP <- 2, NodeIds <- 1..6, Objs <- {}, CAP_MIN <- 2

HO == INSTANCE HconsOther
        WITH Objs <- 1..8, Hash <- [o \in 1..8 |-> IF o > 4 THEN o ELSE 4 * o], CAP_MIN <- 2,
             Keys <- {}, INIT_CAP <- 2, NodeIds <- {}

WQ == INSTANCE Chunked WITH CHUNK_SIZE <- 2, Sizes <- {}, MaxSize <- 0, Calls <- 8
ST == INSTANCE Chunked WITH CHUNK_SIZE <- 2, Sizes <- {1, 3}, MaxSize <- 6, Calls <- 0

\* Fields of one bit and of whole bytes; members that leave a hole at the end.
LY == INSTANCE Layout
        WITH WORD <- 8, BYTE <- 2, MaxFields <- 4,
             Requests <- {<<1, 1>>, <<3, 1>>, <<2, 2>>, <<4, 4>>, <<6, 2>>, <<8, 8>>, <<12, 4>>},
             Members <- {<< <<1, 1>>, <<2, 2>> >>, << <<1, 1>>, <<8, 8>> >>, << <<4, 4>>, <<2, 2>>, <<1, 1>> >>}

BA == INSTANCE Bitarray
        WITH WIDTH <- 3, MaxSize <- 6, Functions1 <- {1}, Functions2 <- {2, 12},
             Other <- <<0, 1, 0, 1, 1, 0, 1, 0>>

PO == INSTANCE Po WITH MaxElts <- 6

BA8 == INSTANCE Bitarray WITH WIDTH <- 8, MaxSize <- 0, Functions1 <- {}, Functions2 <- {}, Other <- << >>

-----------------------------------------------------------------------------
allvars == <<hset, ret, what, con, ref, hcons_vars>>

SmallInit ==
    /\ Init
    /\ HconsInit
    /\ \/ what \in {"hset", "hcons"} /\ con = << >> /\ ref = << >>
       \/ what = "ucset" /\ US!Init
       \/ what = "ucmap" /\ UM!Init
       \/ what = "ucmultimap" /\ UMM!Init
       \/ what = "rbtree" /\ RB!Init
       \/ what = "hashmap" /\ HM!Init
       \/ what = "heap" /\ HP!Init
       \/ what = "dlink" /\ DL!Init
       \/ what = "list" /\ DLL!InitList
       \/ what = "cache" /\ CA!Init
       \/ what = "graph" /\ GR!Init
       \/ what = "graph2" /\ GR2!Init
       \/ what = "graphalgo" /\ GA!Init
       \/ what = "hdisapp" /\ HD!Init
       \/ what = "hold" /\ HO!InitOld
       \/ what = "stack" /\ ST!Init
       \/ what = "workq" /\ WQ!InitWorkq
       \/ what = "bitarray" /\ BA!Init
       \/ what = "layout" /\ LY!Init
       \/ what = "po" /\ PO!Init
    /\ what # "hcons" => key = [t \in Threads |-> CHOOSE k \in Keys : TRUE]

SmallNext ==
    /\ UNCHANGED what
    /\ \/ what = "hset" /\ (NextFew \/ NextMany) /\ UNCHANGED <<con, ref, hcons_vars>>
       \/ what = "hcons" /\ HconsNext /\ UNCHANGED <<vars, con, ref>>
       \/ /\ UNCHANGED <<vars, hcons_vars>>
          /\ \/ what = "ucset" /\ US!Next
             \/ what = "ucmap" /\ UM!Next
             \/ what = "ucmultimap" /\ UMM!Next
             \/ what = "rbtree" /\ RB!Next
             \/ what = "hashmap" /\ HM!Next
             \/ what = "heap" /\ HP!Next
             \/ what = "dlink" /\ DL!Next
             \/ what = "list" /\ DLL!NextList
             \/ what = "cache" /\ CA!Next
             \/ what = "graph" /\ GR!Next
             \/ what = "graph2" /\ GR2!Next
             \/ what = "graphalgo" /\ GA!Next
             \/ what = "hdisapp" /\ HD!Next
             \/ what = "hold" /\ HO!NextOld
             \/ what = "stack" /\ ST!Next
             \/ what = "workq" /\ WQ!NextWorkq
             \/ what = "bitarray" /\ BA!Next
             \/ what = "layout" /\ LY!Next
             \/ what = "po" /\ PO!Next

SmallSpec == SmallInit /\ [][SmallNext]_allvars

-----------------------------------------------------------------------------
(* The trees and tables have the form that their operations rely on: the   *)
(* radix trees of a set or map are the only ones for it, red-black trees   *)
(* are balanced, elements are where a search for them looks, heaps are     *)
(* ordered and links are mutual.                                           *)
WellFormed ==
    /\ what = "hset" => Placed /\ NodesAccounted /\ LoadBounded
    /\ what = "ucset" => US!Canonical
    /\ what = "ucmap" => UM!Canonical
    /\ what = "ucmultimap" => UMM!Canonical
    /\ what = "rbtree" => RB!Balanced
    /\ what = "hashmap" => HM!Placed
    /\ what = "heap" => HP!Ordered
    /\ what = "dlink" => DL!Mutual
    /\ what = "list" => DLL!ListsLinked
    /\ what = "cache" => CA!Placed
    /\ what = "graph" => GR!Linked
    /\ what = "graph2" => GR2!Linked
    /\ what = "hdisapp" => HD!Linked
    /\ what = "hold" => HO!Placed /\ HO!Load
    /\ what = "layout" => LY!Exact
    /\ what = "po" => PO!Reduced

(* Searches, counts, iterations and comparisons give what the set, map,    *)
(* multimap or queue that the structure stands for says.                   *)
Answers ==
    /\ what = "ucset" => US!Answers
    /\ what = "ucmap" => UM!Answers
    /\ what = "ucmultimap" => UMM!Answers
    /\ what = "rbtree" => RB!Answers
    /\ what = "hashmap" => HM!Answers
    /\ what = "heap" => HP!Answers
    /\ what = "dlink" => DL!Answers
    /\ what = "list" => DLL!ListAnswers
    /\ what = "graph" => GR!Answers
    /\ what = "graph2" => GR2!Answers
    /\ what = "graphalgo" => GA!Answers
    /\ what = "hdisapp" => HD!Unique
    /\ what = "stack" => ST!LastIn
    /\ what = "workq" => WQ!Fifo
    /\ what = "bitarray" => BA!Elements /\ BA!Compared
    /\ what = "bitarray" /\ con = BA!Array(0, << >>) => BA8!WordFunctions
    /\ what = "layout" => LY!Fits
    /\ what = "po" => PO!Ordered

(* The operations that make a new structure of one or two, and those that  *)
(* keep the old one as it was, agree with the sets and maps they describe. *)
Derived ==
    /\ what = "ucset" => US!Derived
    /\ what = "ucmap" => UM!Derived
    /\ what = "rbtree" => RB!Derived
    /\ what = "hashmap" => HM!Derived
    /\ what = "dlink" => DL!Derived
    /\ what = "list" => DLL!ListCopied
    /\ what = "graph" => GR!Derived
    /\ what = "graph2" => GR2!Derived
    /\ what = "hdisapp" => HD!Counted
    /\ what = "hold" => HO!Shrinks
    /\ what = "po" => PO!Gathered
=============================================================================
