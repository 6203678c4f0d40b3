----------------------------- MODULE GraphAlgo -----------------------------
(***************************************************************************)
(* The algorithms of cugra: strongly connected components (algo_SCC.c),    *)
(* maximal strongly connected subgraphs (graph_msc.c), feedback vertex     *)
(* sets (graph_mfvs.c) and shortest paths (graph_shortpath.c).  Binary     *)
(* decision diagrams are the sets of the sets of cut vertices that they    *)
(* hold for.                                                               *)
(***************************************************************************)
EXTENDS Integers, Sequences, FiniteSets, FiniteSetsExt, SequencesExt

CONSTANTS
    Vertices,           \* numbers from 1
    Arcs,               \* the arcs that may be made
    Paths,              \* the ends of the paths that are looked for
    Distance            \* the lengths of the arcs, by tail and head

VARIABLES
    con,                \* the graph
    ref                 \* its arcs

G0 == 0
INT_MAX == 1000
Gr == INSTANCE Graph
        WITH Graphs <- {G0}, PairHash <- [p \in Vertices \X Vertices |-> 0], MaxArcs <- 0
Q == INSTANCE Heaps WITH ReduceAbove <- 8, Elems <- {}, Pri <- << >>, Pris <- {}, Keep <- {}

Heads(G, v) == [i \in DOMAIN G.out[v] |-> G.out[v][i][2]]
Tails(G, v) == [i \in DOMAIN G.inn[v] |-> G.inn[v][i][1]]
Extend(f, x, y) == [z \in DOMAIN f \cup {x} |-> IF z = x THEN y ELSE f[z]]
-----------------------------------------------------------------------------
(* algo_SCC.c.  cpt is the number of a component, 0 for none; passed are   *)
(* the vertices of each component, connected the pairs told to the client. *)
(* lost is a record of the vertices met when they had been left, and were  *)
(* not in a component yet.                                                 *)

\* The first index is not initialised: it is whatever number pool is.
SCC_init(pool) ==
    [vinfo |-> << >>, pool |-> pool, vertex_stack |-> << >>, cpt_stack |-> << >>,
     passed |-> << >>, connected |-> {}, lost |-> {}]

\* The stack down to and including v.
PopTo(s, v) == SubSeq(s, CHOOSE i \in DOMAIN s : s[i] = v, Len(s))

\* A root of a component: the vertices above it are passed to the client, and
\* the component is connected to those seen since, and pushed.
SCC_component(s, tail, stack_mark) ==
    LET members == PopTo(s.vertex_stack, tail)
        cpt == Len(s.passed) + 1
        subs == SubSeq(s.cpt_stack, stack_mark + 1, Len(s.cpt_stack))
    IN  [s EXCEPT !.passed = Append(@, ToSet(members)),
                  !.vertex_stack = SubSeq(@, 1, Len(@) - Len(members)),
                  !.vinfo = [v \in DOMAIN @ |->
                                IF v \in ToSet(members) THEN [@[v] EXCEPT !.cpt = cpt] ELSE @[v]],
                  !.connected = @ \cup {<<cpt, sub>> : sub \in ToSet(subs)},
                  !.cpt_stack = Append(SubSeq(@, 1, stack_mark), cpt)]

\* Gives the state and the least index reached.  Every vertex gets the index
\* INT_MAX when it is left, also when it stays on the stack.
RECURSIVE detect_SCC(_, _, _)
detect_SCC(G, s, tail) ==
    IF tail \in DOMAIN s.vinfo
    THEN <<IF s.vinfo[tail].cpt = 0
           THEN [s EXCEPT !.lost = @ \cup (IF s.vinfo[tail].index = INT_MAX THEN {tail} ELSE {})]
           ELSE [s EXCEPT !.cpt_stack = Append(@, s.vinfo[tail].cpt)],
           s.vinfo[tail].index>>
    ELSE LET entered == [s EXCEPT !.vinfo = Extend(@, tail, [index |-> s.pool, cpt |-> 0]),
                                  !.pool = @ + 1, !.vertex_stack = Append(@, tail)]
             visit(sm, head) ==
                 LET r == detect_SCC(G, sm[1], head) IN <<r[1], Min({sm[2], r[2]})>>
             after == FoldLeft(visit, <<entered, s.pool>>, Heads(G, tail))
             closed == IF after[2] = s.pool
                       THEN SCC_component(after[1], tail, Len(s.cpt_stack)) ELSE after[1]
         IN  <<[closed EXCEPT !.vinfo[tail].index = INT_MAX], after[2]>>

cugra_walk_SCC(G, pool) ==
    FoldLeft(LAMBDA s, v : detect_SCC(G, s, v)[1], SCC_init(pool), Gr!VertexSeq(G, G0))
-----------------------------------------------------------------------------
(* graph_msc.c.  Tags are numbered as they are made; 0 is no tag.          *)

RECURSIVE canonical_tag(_, _)
canonical_tag(s, t) == IF s.tag[t].replacement = 0 THEN t ELSE canonical_tag(s, s.tag[t].replacement)

\* The lower level of two tags replaces the other.
MergeTags(s, tag, tagp) ==
    IF tag = 0 THEN <<s, tagp>>
    ELSE IF s.tag[tag].level < s.tag[tagp].level
         \/ (s.tag[tag].level = s.tag[tagp].level /\ tag < tagp)
    THEN <<[s EXCEPT !.tag[tagp].replacement = tag], tag>>
    ELSE <<[s EXCEPT !.tag[tag].replacement = tagp], tagp>>

\* Fault: the tag of a vertex that has been left is used as it was when noted.
revisit_Stale(s, v) ==
    IF s.vinfo[v].level # INT_MAX /\ s.vinfo[v].tag = 0
    THEN <<[s EXCEPT !.tag = Append(@, [level |-> s.vinfo[v].level, replacement |-> 0]),
                     !.vinfo[v].tag = Len(s.tag) + 1], Len(s.tag) + 1>>
    ELSE <<s, s.vinfo[v].tag>>

\* A vertex met again: if it is being visited it gets a tag of its level.
revisit(s, v) ==
    IF s.vinfo[v].level # INT_MAX /\ s.vinfo[v].tag = 0
    THEN <<[s EXCEPT !.tag = Append(@, [level |-> s.vinfo[v].level, replacement |-> 0]),
                     !.vinfo[v].tag = Len(s.tag) + 1], Len(s.tag) + 1>>
    ELSE IF s.vinfo[v].tag = 0 THEN <<s, 0>>
    ELSE LET t == canonical_tag(s, s.vinfo[v].tag) IN <<[s EXCEPT !.vinfo[v].tag = t], t>>

\* A vertex is left: a tag of its level ends here, another one is handed up.
LeaveMsc(s, v, level, tag) ==
    LET own == s.vinfo[v].tag
    IN  IF own # 0 /\ s.tag[tag].level = level THEN <<[s EXCEPT !.tag[tag].level = INT_MAX], 0>>
        ELSE IF own # 0 /\ tag # own
        THEN <<[s EXCEPT !.tag[own].level = INT_MAX, !.vinfo[v].tag = tag], tag>>
        ELSE <<[s EXCEPT !.vinfo[v].tag = tag], tag>>

\* The tag of a subtree, of a level that v is in too, is merged with that of v.
TakeTag(r, tag, level) ==
    IF r[2] # 0 /\ r[2] # tag /\ r[1].tag[r[2]].level <= level
    THEN MergeTags(r[1], tag, r[2]) ELSE <<r[1], tag>>

\* Gives the state and the tag of the subgraph that v is in with vertices
\* below it, if any.
RECURSIVE collect_msc(_, _, _, _)
collect_msc(G, s, v, level) ==
    IF v \in DOMAIN s.vinfo THEN revisit(s, v)
    ELSE
    LET visit(st, head) == TakeTag(collect_msc(G, st[1], head, level + 1), st[2], level)
        after == FoldLeft(visit, <<[s EXCEPT !.vinfo = Extend(@, v, [level |-> level, tag |-> 0])], 0>>,
                          Heads(G, v))
    IN  LeaveMsc([after[1] EXCEPT !.vinfo[v].level = INT_MAX], v, level, after[2])

\* _reverse_msc_tag: the vertices by tag
reverse_msc_tag(s) ==
    LET tagged == {v \in DOMAIN s.vinfo : s.vinfo[v].tag # 0}
        tagOf(v) == canonical_tag(s, s.vinfo[v].tag)
    IN  {{v \in tagged : tagOf(v) = t} : t \in {tagOf(v) : v \in tagged}}

cugra_identify_MSC(G) ==
    reverse_msc_tag(FoldLeft(LAMBDA x, v : collect_msc(G, x, v, 0)[1],
                             [vinfo |-> << >>, tag |-> << >>], Gr!VertexSeq(G, G0)))
-----------------------------------------------------------------------------
(* graph_mfvs.c                                                            *)

Neighbourhood(G, v) == Heads(G, v) \o Tails(G, v)

\* A vertex may be on the stack many times, and be erased again after it has
\* lost its arcs.
RECURSIVE Reduce(_, _, _)
Reduce(G, V, KV) ==
    IF KV = << >> THEN <<G, V>>
    ELSE LET v == Last(KV)
             more == Front(KV) \o Neighbourhood(G, v)
         IN  IF Gr!cugra_vertex_is_sink(G, v) \/ Gr!cugra_vertex_is_source(G, v)
             THEN Reduce(Gr!cugra_erase_vertex(G, v), V, more)
             ELSE IF Gr!cugra_vertex_has_loop(G, v)
             THEN Reduce(Gr!cugra_erase_vertex(G, v), V \cup {v}, more)
             ELSE IF Gr!cugra_vertex_outdegree_leq_1(G, v) \/ Gr!cugra_vertex_indegree_leq_1(G, v)
             THEN Reduce(Gr!cugra_eliminate_vertex(G, v), V, more)
             ELSE Reduce(G, V, Front(KV))
mfvs_redure_graph(G) == Reduce(G, {}, Gr!VertexSeq(G, G0))

\* The order in which a walk meets the vertices, which numbers the variables,
\* and the heads of the arcs back to a vertex being visited.
RECURSIVE init_first_approx(_, _, _)
init_first_approx(G, s, v) ==
    IF v \notin ToSet(s.index)
    THEN LET r == FoldLeft(LAMBDA x, u : init_first_approx(G, x, u),
                           [s EXCEPT !.index = Append(@, v), !.visiting = @ \cup {v}], Heads(G, v))
         IN  [r EXCEPT !.visiting = @ \ {v}]
    ELSE IF v \in s.visiting THEN [s EXCEPT !.B = Append(@, v)] ELSE s

\* f of v becomes: v is cut, or f holds for all tails of arcs to v.
RECURSIVE mfvs_iterate(_, _, _)
mfvs_iterate(G, s, v) ==
    IF v \in s.seen THEN s
    ELSE LET visit(sg, u) ==
                 LET r == mfvs_iterate(G, sg[1], u) IN <<r, sg[2] \cap r.f[u]>>
             after == FoldLeft(visit, <<[s EXCEPT !.seen = @ \cup {v}], SUBSET DOMAIN s.f>>, Tails(G, v))
         IN  [after[1] EXCEPT !.f[v] = {S \in SUBSET DOMAIN s.f : v \in S} \cup after[2]]

RECURSIVE IterateUntilStable(_, _, _)
IterateUntilStable(G, f, v) ==
    LET r == mfvs_iterate(G, [f |-> f, seen |-> {}], v).f
    IN  IF r = f THEN f ELSE IterateUntilStable(G, r, v)

\* bdd_satone takes the low branch wherever that is not false.
RECURSIVE satone(_, _)
satone(g, index) ==
    IF index = << >> THEN {}
    ELSE LET v == index[1]
             low == {S \in g : v \notin S}
         IN  IF low # {} THEN satone(low, Tail(index)) ELSE {v} \cup satone(g, Tail(index))

\* The vertices of a solution of the equations of the walk.
CutsetOf(walk, f) ==
    satone({S \in SUBSET ToSet(walk.index) : \A b \in ToSet(walk.B) : S \in f[b]}, walk.index)
CutsetOfWalk(G, v, walk) ==
    CutsetOf(walk, IterateUntilStable(G, [u \in ToSet(walk.index) |-> {}], v))
PartialCutset(G, v) ==
    CutsetOfWalk(G, v, init_first_approx(G, [index |-> << >>, visiting |-> {}, B |-> << >>], v))

\* cugra_move_MSC_subgraphs moves each subgraph to a graph of its own.
CutsetOfReduced(G, V) ==
    LET alone(S) == FoldLeft(LAMBDA H, v : Gr!cugra_erase_vertex_to_vsetcompl_arcs(H, v, S),
                             G, SetToSeq(S))
    IN  V \cup UNION {PartialCutset(alone(S), Min(S)) : S \in cugra_identify_MSC(G)}
AfterReduction(r) == CutsetOfReduced(r[1], r[2])
cugra_MFVS(G) ==
    AfterReduction(mfvs_redure_graph(Gr!cugra_graph_copy(G, G0, Gr!cugra_graph_new(FALSE, FALSE), G0)))
-----------------------------------------------------------------------------
(* graph_shortpath.c.  dist, prev and the colour of a vertex are in the    *)
(* maps of the state; a longer distance replaces a shorter one, in place   *)
(* and with the vertex in the queue a second time.                         *)

\* The queue compares distances, as they are when it does so.
Current(s) == [s EXCEPT !.q.pri = [v \in Vertices |-> IF v \in DOMAIN s.dist THEN -s.dist[v] ELSE 0]]

relax(G, s, v, u) ==
    LET try == s.dist[v] + Distance[v, u]
        reach(x) == [x EXCEPT !.dist = Extend(@, u, try), !.prev = Extend(@, u, v)]
        queued(x) == [Current(x) EXCEPT !.q = Q!cucon_priq_insert(@, u)]
    IN  IF u = v THEN s
        ELSE IF u \notin DOMAIN s.dist \/ (u \notin s.black /\ s.dist[u] < try) THEN queued(reach(s))
        ELSE s

RECURSIVE Search(_, _, _)
Search(G, s, Goal) ==
    IF s.q.count = 0 THEN [found |-> FALSE]
    ELSE LET v == s.q.arr[1]
             popped == [s EXCEPT !.q = Q!cucon_priq_pop_front(@)]
             relaxed == FoldLeft(LAMBDA x, u : relax(G, x, v, u), popped, Heads(G, v))
         IN  IF v \in Goal THEN [found |-> TRUE, at |-> v, dist |-> s.dist, prev |-> s.prev]
             ELSE Search(G, [relaxed EXCEPT !.black = @ \cup {v}], Goal)

\* The arcs of the path, from its end, and the sum that is returned: of the
\* distances of all vertices on the way.
RECURSIVE Unwind(_, _)
Unwind(r, v) ==
    IF v \notin DOMAIN r.prev THEN [arcs |-> << >>, distance |-> 0]
    ELSE LET rest == Unwind(r, r.prev[v])
         IN  [arcs |-> <<<<r.prev[v], v>>>> \o rest.arcs, distance |-> r.dist[v] + rest.distance]

cugra_shortest_path(G, start, Goal) ==
    LET s == [dist |-> [v \in {start} |-> 0], prev |-> << >>, black |-> {},
              q |-> Q!cucon_priq_init(TRUE, << >>)]
        r == Search(G, [Current(s) EXCEPT !.q = Q!cucon_priq_insert(@, start)], Goal)
    IN  IF r.found THEN Unwind(r, r.at) ELSE [arcs |-> << >>, distance |-> -1]
-----------------------------------------------------------------------------
\* All graphs, with the lists of arcs in the order of the vertices.
ArcNo(t, h) == (t * Cardinality(Vertices)) + h

Init ==
    /\ con = FoldLeft(LAMBDA G, v : Gr!init_vertex(G, G0, v), Gr!cugra_graph_new(FALSE, FALSE),
                      [i \in 1..Cardinality(Vertices) |-> i])
    /\ ref = {}

Connect ==
    \E <<t, h>> \in Arcs :
        /\ \A a \in ref : ArcNo(a[1], a[2]) < ArcNo(t, h)
        /\ con' = Gr!cugra_connect(con, t, h)
        /\ ref' = ref \cup {<<t, h>>}

\* The last arc made is erased.
EraseLast ==
    \E a \in ref :
        /\ \A b \in ref : ArcNo(b[1], b[2]) <= ArcNo(a[1], a[2])
        /\ con' = Gr!cugra_disconnect(con, a[1], a[2])
        /\ ref' = ref \ {a}

Next == Connect \/ EraseLast

RECURSIVE Closure(_)
Closure(R) ==
    LET S == R \cup {<<p[1], q[2]>> : <<p, q>> \in {x \in R \X R : x[1][2] = x[2][1]}}
    IN  IF S = R THEN R ELSE Closure(S)
Reach == Closure(ref)
Class(R, v) == {u \in Vertices : u = v \/ {<<u, v>>, <<v, u>>} \subseteq R}
CutBy(C) == {a \in ref : a[1] \notin C /\ a[2] \notin C}
IsCut(C) == LET R == Closure(CutBy(C)) IN \A v \in Vertices : <<v, v>> \notin R
IsMinimalCut(C) == IsCut(C) /\ \A v \in C : ~IsCut(C \ {v})

(* The subgraphs of cugra_identify_MSC are the classes of vertices that    *)
(* reach each other, of the vertices on cycles.                            *)
Subgraphs ==
    LET R == Reach
    IN  cugra_identify_MSC(con) = {Class(R, v) : v \in {u \in Vertices : <<u, u>> \in R}}

(* cugra_walk_SCC passes every vertex once, puts no two vertices into one  *)
(* component that do not reach each other, and connects components only    *)
(* along arcs and to components passed before.  Unless it has met a vertex *)
(* that it had left and had not put into a component, the components are   *)
(* the strongly connected ones, connected as their vertices are.  The      *)
(* index it starts with, which is not initialised, makes no difference, if *)
(* indices stay below INT_MAX.                                             *)
Components ==
    \A pool \in {-1, INT_MAX - Cardinality(Vertices)} :
        LET w == cugra_walk_SCC(con, pool)
            R == Reach
            Between(i, j) == {a \in ref : a[1] \in w.passed[i] /\ a[2] \in w.passed[j]}
        IN  /\ UNION ToSet(w.passed) = Vertices
            /\ \A i, j \in DOMAIN w.passed : i # j => w.passed[i] \cap w.passed[j] = {}
            /\ \A i \in DOMAIN w.passed : \A v \in w.passed[i] : w.passed[i] \subseteq Class(R, v)
            /\ \A p \in w.connected : p[1] > p[2] /\ Between(p[1], p[2]) # {}
            /\ w.lost = {} =>
                   /\ ToSet(w.passed) = {Class(R, v) : v \in Vertices}
                   /\ \A i, j \in DOMAIN w.passed :
                          i # j /\ Between(i, j) # {} => <<i, j>> \in w.connected
            /\ w.vertex_stack = << >>

(* algo_SCC.h: the components walked through are the strongly connected    *)
(* ones.                                                                   *)
AllComponents ==
    LET R == Reach
    IN  ToSet(cugra_walk_SCC(con, 0).passed) = {Class(R, v) : v \in Vertices}

(* Without the vertices of cugra_MFVS the graph has no cycle, and no       *)
(* vertex of the set could be left out.  graph_algo.h promises more, a     *)
(* minimum set; it is one when the reductions leave no vertex, and not     *)
(* always when the equations are solved: satone avoids the vertices that   *)
(* the walk met first, whatever the size of the set becomes.               *)
Feedback ==
    LET r == mfvs_redure_graph(Gr!cugra_graph_copy(con, G0, Gr!cugra_graph_new(FALSE, FALSE), G0))
        V == AfterReduction(r)
    IN  /\ IsMinimalCut(V)
        /\ Gr!VertexSeq(r[1], G0) = << >> =>
               \A C \in SUBSET Vertices : IsCut(C) => Cardinality(C) >= Cardinality(V)

(* cugra_shortest_path gives a path if there is one, which passes no       *)
(* vertex twice.  graph_algo.h promises the shortest path and its length;  *)
(* the code prefers longer ways to a vertex in the queue, and adds up the  *)
(* distances of the vertices on the way: what it returns is at least the   *)
(* length of its path, and is that length for a path of one arc.           *)
PathFound ==
    \A <<s, t>> \in Paths :
        LET p == cugra_shortest_path(con, s, {t})
            n == Len(p.arcs)
            length == FoldLeft(LAMBDA d, a : d + Distance[a[1], a[2]], 0, p.arcs)
        IN  IF s = t THEN n = 0 /\ p.distance = 0
            ELSE IF <<s, t>> \notin Reach THEN p.distance = -1
            ELSE /\ n > 0 /\ p.arcs[1][2] = t /\ p.arcs[n][1] = s
                 /\ ToSet(p.arcs) \subseteq ref
                 /\ \A i \in 1..(n - 1) : p.arcs[i][1] = p.arcs[i + 1][2]
                 /\ Cardinality({a[2] : a \in ToSet(p.arcs)} \cup {s}) = n + 1
                 /\ p.distance >= length
                 /\ n = 1 => p.distance = length

Answers == Subgraphs /\ Components /\ Feedback /\ PathFound

-----------------------------------------------------------------------------
(* Small graphs for the walk through strongly connected components.        *)
AllArcs == {p \in Vertices \X Vertices : p[1] # p[2]}
UnitDistance == [p \in Vertices \X Vertices |-> 1]

Spec == Init /\ [][Next]_<<con, ref>>
=============================================================================
