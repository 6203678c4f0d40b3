------------------------------- MODULE Graph -------------------------------
(***************************************************************************)
(* cugra/graph.c and graph_algo.c: directed multigraphs, and graphs with   *)
(* simple arcs, which have a hash table of their arcs besides the lists    *)
(* at the vertices.  An arc is <<tail, head, n>>; n tells parallel arcs    *)
(* apart.  The lists of arcs at a vertex are sequences; the vertices of a  *)
(* graph are in a list with real links, since an erased vertex is unlinked *)
(* a second time.                                                          *)
(***************************************************************************)
EXTENDS Integers, Sequences, FiniteSets, SequencesExt

CONSTANTS
    Vertices, Graphs,       \* numbers; a graph is the head of its list
    PairHash,               \* _vertex_pair_hash of tail and head
    MaxArcs                 \* bound: arcs at one time

VARIABLES
    con,                    \* simple, undirected, links, out, inn, arr, size
    ref                     \* the vertices of the graphs, their arcs

D == INSTANCE Dlink WITH Nodes <- Vertices \cup Graphs, Eols <- << >>, Val <- << >>

cugra_arc_tail(a) == a[1]
cugra_arc_head(a) == a[2]
cugra_arc_connects(a, vT, vH) == cugra_arc_tail(a) = vT /\ cugra_arc_head(a) = vH
cugra_arc_is_loop(a) == cugra_arc_head(a) = cugra_arc_tail(a)
Without(s, a) == SelectSeq(s, LAMBDA x : x # a)

cugra_graph_new(simple, undirected) ==
    [simple |-> simple, undirected |-> undirected,
     links |-> [next |-> [x \in Vertices \cup Graphs |-> x], prev |-> [x \in Vertices \cup Graphs |-> x]],
     out |-> [v \in Vertices |-> << >>], inn |-> [v \in Vertices |-> << >>],
     arr |-> [i \in {0} |-> << >>], size |-> 0]

\* The vertices of g, as iteration meets them.
VertexSeq(G, g) == Tail(D!Cycle(G.links, g))
VertexSet(G, g) == ToSet(VertexSeq(G, g))
ArcSet(G) == UNION {ToSet(G.out[v]) : v \in Vertices}

cugra_vertex_is_sink(G, v) == G.out[v] = << >>
cugra_vertex_is_source(G, v) == G.inn[v] = << >>
cugra_vertex_is_isolated(G, v) == cugra_vertex_is_sink(G, v) /\ cugra_vertex_is_source(G, v)
cugra_vertex_outdegree_leq_1(G, v) == Len(G.out[v]) <= 1
cugra_vertex_indegree_leq_1(G, v) == Len(G.inn[v]) <= 1
cugra_vertex_has_loop(G, v) == \E i \in DOMAIN G.out[v] : cugra_arc_is_loop(G.out[v][i])

init_vertex(G, g, v) ==
    [G EXCEPT !.links = D!cu_dlink_insert_before(@, g, v), !.out[v] = << >>, !.inn[v] = << >>]

init_arc(G, a) ==
    [G EXCEPT !.out[cugra_arc_tail(a)] = Append(@, a), !.inn[cugra_arc_head(a)] = Append(@, a)]
unlink_arc(G, a) ==
    [G EXCEPT !.out[cugra_arc_tail(a)] = Without(@, a), !.inn[cugra_arc_head(a)] = Without(@, a)]
-----------------------------------------------------------------------------
(* The table of the arcs of a graph with simple arcs.                      *)

ArcHash(a) == PairHash[cugra_arc_tail(a), cugra_arc_head(a)]
mask(G) == Cardinality(DOMAIN G.arr) - 1
Slot(G, a) == ArcHash(a) % (mask(G) + 1)

arcset_shrink(G, cap) ==
    [G EXCEPT !.arr = [i \in 0..(cap - 1) |->
        FoldLeft(\o, << >>, [k \in 1..((mask(G) + 1) \div cap) |-> G.arr[i + ((k - 1) * cap)]])]]

\* Every node goes to the front of its new chain.
arcset_extend(G, cap) ==
    [G EXCEPT !.arr = [i \in 0..(cap - 1) |->
        Reverse(SelectSeq(G.arr[i % (mask(G) + 1)], LAMBDA a : ArcHash(a) % cap = i))]]

arcset_insert(G, a) ==
    LET E == IF 2 * G.size >= 3 * mask(G) THEN arcset_extend(G, 2 * (mask(G) + 1)) ELSE G
    IN  IF a \in ToSet(E.arr[Slot(E, a)]) THEN E
        ELSE [init_arc(E, a) EXCEPT !.arr[Slot(E, a)] = Append(@, a), !.size = @ + 1]

\* Fault: a table that has shrunk has only the first half of its chains.
arcset_erase_Halve(G, a) ==
    IF a \notin ToSet(G.arr[Slot(G, a)]) THEN G
    ELSE LET E == [unlink_arc(G, a) EXCEPT !.arr[Slot(G, a)] = Without(@, a), !.size = @ - 1]
         IN  IF 2 * E.size < mask(E) /\ mask(E) > 1
             THEN [E EXCEPT !.arr = [i \in 0..(mask(E) \div 2) |-> @[i]]] ELSE E

arcset_erase(G, a) ==
    IF a \notin ToSet(G.arr[Slot(G, a)]) THEN G
    ELSE LET E == [unlink_arc(G, a) EXCEPT !.arr[Slot(G, a)] = Without(@, a), !.size = @ - 1]
         IN  IF 2 * E.size < mask(E) /\ mask(E) > 1
             THEN arcset_shrink(E, (mask(E) + 1) \div 2) ELSE E
-----------------------------------------------------------------------------
\* The pair of vertices under which an arc is kept.
Oriented(G, t, h) == IF G.undirected /\ t > h THEN <<h, t, 0>> ELSE <<t, h, 0>>

NewArc(G, t, h) ==
    <<t, h, CHOOSE n \in 0..Len(G.out[t]) :
        <<t, h, n>> \notin ToSet(G.out[t]) /\ \A m \in 0..(n - 1) : <<t, h, m>> \in ToSet(G.out[t])>>

cugra_connect(G, t, h) ==
    IF G.simple THEN arcset_insert(G, Oriented(G, t, h)) ELSE init_arc(G, NewArc(G, t, h))

cugra_disconnect(G, t, h) ==
    IF G.simple THEN arcset_erase(G, Oriented(G, t, h))
    ELSE FoldLeft(LAMBDA H, a : IF cugra_arc_head(a) = h THEN unlink_arc(H, a) ELSE H, G, G.out[t])

cugra_erase_arc(G, a) == IF G.simple THEN arcset_erase(G, a) ELSE unlink_arc(G, a)

\* For each direction the vertex is unlinked, and then its arcs are erased.
cugra_erase_vertex(G, v) ==
    LET unlinked(H) == [H EXCEPT !.links = D!cu_dlink_erase(@, v)]
        outErased == FoldLeft(cugra_erase_arc, unlinked(G), G.out[v])
    IN  FoldLeft(cugra_erase_arc, unlinked(outErased), outErased.inn[v])

\* The lists of v do not change before it is erased: an arc that would come to
\* them is there already.
cugra_eliminate_vertex(G, v) ==
    LET heads(H, u) == {cugra_arc_head(a) : a \in ToSet(H.out[u])}
        bypass(H, a) ==
            LET t == cugra_arc_tail(a)
                V == heads(H, t)
            IN  FoldLeft(LAMBDA I, b :
                             IF ~I.simple /\ cugra_arc_head(b) \in V THEN I
                             ELSE cugra_connect(I, t, cugra_arc_head(b)),
                         H, G.out[v])
    IN  cugra_erase_vertex(FoldLeft(bypass, G, G.inn[v]), v)

cugra_vertex_erase_loops(G, v) ==
    FoldLeft(LAMBDA H, a : IF cugra_arc_is_loop(a) THEN cugra_erase_arc(H, a) ELSE H, G, G.out[v])
cugra_graph_erase_loops(G, g) == FoldLeft(cugra_vertex_erase_loops, G, VertexSeq(G, g))

cugra_graph_erase_isolated(G, g) ==
    FoldLeft(LAMBDA H, v : IF cugra_vertex_is_isolated(H, v) THEN cugra_erase_vertex(H, v) ELSE H,
             G, VertexSeq(G, g))

\* The vertices of src go to dst; the head of src is not a list any more.
cugra_graph_merge(G, dst, src) ==
    [G EXCEPT !.links = D!cu_dlink_splice_complement_before(@, dst, src)]

cugra_graph_arcs(G, g) ==
    FoldLeft(\o, << >>, [i \in DOMAIN VertexSeq(G, g) |-> G.out[VertexSeq(G, g)[i]]])

\* A copy of g in H; a new vertex has the name of the one it is a copy of.
cugra_graph_copy(G, g, H, h) ==
    LET withVertices == FoldLeft(LAMBDA I, v : init_vertex(I, h, v), H, VertexSeq(G, g))
    IN  FoldLeft(LAMBDA I, a : cugra_connect(I, cugra_arc_tail(a), cugra_arc_head(a)),
                 withVertices, cugra_graph_arcs(G, g))

\* A vertex is noted 1 when entered and 0 when left.
RECURSIVE detect_cycle(_, _, _)
detect_cycle(G, s, v) ==
    IF s.found THEN s
    ELSE IF v \in DOMAIN s.vinfo THEN [s EXCEPT !.found = s.vinfo[v] = 1]
    ELSE LET note(x, n) == [x EXCEPT !.vinfo = [u \in DOMAIN @ \cup {v} |-> IF u = v THEN n ELSE @[u]]]
             r == FoldLeft(LAMBDA x, a : detect_cycle(G, x, cugra_arc_head(a)), note(s, 1), G.out[v])
         IN  IF r.found THEN r ELSE note(r, 0)
cugra_graph_is_acyclic(G, g) ==
    ~FoldLeft(LAMBDA x, v : detect_cycle(G, x, v), [vinfo |-> << >>, found |-> FALSE], VertexSeq(G, g)).found

cugra_erase_vertex_to_vsetcompl_arcs(G, v, V) ==
    LET outErased == FoldLeft(LAMBDA H, a : IF cugra_arc_head(a) \in V THEN H ELSE cugra_erase_arc(H, a),
                              G, G.out[v])
    IN  FoldLeft(LAMBDA H, a : IF cugra_arc_tail(a) \in V THEN H ELSE cugra_erase_arc(H, a),
                 outErased, outErased.inn[v])

\* The vertices are taken in the order of the map, which is any order.
cugra_move_induced_subgraph(G, V, dst) ==
    FoldLeft(LAMBDA H, v :
                [cugra_erase_vertex_to_vsetcompl_arcs(H, v, V) EXCEPT
                    !.links = D!cu_dlink_insert_before(D!cu_dlink_erase(@, v), dst, v)],
             G, SetToSeq(V))
-----------------------------------------------------------------------------
(* The abstract graphs: sets of vertices, and arcs as a function from      *)
(* pairs of vertices to how many arcs there are.                           *)

Pairs == Vertices \X Vertices
NoArcs == [p \in Pairs |-> 0]
Multiplicity(G) == [p \in Pairs |-> Cardinality({a \in ArcSet(G) : cugra_arc_connects(a, p[1], p[2])})]
Empty(simple, undirected) == cugra_graph_new(simple, undirected)

Init ==
    /\ \E f \in {<<FALSE, FALSE>>, <<TRUE, FALSE>>, <<TRUE, TRUE>>} : con = Empty(f[1], f[2])
    /\ ref = [verts |-> [g \in Graphs |-> {}], arcs |-> NoArcs]

Home(v) == {g \in Graphs : v \in ref.verts[g]}
Cut(S) == [p \in Pairs |-> IF p[1] \in S \/ p[2] \in S THEN 0 ELSE ref.arcs[p]]
Kept(t, h) == IF con.undirected /\ t > h THEN <<h, t>> ELSE <<t, h>>

NewVertex ==
    \E g \in Graphs, v \in Vertices :
        /\ \A f \in Graphs : v \notin ref.verts[f]
        /\ con.simple => g = 0
        /\ con' = init_vertex(con, g, v)
        /\ ref' = [ref EXCEPT !.verts[g] = @ \cup {v}]

Connect ==
    \E g \in Graphs : \E t, h \in ref.verts[g] :
        /\ Cardinality(ArcSet(con)) < MaxArcs
        /\ con' = cugra_connect(con, t, h)
        /\ ref' = [ref EXCEPT !.arcs[Kept(t, h)] = IF con.simple THEN 1 ELSE @ + 1]

Disconnect ==
    \E g \in Graphs : \E t, h \in ref.verts[g] :
        /\ con' = cugra_disconnect(con, t, h)
        /\ ref' = [ref EXCEPT !.arcs[Kept(t, h)] = 0]

EraseArc ==
    \E a \in ArcSet(con) :
        /\ con' = cugra_erase_arc(con, a)
        /\ ref' = [ref EXCEPT !.arcs[<<a[1], a[2]>>] = @ - 1]

EraseVertex ==
    \E g \in Graphs : \E v \in ref.verts[g] :
        /\ con' = cugra_erase_vertex(con, v)
        /\ ref' = [verts |-> [ref.verts EXCEPT ![g] = @ \ {v}], arcs |-> Cut({v})]

\* The table of arcs is not moved with the arcs: for other graphs than those with
\* simple arcs.
MoveInduced ==
    /\ ~con.simple
    /\ \E g, f \in Graphs : \E V \in SUBSET ref.verts[g] \ {{}} :
        /\ g # f
        /\ con' = cugra_move_induced_subgraph(con, V, f)
        /\ ref' = [verts |-> [ref.verts EXCEPT ![g] = @ \ V, ![f] = @ \cup V],
                   arcs |-> [p \in Pairs |-> IF (p[1] \in V) = (p[2] \in V) THEN ref.arcs[p] ELSE 0]]

Next == NewVertex \/ Connect \/ Disconnect \/ EraseArc \/ EraseVertex \/ MoveInduced

(* The two lists of arcs at the vertices agree, and the table of simple    *)
(* arcs has the same arcs, each in the chain of its hash; the lists of     *)
(* vertices are proper cycles, whatever was erased and moved.              *)
Linked ==
    /\ \A g \in Graphs : VertexSet(con, g) = ref.verts[g] /\ Len(VertexSeq(con, g)) = Cardinality(ref.verts[g])
    /\ \A g \in Graphs : \A x \in {g} \cup ref.verts[g] :
           con.links.prev[con.links.next[x]] = x /\ con.links.next[con.links.prev[x]] = x
    /\ \A v \in Vertices :
        /\ IsInjective(con.out[v]) /\ \A i \in DOMAIN con.out[v] : cugra_arc_tail(con.out[v][i]) = v
        /\ IsInjective(con.inn[v]) /\ \A i \in DOMAIN con.inn[v] : cugra_arc_head(con.inn[v][i]) = v
    /\ ArcSet(con) = UNION {ToSet(con.inn[v]) : v \in Vertices}
    /\ con.simple =>
        /\ \A i \in DOMAIN con.arr : \A k \in DOMAIN con.arr[i] : Slot(con, con.arr[i][k]) = i
        /\ UNION {ToSet(con.arr[i]) : i \in DOMAIN con.arr} = ArcSet(con)
        /\ con.size = Cardinality(ArcSet(con))
        /\ 2 * con.size < 3 * mask(con) + 2

Steps(arcs) == {p \in Pairs : arcs[p] > 0}
RECURSIVE Closure(_)
Closure(R) ==
    LET S == R \cup {<<p[1], q[2]>> : <<p, q>> \in {x \in R \X R : x[1][2] = x[2][1]}}
    IN  IF S = R THEN R ELSE Closure(S)

(* The arcs are those of the history, and what is said of vertices, cycles *)
(* and iteration is so.                                                    *)
Answers ==
    LET reach == Closure(Steps(ref.arcs)) IN
    /\ Multiplicity(con) = ref.arcs
    /\ \A g \in Graphs :
        /\ cugra_graph_is_acyclic(con, g) <=> \A v \in ref.verts[g] : <<v, v>> \notin reach
        /\ LET s == cugra_graph_arcs(con, g)
           IN  IsInjective(s) /\ ToSet(s) = {a \in ArcSet(con) : cugra_arc_tail(a) \in ref.verts[g]}
        /\ \A v \in ref.verts[g] :
            /\ cugra_vertex_is_isolated(con, v) <=> Cut({v}) = ref.arcs
            /\ cugra_vertex_has_loop(con, v) <=> ref.arcs[v, v] > 0

(* Eliminating a vertex leaves who reaches whom as it was among the other  *)
(* vertices; loops and isolated vertices are erased, and only those; a     *)
(* copy has the same arcs, of simple arcs one for each pair; and merging   *)
(* two graphs gives the vertices of both.                                  *)
Derived ==
    LET reach == Closure(Steps(ref.arcs)) IN
    \A g \in Graphs :
        /\ \A v \in ref.verts[g] :
            LET E == cugra_eliminate_vertex(con, v)
                others == (Vertices \ {v}) \X (Vertices \ {v})
            IN  /\ Closure(Steps(Multiplicity(E))) = reach \cap others
                /\ VertexSet(E, g) = ref.verts[g] \ {v}
        /\ Multiplicity(cugra_graph_erase_loops(con, g)) =
               [p \in Pairs |-> IF p[1] = p[2] /\ p[1] \in ref.verts[g] THEN 0 ELSE ref.arcs[p]]
        /\ VertexSet(cugra_graph_erase_isolated(con, g), g) =
               {v \in ref.verts[g] : Cut({v}) # ref.arcs}
        /\ \A simple \in BOOLEAN :
            LET C == cugra_graph_copy(con, g, Empty(simple, FALSE), g)
                own == ref.verts[g] \X ref.verts[g]
            IN  /\ VertexSeq(C, g) = VertexSeq(con, g)
                /\ Multiplicity(C) = [p \in Pairs |->
                       IF p \notin own THEN 0 ELSE IF simple /\ ref.arcs[p] > 1 THEN 1 ELSE ref.arcs[p]]
        /\ ~con.simple => \A f \in Graphs \ {g} :
            VertexSeq(cugra_graph_merge(con, g, f), g) = VertexSeq(con, g) \o VertexSeq(con, f)
=============================================================================
