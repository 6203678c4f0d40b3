------------------------------- MODULE Rbtree -------------------------------
(***************************************************************************)
(* cucon/rbtree.c: red-black trees without links from a node to its        *)
(* parent.  A path is kept on a stack sp, which is a sequence here: sp[i]  *)
(* of the code is s[i + 1], the root is below a final Nil, and the room on *)
(* the stack is computed from the size of the tree beforehand.  The field  *)
(* is_black of the root holds the size of the tree.                        *)
(*                                                                         *)
(* Nodes are linked, not values copied, so a node is named by its key; the *)
(* copies made by the constructive insertion are further names.  Each pair *)
(* of mirrored branches of the code is one definition for a side d.        *)
(***************************************************************************)
EXTENDS Integers, Sequences, FiniteSets, SequencesExt

CONSTANT Keys       \* positive numbers

VARIABLES
    con,            \* the tree and its nodes
    ref             \* the set of keys it stands for

Nil == 0
Other(d) == IF d = "left" THEN "right" ELSE "left"

FloorLog2(n) == CHOOSE i \in 0..n : 2^i <= n /\ n < 2^(i + 1)
stack_size(size) == 2 * FloorLog2(size + 1) + 3

SetLink(h, d, n, m) == [h EXCEPT !.link[d][n] = m]
IsBlack(h, n) == h.black[n] # 0
BECOME_BLACK(h, n) == [h EXCEPT !.black[n] = 1]
BECOME_RED(h, n) == [h EXCEPT !.black[n] = 0]
NilOrBlack(h, n) == n = Nil \/ IsBlack(h, n)

cucon_rbtree_size(h) == IF h.root = Nil THEN 0 ELSE h.black[h.root]

\* The room on the stack is fixed when an operation starts.
Enter(h) == [h EXCEPT !.room = stack_size(cucon_rbtree_size(h))]
Leave(h, root, size) ==
    [h EXCEPT !.room = 0, !.root = root,
              !.black = IF root = Nil THEN @ ELSE [@ EXCEPT ![root] = size]]

\* The stack s is in the memory that was set aside for it.
Fits(h, s) == [h EXCEPT !.fits = @ /\ Len(s) <= h.room]

\* The parent p of n gets m instead.
Relink(h, p, n, m, first) ==
    IF p = Nil THEN h
    ELSE IF h.link[first][p] = n THEN SetLink(h, first, p, m)
    ELSE SetLink(h, Other(first), p, m)

\* The root is at the bottom of the stack, above Nil.
BottomOf(s) == s[Len(s) - 1]

RECURSIVE Descend(_, _, _)
Descend(h, s, k) ==
    LET x == s[1]
    IN  IF x = Nil \/ h.key[x] = k THEN s
        ELSE Descend(h, <<h.link[IF k < h.key[x] THEN "left" ELSE "right"][x]>> \o s, k)

\* The path to the node of k, which is on top, or to the Nil in its place.
PathTo(h, k) == Descend(h, <<h.root, Nil>>, k)

\* The side of p on which k belongs.
SideOf(h, p, k) == IF k < h.key[p] THEN "left" ELSE "right"

\* cuconP_rbnode_rotate_right (d = "left") and rotate_left: the child on side d
\* of s[i] takes its place.
Rotate(h, s, i, d) ==
    LET z == s[i]
        x == h.link[d][z]
        h1 == SetLink(h, d, z, h.link[Other(d)][x])
        h2 == Relink(h1, s[i + 1], z, x, "right")
    IN  [h |-> SetLink(h2, Other(d), x, z), s |-> [s EXCEPT ![i] = x]]
-----------------------------------------------------------------------------
\* The rotations of cuconP_rbtree_rebalance_dtive.
TurnGrand(r, d) == Rotate(BECOME_RED(BECOME_BLACK(r.h, r.s[2]), r.s[3]), r.s, 3, d)
Turn(h, s, d) ==
    TurnGrand(IF s[1] = h.link[Other(d)][s[2]] THEN Rotate(h, s, 2, Other(d)) ELSE [h |-> h, s |-> s], d)

\* Its loop; s[1] is red.
RECURSIVE Rebalance(_)
Rebalance(r) ==
    LET h == r.h
        s == r.s
        d == IF s[2] = h.link["left"][s[3]] THEN "left" ELSE "right"
        y == h.link[Other(d)][s[3]]
    IN  IF NilOrBlack(h, s[2]) THEN r
        ELSE IF ~NilOrBlack(h, y)
        THEN Rebalance([h |-> BECOME_RED(BECOME_BLACK(BECOME_BLACK(h, s[2]), y), s[3]),
                        s |-> SubSeq(s, 3, Len(s))])
        ELSE Rebalance(Turn(h, s, d))

\* cucon_rbtree_insert1m_mem, insert2p_node, insert2p_ptr.
cucon_rbtree_insert(h, k) ==
    LET s == [PathTo(h, k) EXCEPT ![1] = k]
        h1 == Fits(Enter(h), s)
        h2 == IF s[2] = Nil THEN h1 ELSE SetLink(h1, SideOf(h, s[2], k), s[2], k)
        r == Rebalance([h |-> BECOME_RED(h2, k), s |-> s])
    IN  IF PathTo(h, k)[1] # Nil THEN h
        ELSE Leave(r.h, BottomOf(r.s), cucon_rbtree_size(h) + 1)
-----------------------------------------------------------------------------
(* cucon_rbtree_cinsert1m_mem: nodes of the old tree are not changed.      *)

\* n is copied, but for its links.
Copy(h, n) ==
    LET c == Len(h.key) + 1
    IN  [h EXCEPT !.key = Append(@, h.key[n]), !.black = Append(@, h.black[n]),
                  !.link = [d \in {"left", "right"} |-> Append(@[d], Nil)]]

\* cuconP_rbnode_rotate_right_ctive, rotate_left_ctive
RotateC(h, s, i, d, new) ==
    LET z == s[i]
        src == h.link[d][z]
        h1 == IF src = new THEN h ELSE Copy(h, src)
        dst == IF src = new THEN src ELSE Len(h1.key)
        h2 == SetLink(SetLink(h1, d, dst, h1.link[d][src]), d, z, h1.link[Other(d)][src])
        h3 == Relink(h2, s[i + 1], z, dst, "right")
    IN  [h |-> SetLink(h3, Other(d), dst, z), s |-> [s EXCEPT ![i] = dst]]

\* The loop that copies the path, from the root down to position i.
RECURSIVE CopyPath(_, _, _)
CopyPath(h, s, i) ==
    IF i = 1 THEN [h |-> h, s |-> s]
    ELSE LET src == s[i]
             h1 == Copy(h, src)
             c == Len(h1.key)
             d == SideOf(h, src, h.key[s[1]])
             h2 == SetLink(h1, Other(d), c, h.link[Other(d)][src])
             h3 == IF s[i + 1] = Nil THEN h2
                   ELSE SetLink(h2, SideOf(h, s[i + 1], h.key[s[1]]), s[i + 1], c)
         IN  CopyPath(IF i = 2 THEN SetLink(h3, d, c, s[1]) ELSE h3, [s EXCEPT ![i] = c], i - 1)


\* The uncle gets its new colour in a copy.
BlackenUncle(h, z, o) ==
    LET y == h.link[o][z]
        h1 == Copy(h, y)
        c == Len(h1.key)
    IN  BECOME_BLACK(SetLink(SetLink(SetLink(h1, o, z, c), "left", c, h.link["left"][y]),
                             "right", c, h.link["right"][y]), c)

TurnGrandC(r, d, new) == RotateC(BECOME_RED(BECOME_BLACK(r.h, r.s[2]), r.s[3]), r.s, 3, d, new)
TurnC(h, s, d, new) ==
    TurnGrandC(IF s[1] = h.link[Other(d)][s[2]] THEN RotateC(h, s, 2, Other(d), new)
               ELSE [h |-> h, s |-> s], d, new)

RECURSIVE RebalanceC(_, _)
RebalanceC(r, new) ==
    LET h == r.h
        s == r.s
        d == IF s[2] = h.link["left"][s[3]] THEN "left" ELSE "right"
    IN  IF NilOrBlack(h, s[2]) THEN r
        ELSE IF ~NilOrBlack(h, h.link[Other(d)][s[3]])
        THEN RebalanceC([h |-> BECOME_RED(BlackenUncle(BECOME_BLACK(h, s[2]), s[3], Other(d)), s[3]),
                         s |-> SubSeq(s, 3, Len(s))], new)
        ELSE RebalanceC(TurnC(h, s, d, new), new)

cucon_rbtree_cinsert(h, k) ==
    LET s == [PathTo(h, k) EXCEPT ![1] = k]
        p == CopyPath(Fits(Enter(h), s), s, Len(s) - 1)
        r == RebalanceC([p EXCEPT !.h = BECOME_RED(@, k)], k)
    IN  IF PathTo(h, k)[1] # Nil THEN h
        ELSE Leave(r.h, BottomOf(r.s), cucon_rbtree_size(h) + 1)
-----------------------------------------------------------------------------
(* Rebalancing in _rbtree_erase: x is s[1], its parent z is s[2], and d    *)
(* the side of z that x is on.                                             *)

\* A red sibling takes the place of z, and z is below it.
RedSibling(h, s, d) ==
    LET z == s[2]
        turned == Rotate(BECOME_RED(BECOME_BLACK(h, h.link[Other(d)][z]), z), s, 2, Other(d))
        deeper == <<s[1]>> \o [turned.s EXCEPT ![1] = z]
    IN  [h |-> Fits(turned.h, deeper), s |-> deeper]

\* The child of the sibling y next to x is red, the other one not: it takes
\* the place of y.
NearRed(r, d, y) ==
    Rotate(BECOME_RED(BECOME_BLACK(r.h, r.h.link[d][y]), y), [r.s EXCEPT ![1] = y], 1, d)

\* The far child of the sibling is red: the sibling takes the place of z.
FarRed(r, d) ==
    LET z == r.s[2]
        y == r.h.link[Other(d)][z]
        far == r.h.link[Other(d)][y]
        h1 == BECOME_BLACK([r.h EXCEPT !.black[y] = r.h.black[z]], z)
    IN  Rotate(IF far = Nil THEN h1 ELSE BECOME_BLACK(h1, far), r.s, 2, Other(d))

RootBlack(r) == [h |-> BECOME_BLACK(r.h, BottomOf(r.s)), s |-> r.s]

\* The loop, which ends at the node that has to become black.
RECURSIVE EraseBalance(_, _), BlackSibling(_, _, _)
EraseBalance(h, s) ==
    IF s[2] = Nil \/ ~NilOrBlack(h, s[1])
    THEN [h |-> IF s[1] = Nil THEN h ELSE BECOME_BLACK(h, s[1]), s |-> s]
    ELSE LET d == IF s[1] = h.link["left"][s[2]] THEN "left" ELSE "right"
             y == h.link[Other(d)][s[2]]
             r == IF IsBlack(h, y) THEN [h |-> h, s |-> s] ELSE RedSibling(h, s, d)
         IN  BlackSibling(r, d, r.h.link[Other(d)][s[2]])
BlackSibling(r, d, y) ==
    LET near == NilOrBlack(r.h, r.h.link[d][y])
        far == NilOrBlack(r.h, r.h.link[Other(d)][y])
    IN  IF near /\ far THEN EraseBalance(BECOME_RED(r.h, y), Tail(r.s))
        ELSE RootBlack(FarRed(IF far THEN NearRed(r, d, y) ELSE r, d))

RECURSIVE Leftmost(_, _)
Leftmost(h, s) == IF h.link["left"][s[1]] = Nil THEN s ELSE Leftmost(h, <<h.link["left"][s[1]]>> \o s)

\* Taking z = s[1] out: a node with a free child is replaced by the other one,
\* else the next node y is taken out and put in the place of z.
Unlink(h, s) ==
    LET z == s[1]
        l == h.link["left"][z]
        r == h.link["right"][z]
        x == IF l = Nil THEN r ELSE l
        t == Leftmost(h, <<r>> \o s)
        y == t[1]
        below == h.link["right"][y]
        h1 == IF t[2] = z THEN SetLink(h, "right", z, below) ELSE SetLink(h, "left", t[2], below)
        h2 == [SetLink(SetLink(h1, "left", y, l), "right", y, h1.link["right"][z])
                   EXCEPT !.black[y] = h.black[z]]
    IN  IF l = Nil \/ r = Nil
        THEN [h |-> Relink(h, s[2], z, x, "left"), s |-> [s EXCEPT ![1] = x],
              unbalanced |-> IsBlack(h, z)]
        ELSE [h |-> Fits(Relink(h2, s[2], z, y, "left"), t),
              s |-> [t EXCEPT ![1] = below, ![Len(t) - Len(s) + 1] = y],
              unbalanced |-> IsBlack(h, y)]

\* cucon_rbtree_erase2p and erase1m.  The links of the node that was taken out
\* are of no use any more, and cleared here.
cucon_rbtree_erase(h, k) ==
    LET u == Unlink(Enter(h), PathTo(h, k))
        r == IF u.unbalanced THEN EraseBalance(u.h, u.s)
             ELSE [u EXCEPT !.h = IF u.s[1] = Nil THEN u.h ELSE BECOME_BLACK(u.h, u.s[1])]
        h1 == Leave(r.h, BottomOf(r.s), cucon_rbtree_size(h) - 1)
    IN  IF PathTo(h, k)[1] = Nil THEN h
        ELSE [h1 EXCEPT !.link["left"][k] = Nil, !.link["right"][k] = Nil, !.black[k] = 0]
-----------------------------------------------------------------------------
cucon_rbtree_find(h, k) == PathTo(h, k)[1]

\* The nodes on either side of k and at it.  At the node of k the outermost
\* ones of its subtrees count, if any.
RECURSIVE Nearest(_, _, _, _, _)
Nearest(h, x, k, below, above) ==
    IF x = Nil THEN [below |-> below, equal |-> Nil, above |-> above]
    ELSE IF k < h.key[x] THEN Nearest(h, h.link["left"][x], k, below, x)
    ELSE IF k > h.key[x] THEN Nearest(h, h.link["right"][x], k, x, above)
    ELSE LET l == Nearest(h, h.link["left"][x], k, below, above)
             r == Nearest(h, h.link["right"][x], k, below, above)
         IN  [below |-> l.below, equal |-> x, above |-> r.above]
cucon_rbtree_nearest2p(h, k) == Nearest(h, h.root, k, Nil, Nil)

\* The order of the callbacks of iter and conj, and with "right" those of
\* rev_iter and rev_conj.
RECURSIVE IterFrom(_, _, _)
IterFrom(h, x, d) ==
    IF x = Nil THEN << >>
    ELSE IterFrom(h, h.link[d][x], d) \o <<h.key[x]>> \o IterFrom(h, h.link[Other(d)][x], d)
cucon_rbtree_iter(h) == IterFrom(h, h.root, "left")
cucon_rbtree_rev_iter(h) == IterFrom(h, h.root, "right")
-----------------------------------------------------------------------------
MaxKey == CHOOSE k \in Keys : \A j \in Keys : j <= k
Names == 1..MaxKey

\* cucon_rbtree_init
Init ==
    /\ con = [root |-> Nil, key |-> [n \in Names |-> n], black |-> [n \in Names |-> 0],
              link |-> [d \in {"left", "right"} |-> [n \in Names |-> Nil]], fits |-> TRUE,
              room |-> 0]
    /\ ref = {}

Next == \E k \in Keys :
    \/ con' = cucon_rbtree_insert(con, k) /\ ref' = ref \cup {k}
    \/ con' = cucon_rbtree_erase(con, k) /\ ref' = ref \ {k}

\* cuconP_rbnode_check: all paths from x have as many black nodes, or -1.
RECURSIVE BlackHeight(_, _)
BlackHeight(h, x) ==
    LET l == BlackHeight(h, h.link["left"][x])
        r == BlackHeight(h, h.link["right"][x])
    IN  IF x = Nil THEN 1 ELSE IF l # r THEN -1 ELSE IF IsBlack(h, x) /\ l > 0 THEN l + 1 ELSE l

(* Any sequence of insertions and erasures leaves a tree of the same       *)
(* number of black nodes on all paths, without two red ones in a row, that *)
(* has its size at the root, and no stack has outgrown its memory.         *)
Balanced ==
    /\ BlackHeight(con, con.root) > 0
    /\ con.root # Nil => IsBlack(con, con.root)
    /\ \A n \in ref : ~IsBlack(con, n) =>
           \A d \in {"left", "right"} : NilOrBlack(con, con.link[d][n])
    /\ cucon_rbtree_size(con) = Cardinality(ref)
    /\ con.fits

(* Search, the nearest keys and both iterations agree with the set.        *)
Answers ==
    LET asc == SelectSeq([i \in Names |-> i], LAMBDA k : k \in ref)
        least(S) == IF S = {} THEN Nil ELSE CHOOSE k \in S : \A j \in S : k <= j
        most(S) == IF S = {} THEN Nil ELSE CHOOSE k \in S : \A j \in S : k >= j
    IN  /\ cucon_rbtree_iter(con) = asc /\ cucon_rbtree_rev_iter(con) = Reverse(asc)
        /\ \A k \in Keys :
             /\ cucon_rbtree_find(con, k) = IF k \in ref THEN k ELSE Nil
             /\ cucon_rbtree_nearest2p(con, k) =
                  [below |-> most({j \in ref : j < k}), equal |-> IF k \in ref THEN k ELSE Nil,
                   above |-> least({j \in ref : j > k})]

RECURSIVE Shape(_, _)
Shape(h, x) ==
    IF x = Nil THEN << >>
    ELSE <<h.key[x], h.black[x], Shape(h, h.link["left"][x]), Shape(h, h.link["right"][x])>>

(* The constructive insertion makes the tree that the destructive one      *)
(* would, and a clone that shares the nodes of the old tree is still what  *)
(* it was.                                                                 *)
Derived ==
    \A k \in Keys \ ref :
        LET c == cucon_rbtree_cinsert(con, k)
            d == cucon_rbtree_insert(con, k)
        IN  /\ c.fits
            /\ Shape(c, c.root) = Shape(d, d.root)
            /\ Shape(c, con.root) = Shape(con, con.root)
=============================================================================
