-------------------------------- MODULE Fold --------------------------------
(***************************************************************************)
(* cuex/optimal_fold.c with what it takes from occurtree.c, binding.c and  *)
(* recursion.c: recursive expressions are folded as much as possible.  The *)
(* occurrences in an expression are the states of an automaton, whose      *)
(* states are partitioned by Hopcroft's algorithm, and the expression is   *)
(* made again from the blocks.  Variables are indices: <<"h", i>> is bound *)
(* by the binder i binders out, <<"m", e>> is a recursive expression and   *)
(* <<"l", e>> an abstraction; <<"x">> is no operation; the others are an   *)
(* operator followed by its operands.                                      *)
(***************************************************************************)
EXTENDS Integers, Sequences, FiniteSets, SequencesExt, FiniteSetsExt

CONSTANTS
    Exprs,                  \* closed expressions; no "m" is directly above "m" or "h"
    Depth                   \* to which unfolded expressions are compared

VARIABLES
    con,                    \* e, what is folded; part, the blocks; pend, per operand
                            \* the blocks to split by; a, the operand last split at
    ref                     \* the result of the first folding

NULL == << >>
IsHole(e) == e[1] = "h"
IsMu(e) == e[1] = "m"
IsBinder(e) == e[1] \in {"l", "m"}
IsOpr(e) == e[1] # "x"
Operands(e) == IF IsHole(e) \/ ~IsOpr(e) THEN {} ELSE 2..Len(e)
OPN_TRAN(e, F(_)) == [i \in DOMAIN e |-> IF i \in Operands(e) THEN F(e[i]) ELSE e[i]]
-----------------------------------------------------------------------------
RECURSIVE bfree_adjusted(_, _, _), mu_unfold(_, _, _), cuex_max_binding_depth(_)
bfree_adjusted(e, diff, top) ==
    IF IsHole(e) THEN IF e[2] > top THEN <<"h", e[2] + diff>> ELSE e
    ELSE LET top1 == IF IsBinder(e) THEN top + 1 ELSE top
             F(d) == bfree_adjusted(d, diff, top1)
         IN  OPN_TRAN(e, F)

mu_unfold(e, top, whole) ==
    IF IsHole(e)
    THEN IF e[2] = top THEN bfree_adjusted(whole, top, -1)
         ELSE IF e[2] > top THEN <<"h", e[2] - 1>> ELSE e
    ELSE LET top1 == IF IsBinder(e) THEN top + 1 ELSE top
             F(d) == mu_unfold(d, top1, whole)
         IN  OPN_TRAN(e, F)

cuex_mu_unfold(e) == mu_unfold(e[2], 0, e)

cuex_max_binding_depth(e) ==
    Max({0} \cup {cuex_max_binding_depth(e[i]) : i \in Operands(e)})
        + (IF IsBinder(e) THEN 1 ELSE 0)
-----------------------------------------------------------------------------
(* cuex_unfolded_occurtree: the variables free in an occurrence, where a   *)
(* recursive variable has those of what it stands for.  A frame of the     *)
(* stack has the binder and, for "m", its free variables.                  *)
RECURSIVE folded_free(_), unfold_free(_, _)
translate(vars, d) == {v + d : v \in vars}
UnderBinder(vars) == translate(vars \ {0}, -1)

folded_free(e) ==
    IF IsHole(e) THEN {e[2]}
    ELSE LET vars == UNION {folded_free(e[i]) : i \in Operands(e)}
         IN  IF IsBinder(e) THEN UnderBinder(vars) ELSE vars

expand_mu_vars(vars, sp) ==
    vars \cup UNION {translate(sp[v + 1].free, v + 1) :
                         v \in {u \in vars : u < Len(sp) /\ IsMu(sp[u + 1].e)}}

Frame(e, free) == [e |-> e, free |-> free]
unfold_free(e, sp) ==
    IF IsMu(e) \/ IsHole(e) THEN expand_mu_vars(folded_free(e), sp)
    ELSE LET sp1 == IF IsBinder(e) THEN <<Frame(e, {})>> \o sp ELSE sp
             vars == UNION {unfold_free(e[i], sp1) : i \in Operands(e)}
         IN  IF IsBinder(e) THEN UnderBinder(vars) ELSE vars

MuFrame(e, sp) == Frame(e, unfold_free(e, sp))
-----------------------------------------------------------------------------
(* cuex_occurtree_prune_mu: recursive binders without a variable go; sp    *)
(* has the new level of each binder.                                       *)
RECURSIVE HasRef(_, _), prune_mu(_, _, _)
HasRef(e, l) ==
    IF IsHole(e) THEN e[2] = l
    ELSE \E i \in Operands(e) : HasRef(e[i], IF IsBinder(e) THEN l + 1 ELSE l)

prune_mu(e, top, sp) ==
    IF IsHole(e)
    THEN <<"h", IF e[2] < Len(sp) THEN top - sp[e[2] + 1] ELSE top + e[2] - Len(sp)>>
    ELSE IF IsMu(e) /\ ~HasRef(e[2], 0) THEN prune_mu(e[2], top, <<-1>> \o sp)
    ELSE LET top1 == IF IsBinder(e) THEN top + 1 ELSE top
             F(d) == prune_mu(d, top1, IF IsBinder(e) THEN <<top1>> \o sp ELSE sp)
         IN  OPN_TRAN(e, F)

cuex_occurtree_prune_mu(e) == prune_mu(e, 0, << >>)
-----------------------------------------------------------------------------
(* sifi_indexing of binding.c gives binders small indices for the names of *)
(* their variables.  The frame of a binder is its level; it is linked to   *)
(* the innermost open binder its variable has been seen in, at.            *)
RECURSIVE sifi_indexing(_, _, _, _)
INT_MAX == 99
sifi_hole(e, level, S) ==
    LET frame_ref == level - e[2]
    IN  IF e[2] >= level \/ S.at[frame_ref] = -2 \/ S.at[frame_ref] >= level THEN S
        ELSE [S EXCEPT !.at[frame_ref] = level]

sifi_leave(e, prune, level, S) ==
    LET frame_sub == level + 1
        fv_list == {f \in DOMAIN S.at : S.at[f] = frame_sub} \ {frame_sub}
        unused == prune /\ S.at[frame_sub] # frame_sub
        index == S.index[frame_sub]
        Raised(f) == IF unused \/ S.index[f] > index THEN S.index[f] ELSE index + 1
    IN  [site |-> e :> (IF unused THEN INT_MAX ELSE index) @@ S.site,
         at |-> [f \in DOMAIN S.at |-> IF f \in fv_list THEN level ELSE S.at[f]],
         index |-> [f \in DOMAIN S.index |-> IF f \in fv_list THEN Raised(f) ELSE S.index[f]]]

sifi_indexing(e, prune, level, S) ==
    IF IsHole(e) THEN sifi_hole(e, level, S)
    ELSE LET sub == IF IsBinder(e) THEN level + 1 ELSE level
             S1 == IF IsBinder(e)
                   THEN [S EXCEPT !.at = sub :> (IF IsMu(e) THEN -2 ELSE -1) @@ @,
                                  !.index = sub :> 0 @@ @]
                   ELSE S
             S2 == FoldLeft(LAMBDA A, i : sifi_indexing(e[i], prune, sub, A), S1,
                            [n \in 1..Cardinality(Operands(e)) |-> n + 1])
         IN  IF IsBinder(e) THEN sifi_leave(e, prune, level, S2) ELSE S2

NoFrames == [f \in {} |-> 0]
cuex_bi_sifi_indexing(e, prune) ==
    sifi_indexing(e, prune, 0, [site |-> NoFrames, at |-> NoFrames, index |-> NoFrames]).site
-----------------------------------------------------------------------------
(* build_partition.  A state is the path to an occurrence that is neither  *)
(* a recursive binder, which shares the state of its body, nor a recursive *)
(* variable, which has the state of what it stands for.                    *)
RECURSIVE At(_, _), Paths(_, _)
At(e, p) == IF p = << >> THEN e ELSE At(e[Head(p)], Tail(p))
Paths(e, p) == {p} \cup UNION {Paths(e[i], Append(p, i)) : i \in Operands(e)}

Binders(e, p) ==
    LET at == SelectSeq([n \in 1..Len(p) |-> SubSeq(p, 1, n - 1)], LAMBDA q : IsBinder(At(e, q)))
    IN  Reverse(at)
BinderOf(e, p) == Binders(e, p)[At(e, p)[2] + 1]
IsMuVar(e, p) == IsHole(At(e, p)) /\ IsMu(At(e, BinderOf(e, p)))

StateOf(e, p) ==
    LET q == IF IsMuVar(e, p) THEN BinderOf(e, p) ELSE p
    IN  IF IsMu(At(e, q)) THEN Append(q, 2) ELSE q

\* What is no operation is kept in the key of the operation it is an operand of.
strip(e) == IF IsOpr(e) THEN NULL ELSE e
IsState(e, p) ==
    /\ StateOf(e, p) = p
    /\ IsOpr(At(e, p)) \/ p = << >> \/ IsMu(At(e, Front(p)))

RECURSIVE Frames(_, _)
\* The stack of frames at an occurrence.
Frames(e, p) ==
    IF p = << >> THEN << >>
    ELSE LET up == Frames(e, Front(p))
             d == At(e, Front(p))
         IN  IF ~IsBinder(d) THEN up
             ELSE <<IF IsMu(d) THEN MuFrame(d, up) ELSE Frame(d, {})>> \o up

\* Abstractions are told apart by how many other variables occur in them.
ekey(e, p) ==
    LET d == At(e, p)
        key == OPN_TRAN(d, strip)
        sp == Frames(e, p)
    IN  IF d[1] = "l"
        THEN <<key, Cardinality({v \in unfold_free(d, sp) : ~IsMu(sp[v + 1].e)})>>
        ELSE <<key>>

\* Abstracted variables have the abstraction as their only substate.
state_sub(e, p) ==
    LET d == At(e, p)
    IN  IF IsHole(d) THEN 2 :> BinderOf(e, p)
        ELSE [i \in {j \in Operands(d) : IsOpr(d[j])} |-> StateOf(e, Append(p, i))]

build_partition(e) ==
    LET states == {p \in Paths(e, << >>) : IsState(e, p)}
        lambdavars == {p \in states : IsHole(At(e, p))}
        Same(p) == {q \in states \ lambdavars : ekey(e, q) = ekey(e, p)}
    IN  [sub |-> [p \in states |-> state_sub(e, p)],
         blocks |-> {Same(p) : p \in states \ lambdavars},
         lambdavar_block |-> lambdavars]
-----------------------------------------------------------------------------
(* refine_partition.  C(B, a) are the states of a block that are operand a *)
(* of some state, its occur_set.                                           *)
Ranks == 2..3
C(sub, B, a) == {s \in B : \E t \in DOMAIN sub : a \in DOMAIN sub[t] /\ sub[t][a] = s}
Source(sub, B, a) == {t \in DOMAIN sub : a \in DOMAIN sub[t] /\ sub[t][a] \in B}

\* Of the block J the states in S are moved to a new block, and one of the two,
\* or both if J was pending, is to be split by.
Scheduled(sub, J, S, a, pending) ==
    LET j == C(sub, J \ S, a)
        k == C(sub, J \cap S, a)
    IN  CASE j = {} -> IF pending /\ k # {} THEN {J \cap S} ELSE {}
          [] j # {} /\ k = {} -> IF pending THEN {J \ S} ELSE {}
          [] j # {} /\ k # {} /\ Cardinality(k) <= Cardinality(j) ->
                {J \cap S} \cup (IF pending THEN {J \ S} ELSE {})
          [] OTHER -> {J \ S} \cup (IF pending THEN {J \cap S} ELSE {})

Hit(P, S) == {J \in P : J \cap S # {}}
SplitAll(P, S) == ({J \cap S : J \in P} \cup {J \ S : J \in P}) \ {{}}

Split(c, a, B) ==
    LET S == Source(c.sub, B, a)
        pend == [c.pend EXCEPT ![a] = @ \ {B}]
    IN  [c EXCEPT !.a = a, !.part = SplitAll(@, S),
            !.pend = [i \in Ranks |->
                (pend[i] \ Hit(c.part, S))
                    \cup UNION {Scheduled(c.sub, J, S, i, J \in pend[i]) : J \in Hit(c.part, S)}]]

\* Blocks without an occurrence as the operand are passed over.
Usable(c, a) == {B \in c.pend[a] : C(c.sub, B, a) # {}}
pick_rank(c) ==
    LET other == CHOOSE a \in Ranks : a # c.a
    IN  IF Usable(c, c.a) # {} THEN c.a ELSE IF Usable(c, other) # {} THEN other ELSE 0
-----------------------------------------------------------------------------
(* The expression is made again from the blocks.  Any state of a block     *)
(* will do for it.                                                         *)
BlockOf(c, p) == CHOOSE B \in c.part : p \in B
RepOf(B) == CHOOSE p \in B : TRUE

RECURSIVE reconstruct_binding(_, _, _), reconstruct(_, _, _, _, _)
\* The blocks that are met again below themselves.
reconstruct_binding(c, B, above) ==
    LET p == RepOf(B)
    IN  IF IsHole(At(c.e, p)) THEN {}
        ELSE IF B \in above THEN {B}
        ELSE UNION {reconstruct_binding(c, BlockOf(c, c.sub[p][a]), above \cup {B}) :
                        a \in DOMAIN c.sub[p]}

reconstruct(c, need_mubind, B, level, levels) ==
    LET p == RepOf(B)
        d == At(c.e, p)
        level1 == IF B \in need_mubind THEN level + 1 ELSE level
        below == IF IsBinder(d) THEN level1 + 1 ELSE level1
        Operand(i) == IF i \notin DOMAIN c.sub[p] THEN d[i]
                      ELSE reconstruct(c, need_mubind, BlockOf(c, c.sub[p][i]), below, B :> level1 @@ levels)
        made == [i \in DOMAIN d |-> IF i \in Operands(d) THEN Operand(i) ELSE d[i]]
    IN  IF B \in DOMAIN levels THEN <<"h", level - levels[B]>>
        ELSE IF IsHole(d) THEN <<"h", level - levels[BlockOf(c, c.sub[p][2])] - 1>>
        ELSE IF B \in need_mubind THEN <<"m", made>> ELSE made

Rebuilt(c) ==
    LET top == BlockOf(c, StateOf(c.e, << >>))
    IN  reconstruct(c, reconstruct_binding(c, top, {}), top, 0, << >>)
-----------------------------------------------------------------------------
Begun(e) ==
    LET bst == build_partition(e)
    IN  [e |-> e, sub |-> bst.sub, out |-> NULL, a |-> 2,
         part |-> (bst.blocks \cup {bst.lambdavar_block}) \ {{}},
         pend |-> [a \in Ranks |-> bst.blocks]]

\* Without a binder the expression is returned as it is.
optimal_fold(e) ==
    IF cuex_max_binding_depth(e) = 0 THEN [Begun(e) EXCEPT !.out = e] ELSE Begun(e)

RECURSIVE Unfoldings(_)
\* A client unfolds the result, or a recursive expression in it.
Unfoldings(e) ==
    (IF IsMu(e) THEN {cuex_mu_unfold(e)} ELSE {})
        \cup UNION {{[e EXCEPT ![i] = d] : d \in Unfoldings(e[i])} : i \in Operands(e)}

Init == con \in {optimal_fold(e) : e \in Exprs} /\ ref = NULL

refine_partition ==
    /\ con.out = NULL
    /\ pick_rank(con) # 0
    /\ \E B \in Usable(con, pick_rank(con)) : con' = Split(con, pick_rank(con), B)
    /\ UNCHANGED ref

cuex_optimal_fold ==
    /\ con.out = NULL
    /\ pick_rank(con) = 0
    /\ con' = [con EXCEPT !.out = Rebuilt(con)]
    /\ UNCHANGED ref

FoldAgain ==
    /\ con.out # NULL
    /\ \E e \in {con.out} \cup Unfoldings(con.out) : con' = optimal_fold(e)
    /\ ref' = con.out

Next == refine_partition \/ cuex_optimal_fold \/ FoldAgain
-----------------------------------------------------------------------------
RECURSIVE Tree(_, _, _)
\* What an expression unfolds to, down to depth d: abstracted variables have the
\* depth of their abstraction.
Tree(e, env, d) ==
    IF d = 0 THEN <<"cut">>
    ELSE IF IsHole(e)
         THEN LET b == env[e[2] + 1]
              IN  IF IsMu(b.e) THEN Tree(b.e, b.env, d) ELSE <<"v", b.d>>
    ELSE IF IsMu(e) THEN Tree(e[2], <<[e |-> e, env |-> env, d |-> d]>> \o env, d)
    ELSE LET env1 == IF IsBinder(e) THEN <<[e |-> e, env |-> env, d |-> d]>> \o env ELSE env
             F(x) == Tree(x, env1, d - 1)
         IN  OPN_TRAN(e, F)
Unfolded(e) == Tree(e, << >>, Depth)

(* The blocks are always a partition of the states, and a block of the     *)
(* final one has one key and one block per operand, so that it does not    *)
(* matter which of its states stands for it.                               *)
Stable ==
    /\ UNION con.part = DOMAIN con.sub
    /\ \A B, D \in con.part : B = D \/ B \cap D = {}
    /\ (con.out = NULL /\ pick_rank(con) = 0) =>
        \A B \in con.part : \A p, q \in B :
            /\ IsHole(At(con.e, p)) \/ ekey(con.e, p) = ekey(con.e, q)
            /\ DOMAIN con.sub[p] = DOMAIN con.sub[q]
            /\ \A a \in DOMAIN con.sub[p] : BlockOf(con, con.sub[p][a]) = BlockOf(con, con.sub[q][a])

(* cuex_optimal_fold, in whatever order it takes the blocks to split by,   *)
(* returns an expression that unfolds to the same one, and folding an      *)
(* unfolding of the result gives the result: it is folded as much as it    *)
(* can be.                                                                 *)
Folds == con.out # NULL => /\ Unfolded(con.out) = Unfolded(con.e)
                           /\ ref # NULL => con.out = ref

\* The variable bound at p occurs in the occurrence at q.
OccursIn(e, p, q) == \E r \in Paths(e, << >>) : IsPrefix(q, r) /\ IsHole(At(e, r)) /\ BinderOf(e, r) = p
BinderPaths(e) == {p \in Paths(e, << >>) : IsBinder(At(e, p))}

(* An abstraction has a larger index than the abstractions inside it that  *)
(* its variable occurs in, so that the names are not confused; pruned are  *)
(* those without a variable.                                               *)
NamesApart(e) ==
    \A prune \in BOOLEAN :
        LET site == cuex_bi_sifi_indexing(e, prune)
            Named(p) == site[At(e, p)] # INT_MAX
        IN  \A p \in BinderPaths(e) :
                /\ Named(p) <=> ~prune \/ (~IsMu(At(e, p)) /\ OccursIn(e, p, p))
                /\ ~IsMu(At(e, p)) =>
                    \A q \in BinderPaths(e) \ {p} :
                        IsPrefix(p, q) /\ Named(p) /\ Named(q) /\ OccursIn(e, p, q)
                            => site[At(e, p)] > site[At(e, q)]

(* Unfolding once and dropping unused binders keep what an expression      *)
(* unfolds to, and names are kept apart.                                   *)
Derived ==
    con.out # NULL =>
        /\ Unfolded(cuex_occurtree_prune_mu(con.e)) = Unfolded(con.e)
        /\ \A e \in Unfoldings(con.e) : Unfolded(e) = Unfolded(con.e)
        /\ NamesApart(con.e)
=============================================================================
