------------------------------- MODULE Subst --------------------------------
(***************************************************************************)
(* cuex/subst.c: substitutions as maps of variables to classes of equal    *)
(* variables with an optional value, extended by unification.  A clone     *)
(* shares the frames of its source below one of its own, into which it     *)
(* copies what it is about to change; when it has looked below often       *)
(* enough, the frames are merged.  Expressions are hash-consed, so that    *)
(* equal ones are the same; an expression is <<"v", x>> for a variable, or *)
(* an operator followed by its operands.                                   *)
(***************************************************************************)
EXTENDS Integers, Sequences, FiniteSets, SequencesExt, FiniteSetsExt, TLC

CONSTANTS
    Vars,                   \* variables of an active quantification
    Spare,                  \* further ones, in the order cuex_var_new gives them
    Exprs,                  \* expressions the substitutions are applied to
    Terms,                  \* terms whose variables are made new, or gathered
    Equations,              \* pairs that are unified
    SHADOW_COST,            \* 4 in cuex_subst_cref
    MaxFrames, MaxSteps     \* bounds on clones, and on operations

VARIABLES
    con,                    \* veqv and frame: the classes and the frames
                            \* allocated; fresh: variables made so far
    ref                     \* per frame the equations it stands for, and the
                            \* one that failed; the steps left

NoFrame == 0
NoVeqv == 0
NULL == << >>
V(x) == <<"v", x>>
IsVar(e) == e[1] = "v"
IsActive(e) == IsVar(e) /\ e[2] \in Vars \cup ToSet(Spare)
IsOpn(e) == ~IsVar(e)
\* CUEX_O1_SUBST_BLOCK of a new variable whose quantification is not active
Blocked(n) == <<"block", V(0 - n)>>
IsBlocked(e) == e # NULL /\ e[1] = "block"
SameOpr(a, b) == IsOpn(a) /\ IsOpn(b) /\ a[1] = b[1] /\ Len(a) = Len(b)

RECURSIVE VarsIn(_)
\* The variables of an expression in the order of cuex_depth_conj_vars.
VarsIn(e) == IF IsVar(e) THEN <<e[2]>>
             ELSE FlattenSeq([i \in 1..(Len(e) - 1) |-> VarsIn(e[i + 1])])

Alloc(S, vq) == [S EXCEPT !.veqv = Append(@, vq)]
Res(S, x) == [s |-> S, r |-> x]
AppendTo(got, a) == IF a.r = NULL THEN a ELSE Res(a.s, Append(got, a.r))
-----------------------------------------------------------------------------
cuex_veqv_new(x) == [vars |-> <<x>>, value |-> NULL]
cuex_veqv_new_copy(S, q) == S.veqv[q]

\* The variables of q0 join those of q1, behind the head of q1.
cuex_veqv_unify(S, q0, q1, new_value) ==
    LET mine == S.veqv[q1].vars
        added == SelectSeq(S.veqv[q0].vars, LAMBDA x : x \notin ToSet(mine))
    IN  [S EXCEPT !.veqv[q1] =
            [vars |-> <<mine[1]>> \o Reverse(added) \o Tail(mine), value |-> new_value]]

subst_init(src) == [map |-> << >>, shadowed |-> src, clone_cnt |-> 1, shadow_access_cnt |-> 0]

RECURSIVE FirstUsed(_, _)
FirstUsed(S, i) ==
    IF i = NoFrame \/ DOMAIN S.frame[i].map # {} THEN i ELSE FirstUsed(S, S.frame[i].shadowed)

cuex_subst_new_clone(S, i) ==
    LET src == FirstUsed(S, i)
        T == [S EXCEPT !.frame = Append(@, subst_init(src))]
    IN  IF src = NoFrame THEN T ELSE [T EXCEPT !.frame[src].clone_cnt = @ + 1]

\* A class gets a frame's variables.
Enter(S, i, q) == [S EXCEPT !.frame[i].map = [y \in ToSet(S.veqv[q].vars) |-> q] @@ @]
EnterNew(S, i) == Enter(S, i, Len(S.veqv))

\* _subst_merge_cb_copy: a class that the map has nothing of is copied.
MergeCopy(S, i, x, q) ==
    IF x # S.veqv[q].vars[1] \/ x \in DOMAIN S.frame[i].map THEN S
    ELSE EnterNew(Alloc(S, cuex_veqv_new_copy(S, q)), i)

\* The case of a source without another clone is for substitutions that
\* cuex_subst_delete was called on, which nothing does.
subst_merge(S, i) ==
    LET src == S.frame[i].shadowed
        m == S.frame[src].map
        T == FoldLeft(LAMBDA U, x : MergeCopy(U, i, x, m[x]), S, SetToSeq(DOMAIN m))
    IN  [T EXCEPT !.frame[i].shadowed = S.frame[src].shadowed]

RECURSIVE cuex_subst_flatten(_, _)
cuex_subst_flatten(S, i) ==
    IF S.frame[i].shadowed = NoFrame THEN S ELSE cuex_subst_flatten(subst_merge(S, i), i)

cuex_subst_new_copy(S, i) ==
    LET FlattenLast(T) == cuex_subst_flatten(T, Len(T.frame)) IN FlattenLast(cuex_subst_new_clone(S, i))

RECURSIVE cuex_subst_cref(_, _, _)
cuex_subst_cref(S, i, x) ==
    LET F == S.frame[i]
        T == [S EXCEPT !.frame[i].shadow_access_cnt = @ + 1]
    IN  IF x \in DOMAIN F.map THEN Res(S, F.map[x])
        ELSE IF F.shadowed = NoFrame THEN Res(S, NoVeqv)
        ELSE IF T.frame[i].shadow_access_cnt
                > SHADOW_COST * Cardinality(DOMAIN S.frame[F.shadowed].map)
        THEN cuex_subst_cref(subst_merge(T, i), i, x)
        ELSE cuex_subst_cref(T, F.shadowed, x)

\* What is below is copied, or else a new class made, for frame i.
MrefBelow(below, i, x) ==
    EnterNew(Alloc(below.s, IF below.r # NoVeqv THEN cuex_veqv_new_copy(below.s, below.r)
                            ELSE cuex_veqv_new(x)), i)
NewestOf(S) == Res(S, Len(S.veqv))
cuex_subst_mref(S, i, x) ==
    LET F == S.frame[i]
    IN  IF x \in DOMAIN F.map THEN Res(S, F.map[x])
        ELSE NewestOf(MrefBelow(IF F.shadowed = NoFrame THEN Res(S, NoVeqv)
                                ELSE cuex_subst_cref(S, F.shadowed, x), i, x))
-----------------------------------------------------------------------------
RECURSIVE ex_contains_veqv(_, _, _, _), SubContains(_, _, _), AnyContains(_, _, _, _)
ex_contains_veqv(S, i, e, q) ==
    IF IsOpn(e) THEN AnyContains(Res(S, FALSE), i, Tail(e), q)
    ELSE SubContains(cuex_subst_cref(S, i, e[2]), i, q)
SubContains(sub, i, q) ==
    IF sub.r = q THEN Res(sub.s, TRUE)
    ELSE IF sub.r # NoVeqv /\ sub.s.veqv[sub.r].value # NULL
    THEN ex_contains_veqv(sub.s, i, sub.s.veqv[sub.r].value, q)
    ELSE Res(sub.s, FALSE)
AnyContains(found, i, es, q) ==
    IF found.r \/ es = << >> THEN found
    ELSE AnyContains(ex_contains_veqv(found.s, i, es[1], q), i, Tail(es), q)

SetUnless(c, q, e) ==
    IF c.r THEN Res(c.s, FALSE) ELSE Res([c.s EXCEPT !.veqv[q].value = e], TRUE)
occur_check_and_set_var(S, i, q, e) == SetUnless(ex_contains_veqv(S, i, e, q), q, e)

\* The value of one of two classes contains the other one.
ValueContains(S, i, p, q) ==
    IF S.veqv[p].value = NULL THEN Res(S, FALSE) ELSE ex_contains_veqv(S, i, S.veqv[p].value, q)
OrValueContains(c, i, p, q) == IF c.r THEN c ELSE ValueContains(c.s, i, p, q)
Entangled(S, i, q0, q1) == OrValueContains(ValueContains(S, i, q0, q1), i, q1, q0)

\* var_to_veqv is updated where it does not have q yet.
RepointVar(c, i, x, q) ==
    IF c.r = q THEN c.s ELSE [c.s EXCEPT !.frame[i].map = (x :> q) @@ @]
Repoint(S, i, q) ==
    FoldLeft(LAMBDA U, x : RepointVar(cuex_subst_cref(U, i, x), i, x, q), S, S.veqv[q].vars)

\* Two classes become one with the value of u; it gives the value, or e0.
Join(u, i, q0, q1, e0) ==
    Res(Repoint(cuex_veqv_unify(u.s, q0, q1, u.r), i, q1), IF u.r # NULL THEN u.r ELSE e0)

\* u of an attempt to unify the value of q with an expression.
SetValue(u, q) == IF u.r = NULL THEN u ELSE Res([u.s EXCEPT !.veqv[q].value = u.r], u.r)
VarIf(o, x) == Res(o.s, IF o.r THEN V(x) ELSE NULL)

RECURSIVE cuex_subst_unify_aux(_, _, _, _), unify_opn(_, _, _, _), unify_var(_, _, _, _, _),
          unify_second(_, _, _, _), unify_classes(_, _, _, _, _), JoinUnified(_, _, _, _, _)
\* A variable x, of class q.r, with an expression that is not a variable, which
\* is unified with the value if there is one.  Swap: x is the second of the two.
unify_var(q, i, x, e, swap) ==
    LET v == q.s.veqv[q.r].value
    IN  IF v = NULL THEN VarIf(occur_check_and_set_var(q.s, i, q.r, e), x)
        ELSE SetValue(IF swap THEN cuex_subst_unify_aux(q.s, i, e, v)
                      ELSE cuex_subst_unify_aux(q.s, i, v, e), q.r)

\* Two variables: m is the class of the first, found first.
unify_second(m, i, e0, e1) == unify_classes(cuex_subst_mref(m.s, i, e1[2]), i, m.r, e0, e1)
unify_classes(m, i, q0, e0, e1) ==
    IF m.r = q0 THEN Res(m.s, e0) ELSE JoinUnified(Entangled(m.s, i, q0, m.r), i, q0, m.r, e0)
JoinUnified(t, i, q0, q1, e0) ==
    LET v0 == t.s.veqv[q0].value
        v1 == t.s.veqv[q1].value
        JoinIf(u) == IF u.r = NULL THEN u ELSE Join(u, i, q0, q1, e0)
    IN  IF t.r THEN Res(t.s, NULL)
        ELSE IF v0 = NULL THEN Join(Res(t.s, v1), i, q0, q1, e0)
        ELSE IF v1 = NULL THEN Join(Res(t.s, v0), i, q0, q1, e0)
        ELSE JoinIf(cuex_subst_unify_aux(t.s, i, v0, v1))

\* The operands es and ds come after those that u is of.
unify_opn(u, i, es, ds) ==
    IF u.r = NULL \/ es = << >> THEN u
    ELSE unify_opn(AppendTo(u.r, cuex_subst_unify_aux(u.s, i, es[1], ds[1])), i, Tail(es), Tail(ds))

cuex_subst_unify_aux(S, i, e0, e1) ==
    IF e0 = e1 THEN Res(S, e0)
    ELSE IF IsActive(e0) /\ IsActive(e1) THEN unify_second(cuex_subst_mref(S, i, e0[2]), i, e0, e1)
    ELSE IF IsActive(e0) THEN unify_var(cuex_subst_mref(S, i, e0[2]), i, e0[2], e1, FALSE)
    ELSE IF IsActive(e1) THEN unify_var(cuex_subst_mref(S, i, e1[2]), i, e1[2], e0, TRUE)
    ELSE IF SameOpr(e0, e1) THEN unify_opn(Res(S, <<e0[1]>>), i, Tail(e0), Tail(e1))
    ELSE Res(S, NULL)

Succeeded(u) == Res(u.s, u.r # NULL)
cuex_subst_unify(S, i, e0, e1) == Succeeded(cuex_subst_unify_aux(S, i, e0, e1))
-----------------------------------------------------------------------------
NewVar(S) == [S EXCEPT !.fresh = @ + 1]

cuex_subst_block(S, i, x) ==
    LET BlockClass(m) ==
            IF m.s.veqv[m.r].value # NULL THEN m.s
            ELSE NewVar([m.s EXCEPT !.veqv[m.r].value = Blocked(m.s.fresh + 1)])
    IN  BlockClass(cuex_subst_mref(S, i, x))

cuex_subst_unblock(S, i, x) ==
    LET UnblockClass(m) == [m.s EXCEPT !.veqv[m.r].value = NULL]
    IN  UnblockClass(cuex_subst_mref(S, i, x))

\* In the frame itself, and in a frame below for the variables not met yet.
RECURSIVE UnblockFrom(_, _, _)
UnblockFrom(S, i, visited) ==
    LET m == S.frame[i].map
        drop == {m[x] : x \in {y \in DOMAIN m \ visited : IsBlocked(S.veqv[m[y]].value)}}
        T == [S EXCEPT !.veqv = [q \in DOMAIN @ |-> IF q \in drop THEN [@[q] EXCEPT !.value = NULL]
                                                    ELSE @[q]]]
    IN  IF i = NoFrame THEN S ELSE UnblockFrom(T, S.frame[i].shadowed, visited \cup DOMAIN m)
cuex_subst_unblock_all(S, i) == UnblockFrom(S, i, {})

\* What cuex_subst_lookup returns for the class that was found.
Lookup(c) ==
    LET q == c.s.veqv[c.r]
    IN  IF c.r = NoVeqv THEN NULL
        ELSE IF q.value # NULL /\ ~IsBlocked(q.value) THEN q.value
        ELSE IF Len(q.vars) > 1 THEN V(q.vars[1]) ELSE NULL

\* freshen: x is made equal to a new variable that is blocked.
FreshenUnset(S, i, x) ==
    LET new == Spare[S.spare + 1]
    IN  cuex_subst_unify(cuex_subst_block([S EXCEPT !.spare = @ + 1], i, new), i, V(x), V(new)).s
FreshenFound(c, i, x) == IF Lookup(c) # NULL THEN c.s ELSE FreshenUnset(c.s, i, x)
subst_freshen_var(S, i, x) ==
    IF ~IsActive(V(x)) THEN S ELSE FreshenFound(cuex_subst_cref(S, i, x), i, x)
cuex_subst_freshen_and_block_vars_in(S, i, e) ==
    FoldLeft(LAMBDA U, x : subst_freshen_var(U, i, x), S, VarsIn(e))

LookupRes(c) == Res(c.s, Lookup(c))
cuex_subst_lookup(S, i, x) == LookupRes(cuex_subst_cref(S, i, x))

RECURSIVE cuex_subst_apply(_, _, _), apply_class(_, _, _), apply_opn(_, _, _)
cuex_subst_apply(S, i, e) ==
    IF IsOpn(e) THEN apply_opn(Res(S, <<e[1]>>), i, Tail(e))
    ELSE apply_class(cuex_subst_cref(S, i, e[2]), i, e)
apply_class(c, i, e) ==
    IF c.r = NoVeqv \/ IsBlocked(c.s.veqv[c.r].value) THEN Res(c.s, e)
    ELSE IF c.s.veqv[c.r].value # NULL THEN cuex_subst_apply(c.s, i, c.s.veqv[c.r].value)
    ELSE Res(c.s, V(c.s.veqv[c.r].vars[1]))
apply_opn(a, i, es) ==
    IF es = << >> THEN a
    ELSE apply_opn(AppendTo(a.r, cuex_subst_apply(a.s, i, es[1])), i, Tail(es))

\* A variable is replaced once, but the operands of an operation are applied.
expand_class(c, e) ==
    IF c.r = NoVeqv \/ IsBlocked(c.s.veqv[c.r].value) THEN Res(c.s, e)
    ELSE Res(c.s, IF c.s.veqv[c.r].value # NULL THEN c.s.veqv[c.r].value
                  ELSE V(c.s.veqv[c.r].vars[1]))
cuex_subst_expand(S, i, e) ==
    IF IsOpn(e) THEN apply_opn(Res(S, <<e[1]>>), i, Tail(e))
    ELSE expand_class(cuex_subst_cref(S, i, e[2]), e)

\* The first operand comes last.
RECURSIVE cuex_subst_collect_veqvset(_, _, _)
cuex_subst_collect_veqvset(S, i, e) ==
    IF IsOpn(e)
    THEN FoldLeft(LAMBDA U, d : cuex_subst_collect_veqvset(U, i, d), S,
                  IF Len(e) = 1 THEN << >> ELSE SubSeq(e, 3, Len(e)) \o <<e[2]>>)
    ELSE IF IsActive(e) THEN cuex_subst_mref(S, i, e[2]).s ELSE S

\* The variables that cb is called with: the first operand comes last.
RECURSIVE cuex_subst_free_vars_conj(_, _, _), free_vars_class(_, _, _), free_vars_opn(_, _, _)
cuex_subst_free_vars_conj(S, i, e) ==
    IF IsOpn(e)
    THEN free_vars_opn(Res(S, << >>), i, IF Len(e) = 1 THEN << >> ELSE SubSeq(e, 3, Len(e)) \o <<e[2]>>)
    ELSE IF ~IsActive(e) THEN Res(S, << >>)
    ELSE free_vars_class(cuex_subst_cref(S, i, e[2]), i, e[2])
free_vars_class(c, i, x) ==
    LET q == c.s.veqv[c.r]
    IN  IF c.r = NoVeqv THEN Res(c.s, <<x>>)
        ELSE IF q.value # NULL /\ ~IsBlocked(q.value) THEN cuex_subst_free_vars_conj(c.s, i, q.value)
        ELSE Res(c.s, <<q.vars[1]>>)
free_vars_opn(a, i, es) ==
    LET MoreVars(got, b) == Res(b.s, got \o b.r)
    IN  IF es = << >> THEN a
        ELSE free_vars_opn(MoreVars(a.r, cuex_subst_free_vars_conj(a.s, i, es[1])), i, Tail(es))

\* The classes passed to the callback of cuex_subst_iter_veqv, frame by frame.
RECURSIVE IterFrom(_, _, _)
IterFrom(S, i, visited) ==
    LET m == S.frame[i].map
        heads == {x \in DOMAIN m \ visited :
                      LET q == S.veqv[m[x]]
                      IN  x = q.vars[1] /\ (q.value # NULL \/ Len(q.vars) > 1)}
    IN  IF i = NoFrame THEN << >>
        ELSE SetToSeq({m[x] : x \in heads}) \o IterFrom(S, S.frame[i].shadowed, visited \cup DOMAIN m)
cuex_subst_iter_veqv(S, i) == IterFrom(S, i, {})

\* The function that values are transformed with renames the constant "c".
RECURSIVE Renamed(_)
Renamed(e) == IF e = <<"c">> THEN <<"d">> ELSE IF IsVar(e) \/ IsBlocked(e) THEN e
              ELSE [k \in DOMAIN e |-> IF k = 1 THEN e[1] ELSE Renamed(e[k])]

\* cuex_subst_tran_cache, where f does not ask for other variables: a clone
\* gets the new values, those of the frames below after those above.
TranClass(S, t, x, q) ==
    LET v == S.veqv[q].value
        SetTo(m) == [m.s EXCEPT !.veqv[m.r].value = Renamed(v)]
    IN  IF v = NULL \/ Renamed(v) = v THEN S ELSE SetTo(cuex_subst_mref(S, t, x))
RECURSIVE TranFrom(_, _, _, _)
TranFrom(S, t, i, done) ==
    LET m == S.frame[i].map
        firsts == {x \in DOMAIN m : m[x] \notin done /\ x = CHOOSE y \in DOMAIN m : m[y] = m[x]}
        T == FoldLeft(LAMBDA U, x : TranClass(U, t, x, m[x]), S, SetToSeq(firsts))
    IN  IF i = NoFrame THEN S
        ELSE TranFrom(T, t, S.frame[i].shadowed, done \cup {m[x] : x \in DOMAIN m})
cuex_subst_tran_cache(S, i) ==
    LET TranInto(T) == TranFrom(T, Len(T.frame), i, {}) IN TranInto(cuex_subst_new_clone(S, i))
-----------------------------------------------------------------------------
NoSubst == [veqv |-> << >>, frame |-> <<subst_init(NoFrame)>>, fresh |-> 0, spare |-> 0]
NoneGiven == [eqs |-> <<{}>>, failed |-> <<{}>>, steps |-> MaxSteps]

Init == con = NoSubst /\ ref = NoneGiven

Usable(i) == ref.failed[i] = {}
\* A substitution that has a clone is not changed any more.
Own(i) == Usable(i) /\ con.frame[i].clone_cnt = 1 /\ ref.steps > 0
Stepped(i, E) == [ref EXCEPT !.eqs[i] = @ \cup E, !.steps = @ - 1]

Unify(i, e) ==
    LET u == cuex_subst_unify(con, i, e[1], e[2])
    IN  /\ Own(i)
        /\ con' = u.s
        /\ ref' = IF u.r THEN Stepped(i, {e}) ELSE [ref EXCEPT !.failed[i] = {e}, !.steps = @ - 1]

\* A block is as good as a value that nothing else is equal to.
BlockOf(S, i, x) ==
    LET c == cuex_subst_cref(S, i, x) IN IF c.r = NoVeqv THEN NULL ELSE c.s.veqv[c.r].value

Block(i, x) ==
    /\ Own(i) /\ BlockOf(con, i, x) = NULL
    /\ con' = cuex_subst_block(con, i, x)
    /\ ref' = Stepped(i, {<<V(x), Blocked(con.fresh + 1)>>})

Unblock(i, x) ==
    /\ Own(i) /\ IsBlocked(BlockOf(con, i, x))
    /\ con' = cuex_subst_unblock(con, i, x)
    /\ ref' = [ref EXCEPT !.eqs[i] = {e \in @ : e[2] # BlockOf(con, i, x)}, !.steps = @ - 1]

\* With frames below, those would be unblocked too, for their other clones.
UnblockAll(i) ==
    /\ Own(i) /\ con.frame[i].shadowed = NoFrame
    /\ con' = cuex_subst_unblock_all(con, i)
    /\ ref' = [ref EXCEPT !.eqs[i] = {e \in @ : ~IsBlocked(e[2])}, !.steps = @ - 1]

\* Of a variable that is blocked already and alone in its class, the code
\* asserts that it is not there.
Freshen(i, e) ==
    LET needs == SelectSeq(VarsIn(e), LAMBDA x : IsActive(V(x)) /\ cuex_subst_lookup(con, i, x).r = NULL)
        pair(k) == {<<V(needs[k]), V(Spare[con.spare + k])>>,
                    <<V(Spare[con.spare + k]), Blocked(con.fresh + k)>>}
    IN  /\ Own(i) /\ IsInjective(needs) /\ con.spare + Len(needs) <= Len(Spare) /\ needs # << >>
        /\ \A k \in DOMAIN needs : ~IsBlocked(BlockOf(con, i, needs[k]))
        /\ con' = cuex_subst_freshen_and_block_vars_in(con, i, e)
        /\ ref' = Stepped(i, UNION {pair(k) : k \in DOMAIN needs})

Adds(S, i) ==
    /\ Usable(i) /\ ref.steps > 0 /\ Len(con.frame) < MaxFrames
    /\ con' = S
    /\ ref' = [ref EXCEPT !.eqs = Append(@, @[i]), !.failed = Append(@, {}), !.steps = @ - 1]

Reads(S, i) == Usable(i) /\ ref.steps > 0 /\ con' = S /\ ref' = Stepped(i, {})

\* Then the client has a new one.
StartOver == (ref.steps = 0 \/ \A i \in DOMAIN con.frame : ~Usable(i)) /\ con' = NoSubst /\ ref' = NoneGiven

Next == StartOver \/ \E i \in DOMAIN con.frame :
    \/ \E e \in Equations : Unify(i, e)
    \/ \E x \in Vars : Block(i, x) \/ Unblock(i, x)
    \/ UnblockAll(i)
    \/ \E e \in Terms : Freshen(i, e)
    \/ Adds(cuex_subst_new_clone(con, i), i)
    \/ Adds(cuex_subst_new_copy(con, i), i)
    \/ Reads(cuex_subst_flatten(con, i), i)
    \/ \E x \in Vars : Reads(cuex_subst_lookup(con, i, x).s, i)
    \/ \E e \in Terms : Own(i) /\ Reads(cuex_subst_collect_veqvset(con, i, e), i)
-----------------------------------------------------------------------------
\* A reference: solving equations by eliminating one variable after another.
RECURSIVE Replace(_, _, _)
Replace(e, x, t) ==
    IF e = V(x) THEN t ELSE IF IsVar(e) THEN e
    ELSE [k \in DOMAIN e |-> IF k = 1 THEN e[1] ELSE Replace(e[k], x, t)]

\* The solved equations x = t as pairs, or << >> and FALSE.
RECURSIVE Solve(_, _)
Solve(E, sol) ==
    IF E = {} THEN [ok |-> TRUE, sol |-> sol]
    ELSE LET e == CHOOSE d \in E : TRUE
             rest == E \ {e}
             swap == ~IsActive(e[1]) /\ IsActive(e[2])
             x == IF swap THEN e[2] ELSE e[1]
             t == IF swap THEN e[1] ELSE e[2]
             put(d) == <<Replace(d[1], x[2], t), Replace(d[2], x[2], t)>>
         IN  IF e[1] = e[2] THEN Solve(rest, sol)
             ELSE IF IsActive(x)
             THEN IF x[2] \in ToSet(VarsIn(t)) THEN [ok |-> FALSE, sol |-> << >>]
                  ELSE Solve({put(d) : d \in rest},
                             (x[2] :> t) @@ [y \in DOMAIN sol |-> Replace(sol[y], x[2], t)])
             ELSE IF SameOpr(e[1], e[2])
             THEN Solve(rest \cup {<<e[1][k], e[2][k]>> : k \in 2..Len(e[1])}, sol)
             ELSE [ok |-> FALSE, sol |-> << >>]

RECURSIVE Solved(_, _)
Solved(sol, e) ==
    IF IsVar(e) THEN IF e[2] \in DOMAIN sol THEN sol[e[2]] ELSE e
    ELSE [k \in DOMAIN e |-> IF k = 1 THEN e[1] ELSE Solved(sol, e[k])]

RECURSIVE HasBlock(_)
HasBlock(e) == IsBlocked(e) \/ (IsOpn(e) /\ \E k \in 2..Len(e) : HasBlock(e[k]))

\* In every usable substitution a variable of a class leads to that class, from
\* the frame that has it, and values do not lead back to their variable.
Classes ==
    \A i \in DOMAIN con.frame : Usable(i) =>
        \A x \in Vars :
            LET c == cuex_subst_cref(con, i, x)
            IN  c.r # NoVeqv =>
                /\ x \in ToSet(c.s.veqv[c.r].vars) /\ IsInjective(c.s.veqv[c.r].vars)
                /\ \A y \in ToSet(c.s.veqv[c.r].vars) : cuex_subst_cref(con, i, y).r = c.r
                /\ c.s.veqv[c.r].value # NULL =>
                       ~ex_contains_veqv(con, i, c.s.veqv[c.r].value, c.r).r

(* Unification succeeds exactly when the equations given to the            *)
(* substitution, and to those it was cloned from, have a solution, and     *)
(* then makes equal exactly what the most general one does: also in a      *)
(* source whose clones have been changed, or have failed.                  *)
MostGeneral ==
    \A i \in DOMAIN con.frame :
        IF ~Usable(i) THEN ~Solve(ref.eqs[i] \cup ref.failed[i], << >>).ok
        ELSE LET r == Solve(ref.eqs[i], << >>)
                 free == {e \in Exprs : ~HasBlock(Solved(r.sol, e))}
                 to == [e \in Exprs |-> cuex_subst_apply(con, i, e).r]
             IN  /\ r.ok
                 /\ \A e, d \in free : (to[e] = to[d]) <=> (Solved(r.sol, e) = Solved(r.sol, d))

(* Applied, expanded and free variables agree, and every class is visited  *)
(* once.                                                                   *)
Agree ==
    \A i \in DOMAIN con.frame : Usable(i) =>
        LET r == Solve(ref.eqs[i], << >>)
            it == cuex_subst_iter_veqv(con, i)
        IN  /\ \A e \in Exprs :
                 LET a == cuex_subst_apply(con, i, e).r
                 IN  /\ cuex_subst_apply(con, i, a).r = a
                     /\ cuex_subst_apply(con, i, cuex_subst_expand(con, i, e).r).r = a
                     /\ ~HasBlock(Solved(r.sol, e)) =>
                            ToSet(cuex_subst_free_vars_conj(con, i, e).r)
                            = {x \in ToSet(VarsIn(a)) : IsActive(V(x))}
            /\ IsInjective(it)
            /\ {con.veqv[q].vars[1] : q \in ToSet(it)} =
                 {x \in Vars \cup ToSet(Spare) :
                    LET c == cuex_subst_cref(con, i, x)
                    IN  /\ c.r # NoVeqv
                        /\ c.s.veqv[c.r].vars[1] = x
                        /\ c.s.veqv[c.r].value # NULL \/ Len(c.s.veqv[c.r].vars) > 1}

(* Copies and transformed substitutions do what the original does, and     *)
(* leave it alone.                                                         *)
Copies ==
    \A i \in DOMAIN con.frame : Usable(i) =>
        LET C == cuex_subst_new_copy(con, i)
            T == cuex_subst_tran_cache(con, i)
        IN  \A e \in Exprs :
              LET a == cuex_subst_apply(con, i, e).r
              IN  /\ cuex_subst_apply(C, Len(C.frame), e).r = a
                  /\ cuex_subst_apply(C, i, e).r = a
                  /\ Renamed(cuex_subst_apply(T, Len(T.frame), e).r) = Renamed(a)
                  /\ cuex_subst_apply(T, i, e).r = a
=============================================================================
