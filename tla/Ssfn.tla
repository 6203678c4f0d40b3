-------------------------------- MODULE Ssfn --------------------------------
(***************************************************************************)
(* cuex/ssfn.c: functions defined by patterns.  The patterns are merged    *)
(* into one tree that is followed by the operators of an expression in     *)
(* prefix order; a node has a branch for every operator and for every leaf *)
(* that is compared by address, one for a new variable, and one for each   *)
(* variable met before.  Searches walk the tree and the expression         *)
(* together, with a stack of the operands still to come.                   *)
(*                                                                         *)
(* Expressions are as in Subst; <<"o", x>> is a leaf compared by address   *)
(* (an object, or a variable of passive quantification).  Substitutions    *)
(* are the sets of equations they solve.  The quantification of all active *)
(* variables is the same here, because a node keeps only one for its       *)
(* patterns.                                                               *)
(***************************************************************************)
EXTENDS Integers, Sequences, FiniteSets, SequencesExt, TLC

CONSTANTS
    Patterns,           \* the patterns inserted
    Keys,               \* the expressions searched for
    Accepted,           \* sets of patterns that a receiver of matches accepts
    Weak                \* cuex_qcode_active_w, else cuex_qcode_active_s

VARIABLES con, ref      \* the tree; the patterns

V(n) == <<"v", n>>
NoSlot == <<"none">>
IsVar(e) == e[1] = "v"
IsAddr(e) == e[1] \in {"o", "b"}
IsOpn(e) == ~IsVar(e) /\ ~IsAddr(e)
Operands(e) == IF IsOpn(e) THEN Tail(e) ELSE << >>

RECURSIVE VarsOf(_, _)
\* The variables in the order in which they are met.
VarsOf(es, vars) ==
    IF es = << >> THEN vars
    ELSE VarsOf(Operands(es[1]) \o Tail(es),
                IF IsVar(es[1]) /\ es[1] \notin ToSet(vars) THEN Append(vars, es[1]) ELSE vars)
IsGround(e) == VarsOf(<<e>>, << >>) = << >>

RECURSIVE Replace(_, _, _)
Replace(e, x, t) ==
    IF e = x THEN t
    ELSE IF IsOpn(e) THEN [k \in DOMAIN e |-> IF k = 1 THEN e[1] ELSE Replace(e[k], x, t)] ELSE e

\* The solution of equations, as a sequence of replacements.
Unsolvable == << <<"none">> >>
RECURSIVE Solve(_, _)
Solve(E, sol) ==
    IF E = << >> THEN sol
    ELSE LET a == E[1][1]
             b == E[1][2]
             Eliminate(x, t) ==
                IF x \in ToSet(VarsOf(<<t>>, << >>)) THEN Unsolvable
                ELSE Solve([k \in 1..(Len(E) - 1) |->
                               <<Replace(E[k + 1][1], x, t), Replace(E[k + 1][2], x, t)>>],
                           Append(sol, <<x, t>>))
         IN  IF a = b THEN Solve(Tail(E), sol)
             ELSE IF IsVar(a) THEN Eliminate(a, b)
             ELSE IF IsVar(b) THEN Eliminate(b, a)
             ELSE IF IsOpn(a) /\ IsOpn(b) /\ a[1] = b[1] /\ Len(a) = Len(b)
             THEN Solve([k \in 1..(Len(a) - 1) |-> <<a[k + 1], b[k + 1]>>] \o Tail(E), sol)
             ELSE Unsolvable
cuex_subst_unify(E, a, b) == Solve(Append(E, <<a, b>>), << >>) # Unsolvable
cuex_subst_apply(E, e) == FoldLeft(LAMBDA d, r : Replace(d, r[1], r[2]), e, Solve(E, << >>))

-----------------------------------------------------------------------------
(* A node is a function from its branches; a slot has no branches but a    *)
(* value.                                                                  *)
Opr(e) == <<"opr", e[1], Len(e) - 1>>
Addr(e) == <<"ex", e>>
Var == <<"var", 0>>
Uni(i) == <<"uni", i>>
Value == <<"value", 0>>
ssfn_node_cct == [b \in {} |-> 0]
Slot(p) == [b \in {Value} |-> p]
IsEmpty(node) == DOMAIN node = {}
With(node, b, sub) == (b :> sub) @@ node
Without(node, b) == [d \in DOMAIN node \ {b} |-> node[d]]

(* The branch of a pattern, where vars are the variables before it: the    *)
(* last of them has index 0.                                               *)
Branch(e, vars) ==
    IF IsOpn(e) THEN Opr(e)
    ELSE IF IsAddr(e) THEN Addr(e)
    ELSE IF e \in ToSet(vars)
    THEN Uni(Len(vars) - (CHOOSE i \in DOMAIN vars : vars[i] = e))
    ELSE Var

RECURSIVE ssfn_insert(_, _, _, _)
ssfn_insert(node, input, vars, patn) ==
    LET b == Branch(input[1], vars)
        rest == Operands(input[1]) \o Tail(input)
        more == IF b = Var THEN Append(vars, input[1]) ELSE vars
        subnode == IF b \in DOMAIN node THEN node[b] ELSE ssfn_node_cct
    IN  IF rest # << >> THEN With(node, b, ssfn_insert(subnode, rest, more, patn))
        ELSE IF b \in DOMAIN node THEN node
        ELSE With(node, b, Slot(patn))
cuex_ssfn_insert_mem(node, patn) == ssfn_insert(node, <<patn>>, << >>, patn)

(* The copy counts the operands that are pending, to tell nodes and slots. *)
Pending(b) == IF b[1] = "opr" THEN b[3] ELSE 0
RECURSIVE ssfn_init_copy(_, _)
ssfn_init_copy(src, pending_cnt) ==
    IF pending_cnt = 0 THEN Slot(src[Value])
    ELSE [b \in DOMAIN src |-> ssfn_init_copy(src[b], (pending_cnt - 1) + Pending(b))]
cuex_ssfn_new_copy_mem(src) == ssfn_init_copy(src, 1)

-----------------------------------------------------------------------------
(* The structure of a match, in prefix order: the rank of an operator, or  *)
(* how a leaf was matched.                                                 *)
SPECIFIC == -1
GENERIC == -2

RECURSIVE sctr_skip(_)
SkipN(n, x) == FoldLeft(LAMBDA y, i : sctr_skip(y), x, [i \in 1..n |-> i])
sctr_skip(x) == SkipN(x[1], Tail(x))

\* Whether lhs is as specific as rhs, and what is left of both.
RECURSIVE sctr_lgr_h(_, _), LgrOperands(_, _)
LgrOperands(n, r) ==
    IF n = 0 \/ ~r.ok THEN r ELSE LgrOperands(n - 1, sctr_lgr_h(r.lhs, r.rhs))
sctr_lgr_h(lhs, rhs) ==
    LET after == [ok |-> TRUE, lhs |-> Tail(lhs), rhs |-> Tail(rhs)]
    IN  IF lhs[1] = GENERIC THEN [after EXCEPT !.ok = rhs[1] = GENERIC]
        ELSE IF lhs[1] = SPECIFIC THEN after
        ELSE IF rhs[1] = GENERIC THEN [after EXCEPT !.lhs = sctr_skip(lhs)]
        ELSE LgrOperands(lhs[1], after)
cuexP_sctr_lgr(lhs, rhs) == sctr_lgr_h(lhs, rhs).ok

-----------------------------------------------------------------------------
(* cuex_ssfn_find.  J is jargs: the operands to come, the values of the    *)
(* variables (the last first), the structure, the one that was accepted,   *)
(* and the calls of the receiver, which accepts the patterns in J.accepts. *)
Call(J, node) == [slot |-> node[Value], args |-> Reverse(J.output)]
Narrowed(J) == J.most_specific # << >>
MoreSpecific(J) == ~Narrowed(J) \/ ~cuexP_sctr_lgr(J.most_specific, J.sctr)

FindMatch(node, J) ==
    [J EXCEPT !.calls = IF MoreSpecific(J) THEN Append(@, Call(J, node)) ELSE @,
              !.most_specific = IF ~Narrowed(J) /\ node[Value] \in J.accepts THEN J.sctr ELSE @]

\* What jargs has after a branch was searched: the stacks are as before.
Restored(J, K) == [J EXCEPT !.calls = K.calls, !.most_specific = K.most_specific]

BranchOf(e) == IF IsOpn(e) THEN Opr(e) ELSE Addr(e)
Rank(e) == IF IsOpn(e) THEN Len(e) - 1 ELSE SPECIFIC

RECURSIVE cuexP_ssfn_find(_, _), FindSame(_, _), FindUni(_, _, _), FindVar(_, _)
FindSame(node, J) ==
    LET ex == J.input[1]
    IN  IF IsVar(ex) \/ BranchOf(ex) \notin DOMAIN node THEN J
        ELSE Restored(J, cuexP_ssfn_find(node[BranchOf(ex)],
                [J EXCEPT !.input = Operands(ex) \o Tail(@), !.sctr = Append(@, Rank(ex))]))
FindUni(node, J, i) ==
    IF i = Len(J.output) THEN J
    ELSE IF Uni(i) \notin DOMAIN node \/ J.output[i + 1] # J.input[1] THEN FindUni(node, J, i + 1)
    ELSE FindUni(node,
                 Restored(J, cuexP_ssfn_find(node[Uni(i)],
                    [J EXCEPT !.input = Tail(@), !.sctr = Append(@, SPECIFIC)])),
                 i + 1)
FindVar(node, J) ==
    IF Var \notin DOMAIN node THEN J
    ELSE Restored(J, cuexP_ssfn_find(node[Var],
            [J EXCEPT !.input = Tail(@), !.output = <<J.input[1]>> \o @,
                      !.sctr = Append(@, GENERIC)]))
cuexP_ssfn_find(node, J) ==
    IF J.input = << >> THEN FindMatch(node, J)
    ELSE FindVar(node, FindUni(node, FindSame(node, J), 0))

FindArgs(key, accepts) ==
    [input |-> <<key>>, output |-> << >>, sctr |-> << >>, most_specific |-> << >>,
     calls |-> << >>, accepts |-> accepts]
cuex_ssfn_find(node, key, accepts) == cuexP_ssfn_find(node, FindArgs(key, accepts)).calls

-----------------------------------------------------------------------------
(* cuex_ssfn_find_it_t: the same search with a stack of frames instead of  *)
(* recursion, so that it can be left at a match and resumed.  For patterns *)
(* where no variable is met twice: the search of a variable met before     *)
(* keeps its place in the frame it is about to leave.                      *)
Frame(node) == [node |-> node, state |-> "enter", ex |-> << >>]
find_it(node, key) ==
    [stack |-> <<Frame(node)>>, input |-> <<key>>, output |-> << >>, sctr |-> << >>,
     most_specific |-> << >>, slot |-> NoSlot, args |-> << >>]

\* The top frame waits in a state for a frame for a branch.
Enters(it, state, b) ==
    [it EXCEPT !.stack = <<Frame(it.stack[1].node[b])>>
                            \o <<[it.stack[1] EXCEPT !.state = state]>> \o Tail(@)]

RECURSIVE it_returned(_), it_enter(_), it_same(_), it_var(_), it_leave(_)
it_enter(it) ==
    LET node == it.stack[1].node
        match == [it EXCEPT !.stack[1].state = "matched", !.slot = node[Value],
                            !.args = Reverse(it.output)]
    IN  IF it.input # << >>
        THEN it_same([it EXCEPT !.stack[1].ex = it.input[1], !.input = Tail(@)])
        ELSE IF it.most_specific = << >> \/ ~cuexP_sctr_lgr(it.most_specific, it.sctr)
        THEN match
        ELSE it_returned([it EXCEPT !.stack = Tail(@)])
it_same(it) ==
    LET ex == it.stack[1].ex
    IN  IF IsVar(ex) \/ BranchOf(ex) \notin DOMAIN it.stack[1].node THEN it_var(it)
        ELSE it_enter([Enters(it, IF IsOpn(ex) THEN "opn" ELSE "exaddr", BranchOf(ex))
                        EXCEPT !.input = Operands(ex) \o @, !.sctr = Append(@, Rank(ex))])
it_var(it) ==
    IF Var \notin DOMAIN it.stack[1].node THEN it_leave(it)
    ELSE it_enter([Enters(it, "next_var", Var)
                    EXCEPT !.output = <<it.stack[1].ex>> \o @, !.sctr = Append(@, GENERIC)])
it_leave(it) == it_returned([it EXCEPT !.input = <<it.stack[1].ex>> \o @, !.stack = Tail(@)])

\* cuex_ssfn_find_it_advance, from the state in which the top frame was left.
it_returned(it) ==
    IF it.stack = << >> THEN [it EXCEPT !.slot = NoSlot]
    ELSE LET f == it.stack[1]
             popped == [it EXCEPT !.sctr = Front(@)]
         IN  CASE f.state = "enter" -> it_enter(it)
               [] f.state = "matched" -> it_returned([it EXCEPT !.stack = Tail(@)])
               [] f.state = "exaddr" -> it_var(popped)
               [] f.state = "opn" ->
                    it_var([popped EXCEPT !.input = SubSeq(@, Len(f.ex), Len(@))])
               [] f.state = "next_var" -> it_leave([popped EXCEPT !.output = Tail(@)])

\* Only the first report counts.
find_it_report_match(it) ==
    IF it.most_specific = << >> THEN [it EXCEPT !.most_specific = it.sctr] ELSE it

RECURSIVE Iterate(_, _, _)
Iterate(it, accepts, calls) ==
    IF it.slot = NoSlot THEN calls
    ELSE Iterate(it_returned(IF it.slot \in accepts THEN find_it_report_match(it) ELSE it), accepts,
                 Append(calls, [slot |-> it.slot, args |-> it.args]))

-----------------------------------------------------------------------------
(* cuex_ssfn_find_mgu and its relatives.  J has flags for what may be      *)
(* substituted (lgr: variables of the key, mgr: those of patterns, mgr_w:  *)
(* also weak ones), the stacks, the variable of the key that is being      *)
(* matched and the expression it is matched with, whose places to be       *)
(* filled are Hole, the equations of the substitution, and the variables   *)
(* made.  With deletes, the callback asks for every match to be deleted.   *)
(* A result is the node without what was deleted, the calls, and whether   *)
(* anything was deleted from it.                                           *)
Hole == <<"o", 0>>
Done(node) == [node |-> node, calls |-> << >>, erased |-> FALSE]

\* A branch b was searched with result r; a branch left empty is erased.
Searched(d, b, r) ==
    [node |-> IF r.erased /\ IsEmpty(r.node) THEN Without(d.node, b) ELSE With(d.node, b, r.node),
     calls |-> d.calls \o r.calls, erased |-> d.erased \/ r.erased]

RECURSIVE FillFirst(_, _)
\* The first place in prefix order, that is the top of the stack of targets.
FillFirst(e, d) ==
    IF e = Hole THEN d
    ELSE IF ~IsOpn(e) THEN e
    ELSE LET holes == {k \in 2..Len(e) : FillFirst(e[k], d) # e[k]}
         IN  IF holes = {} THEN e
             ELSE LET k == CHOOSE i \in holes : \A j \in holes : i <= j
                  IN  [e EXCEPT ![k] = FillFirst(@, d)]
HasHole(e) == FillFirst(e, <<"filled">>) # e

Matched(node, J) ==
    [node |-> IF J.deletes THEN ssfn_node_cct ELSE node,
     calls |-> <<[slot |-> node[Value], args |-> Reverse(J.output), eqs |-> J.eqs]>>,
     erased |-> J.deletes]

\* A new variable for one of the pattern: it is blocked, that is constant,
\* if those of patterns are not to be substituted.
NewVar(J) == IF J.mgr THEN V(100 + J.made) ELSE <<"b", J.made>>
Branches(node, kind) == {b \in DOMAIN node : b[1] = kind}
Template(b) == <<b[2]>> \o [i \in 1..b[3] |-> Hole]

RECURSIVE find_mgu(_, _), mgu_expand(_, _), mgu_maybe_expand(_, _, _), ExpandUni(_, _, _),
          ExpandVar(_, _), MguSame(_, _), MguUni(_, _, _), MguVar(_, _)

\* The place to be filled gets d; when it was the last, the variable is unified.
mgu_maybe_expand(node, J, d) ==
    LET key_arg == FillFirst(J.key_arg, d)
    IN  IF HasHole(key_arg) THEN mgu_expand(node, [J EXCEPT !.key_arg = key_arg])
        ELSE IF cuex_subst_unify(J.eqs, J.key_var, key_arg)
        THEN find_mgu(node, [J EXCEPT !.eqs = Append(@, <<J.key_var, key_arg>>)])
        ELSE Done(node)

ExpandAll(r, J, bs, kind) ==
    FoldSet(LAMBDA b, d : Searched(d, b, mgu_maybe_expand(d.node[b], J,
                               IF kind = "opr" THEN Template(b) ELSE b[2])),
             r, bs)
ExpandUni(r, J, i) ==
    IF i = Len(J.output) THEN r
    ELSE IF Uni(i) \notin DOMAIN r.node THEN ExpandUni(r, J, i + 1)
    ELSE ExpandUni(Searched(r, Uni(i), mgu_maybe_expand(r.node[Uni(i)], J, J.output[i + 1])), J, i + 1)
\* A variable for a variable is left to the other case of cuexP_ssfn_find_mgu.
ExpandVar(r, J) ==
    IF Var \notin DOMAIN r.node \/ (J.mgr /\ ~Weak /\ J.key_arg = Hole) THEN r
    ELSE Searched(r, Var, mgu_maybe_expand(r.node[Var],
            [J EXCEPT !.output = <<NewVar(J)>> \o @, !.made = @ + 1], NewVar(J)))
mgu_expand(node, J) ==
    ExpandVar(ExpandUni(ExpandAll(ExpandAll(Done(node), J, Branches(node, "ex"), "ex"), J,
                                  Branches(node, "opr"), "opr"), J, 0), J)

MguSame(node, J) ==
    LET key == J.input[1]
        K == [J EXCEPT !.input = Tail(@)]
    IN  IF IsVar(key)
        THEN IF J.lgr THEN mgu_expand(node, [K EXCEPT !.key_var = key, !.key_arg = Hole])
             ELSE Done(node)
        ELSE IF BranchOf(key) \notin DOMAIN node THEN Done(node)
        ELSE Searched(Done(node), BranchOf(key), find_mgu(node[BranchOf(key)],
                [J EXCEPT !.input = Operands(key) \o Tail(@)]))

\* A variable of the pattern that has a value: unified if the key may be
\* substituted too, else compared.
MguUni(r, J, i) ==
    LET key == J.input[1]
        arg == J.output[i + 1]
        K == [J EXCEPT !.input = Tail(@)]
    IN  IF i = Len(J.output) THEN r
        ELSE IF Uni(i) \notin DOMAIN r.node THEN MguUni(r, J, i + 1)
        ELSE MguUni(IF J.lgr /\ cuex_subst_unify(J.eqs, arg, key)
                    THEN Searched(r, Uni(i), find_mgu(r.node[Uni(i)],
                                                      [K EXCEPT !.eqs = Append(@, <<arg, key>>)]))
                    ELSE IF ~J.lgr /\ arg = key
                    THEN Searched(r, Uni(i), find_mgu(r.node[Uni(i)], K))
                    ELSE r, J, i + 1)

MguVar(r, J) ==
    LET key == J.input[1]
        is_wp == ~Weak \/ IsVar(key)
    IN  IF Var \notin DOMAIN r.node \/ ~(J.mgr_w \/ is_wp) THEN r
        ELSE Searched(r, Var, find_mgu(r.node[Var],
                [J EXCEPT !.input = Tail(@), !.output = <<key>> \o @]))

find_mgu(node, J) ==
    IF J.input = << >> THEN Matched(node, J)
    ELSE IF ~J.mgr THEN MguSame(node, J)
    ELSE MguVar(MguUni(MguSame(node, J), J, 0), J)

Search(node, key, lgr, mgr, mgr_w, deletes) ==
    find_mgu(node, [input |-> <<key>>, output |-> << >>, key_var |-> NoSlot, key_arg |-> Hole,
                    eqs |-> << >>, made |-> 0, lgr |-> lgr, mgr |-> mgr, mgr_w |-> mgr_w,
                    deletes |-> deletes])

cuex_ssfn_find_mgr(node, key) == Search(node, key, FALSE, TRUE, TRUE, FALSE).calls
cuex_ssfn_find_wpmgr(node, key) == Search(node, key, FALSE, TRUE, FALSE, FALSE).calls
cuex_ssfn_find_lgr(node, key) == Search(node, key, TRUE, FALSE, FALSE, FALSE).calls
\* With weak variables it leaves a substitution to a search it is not for.
cuex_ssfn_find_mgu(node, key) == Search(node, key, TRUE, TRUE, TRUE, FALSE).calls
cuex_ssfn_find_wpmgu(node, key) == Search(node, key, TRUE, TRUE, FALSE, FALSE).calls

\* The callback commits to the first match.
cuex_ssfn_find_single_wpmgr(node, key) ==
    IF cuex_ssfn_find_wpmgr(node, key) = << >> THEN NoSlot ELSE cuex_ssfn_find_wpmgr(node, key)[1].slot
cuex_ssfn_have_wpmgr(node, key) == cuex_ssfn_find_wpmgr(node, key) # << >>

cuex_ssfn_erase_lgr(node, key) == Search(node, key, TRUE, FALSE, FALSE, TRUE).node
cuex_ssfn_erase_mgr(node, key) == Search(node, key, FALSE, TRUE, TRUE, TRUE).node
cuex_ssfn_erase_wpmgr(node, key) == Search(node, key, FALSE, TRUE, FALSE, TRUE).node

-----------------------------------------------------------------------------
(* cuexP_ssfn_find_eqr: a variable of the key stands for one of the        *)
(* pattern, and is blocked from standing for a second one.                 *)
RECURSIVE find_eqr(_, _), EqrUni(_, _, _)
EqrUni(r, J, i) ==
    IF i = Len(J.output) THEN r
    ELSE EqrUni(IF Uni(i) \in DOMAIN r.node /\ J.output[i + 1] = J.input[1]
                THEN Searched(r, Uni(i), find_eqr(r.node[Uni(i)], [J EXCEPT !.input = Tail(@)]))
                ELSE r, J, i + 1)
EqrVar(r, J) ==
    IF Var \notin DOMAIN r.node \/ J.input[1] \in J.blocked THEN r
    ELSE Searched(r, Var, find_eqr(r.node[Var],
            [J EXCEPT !.input = Tail(@), !.output = <<J.input[1]>> \o @,
                      !.blocked = @ \cup {J.input[1]}]))
find_eqr(node, J) ==
    IF J.input = << >>
    THEN [node |-> IF J.deletes THEN ssfn_node_cct ELSE node, calls |-> <<node[Value]>>,
          erased |-> J.deletes]
    ELSE IF IsVar(J.input[1]) THEN EqrVar(EqrUni(Done(node), J, 0), J)
    ELSE IF BranchOf(J.input[1]) \notin DOMAIN node THEN Done(node)
    ELSE Searched(Done(node), BranchOf(J.input[1]), find_eqr(node[BranchOf(J.input[1])],
            [J EXCEPT !.input = Operands(J.input[1]) \o Tail(@)]))
cuex_ssfn_find_eqr(node, key, deletes) ==
    find_eqr(node, [input |-> <<key>>, output |-> << >>, blocked |-> {}, deletes |-> deletes])

-----------------------------------------------------------------------------
(* What the searches mean.                                                 *)
RECURSIVE Instantiate(_, _)
\* Variables are replaced as sub says, all at once.
Instantiate(e, sub) ==
    IF IsVar(e) THEN (IF e \in DOMAIN sub THEN sub[e] ELSE e)
    ELSE IF IsOpn(e) THEN [k \in DOMAIN e |-> IF k = 1 THEN e[1] ELSE Instantiate(e[k], sub)]
    ELSE e
Apart(p) == Instantiate(p, [x \in ToSet(VarsOf(<<p>>, << >>)) |-> V(x[2] + 50)])
Frozen(e) == Instantiate(e, [x \in ToSet(VarsOf(<<e>>, << >>)) |-> <<"b", x[2]>>])

\* There is a substitution of the variables of p, alone, that makes it e.
Covers(p, e) == cuex_subst_unify(<< >>, Apart(p), Frozen(e))
Renaming(p, q) == Covers(p, q) /\ Covers(q, p)
Unifies(p, e) == cuex_subst_unify(<< >>, Apart(p), e)
\* With variables for variables only.
CoversWeakly(p, e) ==
    /\ Covers(p, e)
    /\ Weak => \A x \in ToSet(VarsOf(<<Apart(p)>>, << >>)) :
                  cuex_subst_apply(<< <<Apart(p), Frozen(e)>> >>, x)[1] = "b"

With1(patn) == IF \E p \in ref : Renaming(p, patn) THEN ref ELSE ref \cup {patn}

Init == con = ssfn_node_cct /\ ref = {}

Insert(patn) == con' = cuex_ssfn_insert_mem(con, patn) /\ ref' = With1(patn)
EraseLgr(key) ==
    /\ con' = cuex_ssfn_erase_lgr(con, key)
    /\ ref' = {p \in ref : ~Covers(key, p)}
EraseMgr(key) ==
    /\ con' = cuex_ssfn_erase_mgr(con, key)
    /\ ref' = {p \in ref : ~Covers(p, key)}
EraseWpmgr(key) ==
    /\ con' = cuex_ssfn_erase_wpmgr(con, key)
    /\ ref' = {p \in ref : ~CoversWeakly(p, key)}
EraseEqr(key) ==
    /\ con' = cuex_ssfn_find_eqr(con, key, TRUE).node
    /\ ref' = {p \in ref : ~Renaming(p, key)}

Next ==
    \/ \E p \in Patterns : Insert(p)
    \/ \E k \in Keys : EraseLgr(k) \/ EraseMgr(k) \/ EraseWpmgr(k) \/ EraseEqr(k)

-----------------------------------------------------------------------------
(* The tree is the one that inserting its patterns gives, whatever was     *)
(* erased in between: no node without branches stays behind.               *)
Tree(S) == FoldSet(LAMBDA p, n : cuex_ssfn_insert_mem(n, p), ssfn_node_cct, S)
Canonical == con = Tree(ref)

Slots(calls) == [i \in DOMAIN calls |-> calls[i].slot]
Once(calls, S) == ToSet(Slots(calls)) = S /\ Len(calls) = Cardinality(S)

\* The arguments are values of the pattern's variables that give the key,
\* both under the substitution.
Gives(c, key) ==
    LET vars == VarsOf(<<c.slot>>, << >>)
    IN  /\ Len(c.args) = Len(vars)
        /\ cuex_subst_apply(c.eqs, Instantiate(c.slot, [x \in ToSet(vars) |->
                c.args[CHOOSE i \in DOMAIN vars : vars[i] = x]]))
           = cuex_subst_apply(c.eqs, key)

(* Each search calls back for the patterns it is said to find, once unless *)
(* it is for unifiers, and with arguments and a substitution that make the *)
(* pattern and the key the same.                                           *)
Answers ==
    \A key \in Keys :
        /\ Once(cuex_ssfn_find_mgr(con, key), {p \in ref : Covers(p, key)})
        /\ Once(cuex_ssfn_find_wpmgr(con, key), {p \in ref : CoversWeakly(p, key)})
        /\ Once(cuex_ssfn_find_lgr(con, key), {p \in ref : Covers(key, p)})
        /\ ToSet(cuex_ssfn_find_eqr(con, key, FALSE).calls) = {p \in ref : Renaming(p, key)}
        /\ ~Weak => /\ ToSet(Slots(cuex_ssfn_find_mgu(con, key))) = {p \in ref : Unifies(p, key)}
                    /\ cuex_ssfn_find_wpmgu(con, key) = cuex_ssfn_find_mgu(con, key)
        /\ \A c \in ToSet(cuex_ssfn_find_mgr(con, key) \o cuex_ssfn_find_lgr(con, key)
                            \o (IF Weak THEN << >> ELSE cuex_ssfn_find_mgu(con, key))) : Gives(c, key)
        /\ cuex_ssfn_have_wpmgr(con, key) <=> cuex_ssfn_find_single_wpmgr(con, key) \in ref

RECURSIVE Leaves(_)
Leaves(e) == IF IsOpn(e) THEN FlattenSeq([k \in 1..(Len(e) - 1) |-> Leaves(e[k + 1])]) ELSE <<e>>
IsLinear(p) == IsInjective(SelectSeq(Leaves(p), IsVar))

(* cuex_ssfn_find calls for all the matches of an expression, and after    *)
(* one was accepted, for those that it is not at least as specific as; the *)
(* iterator stops at the same matches.  A copy is the same tree.           *)
NotBelow(first, rest) == SelectSeq(rest, LAMBDA c : ~Covers(c.slot, first.slot))
FromAccepted(calls, accepts) ==
    LET ok == {i \in DOMAIN calls : calls[i].slot \in accepts}
        first == CHOOSE i \in ok : \A j \in ok : i <= j
    IN  IF ok = {} THEN calls
        ELSE SubSeq(calls, 1, first) \o NotBelow(calls[first], SubSeq(calls, first + 1, Len(calls)))

Derived ==
    /\ cuex_ssfn_new_copy_mem(con) = con
    /\ \A key \in {k \in Keys : IsGround(k)} :
        LET all == cuex_ssfn_find(con, key, {})
        IN  /\ Once(all, {p \in ref : Covers(p, key)})
            /\ \A c \in ToSet(all) : Gives([slot |-> c.slot, args |-> c.args, eqs |-> << >>], key)
            /\ (\A p \in ref : IsLinear(p)) =>
                \A A \in Accepted :
                    /\ cuex_ssfn_find(con, key, A) = FromAccepted(all, A)
                    /\ Iterate(it_returned(find_it(con, key)), A, << >>) = cuex_ssfn_find(con, key, A)
=============================================================================
