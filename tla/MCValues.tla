------------------------------ MODULE MCValues ------------------------------
(***************************************************************************)
(* Small instances of the parts that compute with values: expressions,     *)
(* substitutions, trees of expressions, strings and text; and of the       *)
(* global work queue.  what says which of them a behaviour is about.       *)
(* GWorkq has its own variables, and two instances: in one the static      *)
(* priorities of threads stay, in the other there is one call.  The others *)
(* share con, the data structure, and ref, what it stands for or what its  *)
(* clients do.                                                             *)
(***************************************************************************)
EXTENDS GWorkq, TLC

CONSTANTS t1, t2, q1, q2

VARIABLES what, con, ref

AtZero == [q \in FlexQs |-> 0]
Symm == Permutations(Threads) \cup Permutations(FlexQs)

-----------------------------------------------------------------------------
Var(n) == <<"v", n>>
Fof(e) == <<"f", e>>
Gof(d, e) == <<"g", d, e>>
SU == INSTANCE Subst
        WITH Vars <- 1..3, Spare <- <<4>>, SHADOW_COST <- 1, MaxFrames <- 3, MaxSteps <- 4,
             Terms <- {Gof(Var(1), Var(2))},
             Exprs <- {Var(1), Gof(Var(1), Var(2)), Gof(Fof(Var(3)), Var(9))},
             Equations <- {<<Var(1), Var(2)>>, <<Var(3), Var(2)>>, <<Var(1), Fof(Var(3))>>,
                           <<Gof(Var(1), Var(3)), Gof(Fof(<<"c">>), Var(2))>>}

AT == INSTANCE Atree
        WITH W <- 5, Keys <- {2, 4, 6, 8, 10, 12}, Values <- {1, 2},
             Operands <- {<< >>, [k \in {4} |-> 1], [k \in {2, 4, 12} |-> 2], [k \in {6, 8, 12} |-> 1],
                          [k \in {2, 4, 6, 8} |-> 1 + (k % 4) \div 2]}
LT == INSTANCE Ltree WITH LOG2_FANOUT <- 1, DEPTH_MAXP <- 5, MaxLen <- 9
LT2 == INSTANCE Ltree WITH LOG2_FANOUT <- 2, DEPTH_MAXP <- 4, MaxLen <- 18

\* Patterns that are renamings, instances and generalisations of others, and
\* some where a variable is met twice.
C0 == <<"c">>
O1 == <<"o", 1>>
Pats == {Var(1), Fof(C0), Fof(Var(1)), Gof(Var(1), Var(2)), Gof(Var(2), Var(1)), Gof(Var(1), Var(1)),
         Gof(Fof(Var(1)), Var(2)), Gof(O1, Var(1)), Gof(Var(1), Fof(C0))}
PatKeys == {O1, Fof(C0), Gof(O1, Fof(C0)), Gof(Fof(C0), Fof(C0)), Var(1), Fof(Var(1)),
            Gof(Var(1), Var(2)), Gof(Var(1), Var(1)), Gof(Var(1), Fof(Var(1))), Gof(Var(2), Fof(C0))}
Receivers == {Pats, {Fof(Var(1)), Gof(Var(1), Var(2))}}
SF == INSTANCE Ssfn WITH Patterns <- Pats, Keys <- PatKeys, Accepted <- Receivers, Weak <- FALSE
SFW == INSTANCE Ssfn
        WITH Patterns <- Pats \ {Fof(C0), Gof(Var(2), Var(1)), Gof(O1, Var(1))},
             Keys <- PatKeys, Accepted <- Receivers, Weak <- TRUE

EC == <<"k">>
Ob(i) == <<"o", i>>
Lab == <<"lab", <<"pair", Var(1), Var(2)>>, <<"pair", Ob(2), Var(1)>>>>
EX == INSTANCE Expr
        WITH Oprs <- {"f", "g", "k", "q"}, Scoping <- {"q"}, MaxNodes <- 5,
             Qcode <- <<"u", "w", "e", "n">> @@ [x \in {11, 12} |-> "w"] @@ [x \in {13, 14} |-> "u"],
             Letter <- <<"uvw", "xyz", "abc">>,
             Leaves <- {Var(1), Var(2), Var(4), EC, Ob(1), Ob(3), Lab, <<"seq", Var(1), Var(2)>>,
                        <<"set", Var(1), Ob(2)>>},
             Exprs <- {Var(1), Gof(Var(1), Var(1)), Gof(Ob(1), Gof(Ob(2), Var(2))), Fof(Gof(Var(2), EC))}

\* The closed expressions of n occurrences, inside b binders, and some larger
\* ones where loops are unfolded or abstractions are used in loops.
RECURSIVE Closed(_, _, _)
Closed(n, b, below_mu) ==
    IF n < 1 THEN {}
    ELSE {e \in {C0} \cup {<<"h", i>> : i \in 0..(b - 1)} : n = 1 /\ ~(below_mu /\ e # C0)}
         \cup {Fof(e) : e \in Closed(n - 1, b, FALSE)}
         \cup {<<"l", e>> : e \in Closed(n - 1, b + 1, FALSE)}
         \cup {<<"m", e>> : e \in IF below_mu THEN {} ELSE Closed(n - 1, b + 1, TRUE)}
         \cup UNION {{Gof(d, e) : d \in Closed(k, b, FALSE), e \in Closed(n - 1 - k, b, FALSE)} :
                         k \in 1..(n - 2)}

Mu(e) == <<"m", e>>
Lam(e) == <<"l", e>>
H(i) == <<"h", i>>
X0 == <<"x">>
FO == INSTANCE Fold
        WITH Depth <- 6,
             Exprs <- UNION {Closed(n, 0, FALSE) : n \in 1..5}
                      \cup {Gof(Mu(Fof(H(0))), Mu(Fof(Fof(H(0))))),
                            Mu(Gof(X0, Gof(X0, H(0)))), Mu(Gof(H(0), Mu(Gof(H(1), H(0))))),
                            Mu(Gof(Fof(H(0)), Gof(H(0), C0))), Gof(Mu(Gof(X0, H(0))), Mu(Gof(X0, Fof(H(0))))),
                            Mu(Lam(Gof(H(0), Lam(Gof(H(0), H(2)))))), Lam(Mu(Lam(Gof(H(2), Lam(Gof(H(1), H(2))))))),
                            Lam(Mu(Lam(Gof(H(2), Lam(Gof(H(3), H(2)))))))}

IO == INSTANCE TextIO
        WITH WRITE_THRESHOLD <- 2, IC_WRITE_BUFSIZE <- 3, INIT_CAP <- 2, tabstop <- 3,
             Writes <- {1, 3, 5}, MaxBytes <- 8, Texts <- {<<1>>, <<2>>, <<3>>, <<1, 2, 3>>, <<2, 3, 1, 2>>},
             Streams <- {<<6, 2, 3, 5, 1, 4, 2, 3>>, <<2, 3, 4, 5, 1>>}

SmallTexts == UNION {[1..n -> {1, 3, 5}] : n \in 0..3} \cup {<<6>>, <<1, 4, 6>>, <<6, 6, 4>>, <<1, 3, 2, 5, 3, 2>>, <<2, 1>>, <<7, 6, 7>>}
SR == INSTANCE Str
        WITH Names <- 1..3, Start <- <<<<1, 3>>, <<2>>>>, Arrays <- {<<2>>}, MaxLen <- 3, MaxSteps <- 3,
             Texts <- SmallTexts

-----------------------------------------------------------------------------
allvars == <<vars, what, con, ref>>

ValuesInit ==
    /\ Init
    /\ \/ what = "calls" /\ con = << >> /\ ref = << >> /\ \A t \in Threads : tpri[t] = PriMax
       \/ what = "priorities" /\ con = << >> /\ ref = << >>
       \/ what = "subst" /\ SU!Init
       \/ what = "atree" /\ AT!Init
       \/ what = "ltree" /\ LT!Init
       \/ what = "ltree2" /\ LT2!Init
       \/ what = "ssfn" /\ SF!Init
       \/ what = "ssfnw" /\ SFW!Init
       \/ what = "fold" /\ FO!Init
       \/ what = "sink" /\ IO!InitSink
       \/ what = "source" /\ IO!InitSource
       \/ what = "expr" /\ EX!Init
       \/ what = "str" /\ SR!Init
    /\ what \notin {"calls", "priorities"} => \A t \in Threads : tpri[t] = 0 /\ pc[t] = "absent"

\* Threads keep their static priorities, and two threads enter no queue but to
\* run its calls.
CallsNext ==
    /\ Next
    /\ entries' = entries => tpri' = tpri
    /\ \A t \in Threads :
           Len(entries'[t]) > Len(entries[t]) =>
               pc'[t] = "run" \/ \E u \in Threads : pc[u] = "absent"

ValuesNext ==
    /\ UNCHANGED what
    /\ \/ what = "calls" /\ CallsNext /\ UNCHANGED <<con, ref>>
       \/ what = "priorities" /\ Next /\ next' <= 2 /\ UNCHANGED <<con, ref>>
       \/ /\ UNCHANGED vars
          /\ \/ what = "expr" /\ EX!Next
             \/ what = "subst" /\ SU!Next
             \/ what = "atree" /\ AT!Next
             \/ what = "ltree" /\ LT!Next
             \/ what = "ltree2" /\ LT2!Next
             \/ what = "ssfn" /\ SF!Next
             \/ what = "ssfnw" /\ SFW!Next
             \/ what = "fold" /\ FO!Next
             \/ what = "sink" /\ IO!NextSink
             \/ what = "source" /\ IO!NextSource
             \/ what = "str" /\ SR!Next

ValuesSpec == ValuesInit /\ [][ValuesNext]_allvars

-----------------------------------------------------------------------------
(* The trees have the one form that their contents determine, variables    *)
(* that were identified form classes, folded expressions stay as they are, *)
(* text in buffers is neither lost nor repeated, and of the strings that   *)
(* share an array one at most may be extended in it, behind the others.    *)
WellFormed ==
    /\ what = "subst" => SU!Classes
    /\ what = "atree" => AT!Canonical
    /\ what = "ltree" => LT!Canonical
    /\ what = "ltree2" => LT2!Canonical
    /\ what = "ssfn" => SF!Canonical
    /\ what = "ssfnw" => SFW!Canonical
    /\ what = "fold" => FO!Stable
    /\ what = "sink" => IO!WriteEnds
    /\ what = "source" => IO!Conserved
    /\ what = "str" => SR!Apart
    /\ what = "expr" => EX!Occurrences /\ EX!Views

(* Searches, unification, matching and folding give what the definitions   *)
(* of these say.                                                           *)
Answers ==
    /\ what = "subst" => SU!MostGeneral /\ SU!Agree
    /\ what = "atree" => AT!Answers
    /\ what = "ltree" => LT!Answers
    /\ what = "ltree2" => LT2!Answers
    /\ what = "ssfn" => SF!Answers
    /\ what = "ssfnw" => SFW!Answers
    /\ what = "fold" => FO!Folds
    /\ what = "sink" => IO!NothingLost
    /\ what = "str" => SR!Independent
    /\ what = "source" => IO!LooksAhead
    /\ what = "expr" => EX!Searches /\ EX!Joined /\ EX!Matches /\ EX!Generalises /\ EX!FreeVariables
    /\ what = "expr" /\ con = EC => EX!LabellingsAreMaps

(* What is made of one or two values, and what is copied, agrees with what *)
(* they stand for.                                                         *)
Derived ==
    /\ what = "subst" => SU!Copies
    /\ what = "atree" => AT!Derived
    /\ what = "ltree" => LT!Derived /\ LT!Free
    /\ what = "ltree2" => LT2!Derived /\ LT2!Free
    /\ what = "ssfn" => SF!Derived
    /\ what = "ssfnw" => SFW!Derived
    /\ what = "fold" => FO!Derived
    /\ what = "source" => IO!Located
    /\ what = "str" /\ ref.steps = 0 => SR!Compared /\ SR!Parsed
    /\ what = "expr" => EX!Transforms /\ EX!Quantifies
    /\ what = "expr" /\ con = EC => EX!Contracts /\ EX!FinishedInterfaces
=============================================================================
