------------------------------ MODULE MCSched ------------------------------
(***************************************************************************)
(* What the threads that run scheduled calls share: the queues (Sched),    *)
(* the chain of thread states on which they find them (Tstate), and the    *)
(* results of the calls that are cached (Cached); and small instances.     *)
(* what says which of them a behaviour is about.                           *)
(***************************************************************************)
EXTENDS Sched

CONSTANTS
    Places,                                             \* of Tstate
    Callers, Keys, Hash, Old, OldCap, Gain, UnsetGain,  \* of Cached
    byte_cost_per_tick, TickWords, Bits, LongSize, NodeIds

VARIABLES
    what,
    next, prev, chain, live, at,    \* of Tstate
    bin, pc, ref, jobs              \* of Cached

ASSUME TstateAssumption == Main \in Places /\ None \notin Places

\* At any time there are finitely many nodes, of which 0 is none; the nodes
\* that a bin has at first are for different arguments.
ASSUME CachedAssumption ==
    /\ IsFiniteSet(NodeIds) /\ 0 \notin NodeIds
    /\ DOMAIN Old \subseteq NodeIds /\ \A n1, n2 \in DOMAIN Old : Old[n1] = Old[n2] => n1 = n2
    /\ OldCap \in Nat \ {0}
    /\ \A k \in Keys \cup Range(Old) : Hash[k] \in Nat

-----------------------------------------------------------------------------
Ring3 == CHOOSE f \in [Threads -> Threads] : \A t \in Threads : f[t] # t /\ f[f[t]] # t

\* A root with three subtasks, of which the first has subtasks of its own;
\* the second is always at normal priority.
Tree6 == <<<<2, 3, 4>>, <<5, 6>>, <<>>, <<>>, <<>>, <<>>>>
BNormal == [x \in Tasks |-> IF x = 3 THEN 0 ELSE Current]

\* Arguments in the four slots of a bin, so that one more makes it grow.
Identity == [k \in 0 .. 8 |-> k]
OldFour == <<3, 4, 5, 8>>

TS == INSTANCE Tstate WITH Null <- None
CD == INSTANCE Cached

tstatevars == <<next, prev, chain, live, at>>
cachedvars == <<bin, pc, ref, jobs>>
allvars == <<what, vars, tstatevars, cachedvars>>

PartsInit ==
    /\ Init /\ TS!Init /\ CD!Init
    /\ what \in {"sched", "tstate", "cached"}
    /\ what # "sched" => exeqpri[Main] = 0
    /\ what # "cached" => bin.size = 0

PartsNext ==
    /\ UNCHANGED what
    /\ \/ what = "sched" /\ Next /\ UNCHANGED <<tstatevars, cachedvars>>
       \/ what = "tstate" /\ TS!Next /\ UNCHANGED <<vars, cachedvars>>
       \/ what = "cached" /\ CD!Next /\ UNCHANGED <<vars, tstatevars>>

\* Every thread that can run is run; the pickup mutexes are granted fairly.
SchedStep(t) == what = "sched" /\ Step(t)
PartsSpec ==
    PartsInit /\ [][PartsNext]_allvars /\ \A t \in Threads : SF_vars(SchedStep(t))

-----------------------------------------------------------------------------
(* However tasks are scheduled, stolen and stacked, the root returns, all  *)
(* rings are empty and the workers rest.                                   *)
ComputationEnds == what = "sched" => Termination

(* The states of the running threads are one cycle, and a walk over them,  *)
(* which is made without a lock, comes back to its own thread, also from a *)
(* state that has left the chain or was reused in another position.        *)
WalkReturns == TS!Ring /\ TS!WalkReturns

(* The nodes of a bin are where a search finds them, one for each argument *)
(* and counted; one whose result is being computed stays in the bin, and   *)
(* has one thread or one scheduled call to compute it.                     *)
ComputedOnce == CD!Placed /\ CD!ComputedOnce

(* A cached call returns a node with its result and its gain, also when    *)
(* the node has been dropped from the bin meanwhile.                       *)
ReturnsComputed == CD!ReturnsComputed
=============================================================================
