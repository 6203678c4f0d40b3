---------------------------- MODULE CallsProofs ----------------------------
(***************************************************************************)
(* Proofs about what threads share beside their queues of calls, for any   *)
(* number of them: the chain of thread states, and the bins of cached      *)
(* calls.                                                                  *)
(***************************************************************************)
EXTENDS MCSched, FiniteSetTheorems, TLAPS

-----------------------------------------------------------------------------
(* The chain of thread states.                                             *)

TstateTypes ==
    /\ next \in [Places -> Places \cup {None}] /\ prev \in [Places -> Places \cup {None}]
    /\ chain = Main /\ Main \in live /\ live \in SUBSET Places
    /\ at \in [Places -> Places \cup {None}]

\* The links of running threads are mutual.
Mutual ==
    \A t \in live : /\ next[t] \in live /\ prev[t] \in live
                    /\ prev[next[t]] = t /\ next[prev[t]] = t

\* Nobody leaves while it walks, and walks do not meet places not used so far.
UsedPlaces == {p \in Places : next[p] # None}
Walkers ==
    /\ \A p \in UsedPlaces : next[p] \in UsedPlaces
    /\ \A t \in Places : at[t] # None => t \in live /\ at[t] \in UsedPlaces

\* Who follows next from a running thread meets all of them.
OneRing == \A S \in SUBSET Places : TS!Closed(S) /\ S \cap live # {} => live \subseteq S

\* Who follows next from any place, also one that was left, meets a running
\* thread.
BackToLive == \A S \in SUBSET Places : TS!Closed(S) /\ S # {} => S \cap live # {}

TstateInv == TstateTypes /\ Mutual /\ Walkers /\ OneRing /\ BackToLive

LEMMA TstateInit == PartsInit => TstateInv
  <1> SUFFICES ASSUME PartsInit PROVE TstateInv
    OBVIOUS
  <1> USE TstateAssumption
  <1>1. /\ next = [p \in Places |-> IF p = Main THEN Main ELSE None] /\ prev = next
        /\ chain = Main /\ live = {Main}
        /\ at = [p \in Places |-> None]
    BY DEF PartsInit, TS!Init
  <1>2. TstateTypes /\ Mutual /\ Walkers /\ OneRing
    BY <1>1 DEF TstateTypes, Mutual, Walkers, UsedPlaces, OneRing
  <1>3. BackToLive
    <2> SUFFICES ASSUME NEW S \in SUBSET Places, TS!Closed(S), S # {}, Main \notin S PROVE FALSE
      BY <1>1 DEF BackToLive
    <2>1. PICK p \in S : TRUE
      OBVIOUS
    <2>2. next[p] \in S /\ next[p] = None
      BY <1>1, <2>1 DEF TS!Closed
    <2> QED
      BY <2>2
  <1> QED
    BY <1>2, <1>3 DEF TstateInv

LEMMA ThreadEnters ==
  ASSUME TstateInv, NEW t \in Places, TS!Enter(t) PROVE TstateInv'
  <1> USE TstateAssumption
  <1>1. PICK p : p = prev[Main]
    OBVIOUS
  <1>2. /\ t \notin live /\ p \in live /\ next[p] = Main /\ Main \in live /\ p \in Places /\ p # t
        /\ live \subseteq Places
    BY <1>1 DEF TstateInv, TstateTypes, Mutual, TS!Enter
  <1>3. /\ next' = [next EXCEPT ![t] = Main, ![p] = t]
        /\ prev' = [prev EXCEPT ![t] = p, ![Main] = t]
        /\ chain' = Main /\ live' = live \cup {t} /\ at' = at
    BY <1>1 DEF TS!Enter, TS!tstate_init, TstateInv, TstateTypes
  <1>4. /\ next'[t] = Main /\ next'[p] = t
        /\ \A x \in Places \ {t, p} : next'[x] = next[x]
        /\ prev'[t] = p /\ prev'[Main] = t
        /\ \A x \in Places \ {t, Main} : prev'[x] = prev[x]
    BY <1>2, <1>3 DEF TstateInv, TstateTypes
  <1>5. TstateTypes'
    BY <1>2, <1>3 DEF TstateInv, TstateTypes
  <1>6. Mutual'
    BY <1>1, <1>2, <1>3, <1>4 DEF TstateInv, TstateTypes, Mutual
  <1>7. Walkers'
    BY <1>2, <1>3, <1>4 DEF TstateInv, TstateTypes, Walkers, UsedPlaces
  <1>8. OneRing'
    <2> SUFFICES ASSUME NEW S \in SUBSET Places, TS!Closed(S)', S \cap live' # {}
                 PROVE  live' \subseteq S
      BY DEF OneRing
    <2>1. \A x \in S : next'[x] \in S
      BY DEF TS!Closed
    <2>2. S \cap live # {}
      BY <1>2, <1>3, <1>4, <2>1
    <2>3. TS!Closed(S \cap live)
      <3> SUFFICES ASSUME NEW x \in S, x \in live PROVE next[x] \in S /\ next[x] \in live
        BY DEF TS!Closed
      <3> QED
        BY <1>2, <1>4, <2>1 DEF TstateInv, Mutual
    <2>4. live \subseteq S
      BY <1>2, <2>2, <2>3 DEF TstateInv, OneRing
    <2>5. next'[p] \in S
      BY <1>2, <2>1, <2>4
    <2> QED
      BY <1>3, <1>4, <2>4, <2>5
  <1>9. BackToLive'
    <2> SUFFICES ASSUME NEW S \in SUBSET Places, TS!Closed(S)', S # {}, S \cap live' = {}
                 PROVE  FALSE
      BY DEF BackToLive
    <2>1. TS!Closed(S)
      BY <1>2, <1>3, <1>4 DEF TS!Closed
    <2> QED
      BY <1>3, <2>1 DEF TstateInv, BackToLive
  <1> QED
    BY <1>5, <1>6, <1>7, <1>8, <1>9 DEF TstateInv

LEMMA ThreadLeaves ==
  ASSUME TstateInv, NEW t \in Places, TS!Leave(t) PROVE TstateInv'
  <1> USE TstateAssumption
  <1>1. PICK p : p = prev[t]
    OBVIOUS
  <1>2. PICK n : n = next[t]
    OBVIOUS
  <1>3. /\ t \in live /\ t # Main /\ at[t] = None /\ live \subseteq Places
        /\ p \in live /\ n \in live /\ next[p] = t /\ prev[n] = t
    BY <1>1, <1>2 DEF TstateInv, TstateTypes, Mutual, TS!Leave
  <1>4. n # t
    <2> SUFFICES ASSUME n = t PROVE FALSE
      OBVIOUS
    <2>1. TS!Closed({t})
      BY <1>2 DEF TS!Closed
    <2> QED
      BY <1>3, <2>1 DEF TstateInv, TstateTypes, OneRing
  <1>5. p # t
    BY <1>2, <1>3, <1>4
  <1>6. /\ next' = [next EXCEPT ![p] = n] /\ prev' = [prev EXCEPT ![n] = p]
        /\ chain' = chain /\ live' = live \ {t} /\ at' = at
    BY <1>1, <1>2, <1>4 DEF TS!Leave, TS!tstate_destruct
  <1>7. /\ next'[p] = n /\ \A x \in Places \ {p} : next'[x] = next[x]
        /\ prev'[n] = p /\ \A x \in Places \ {n} : prev'[x] = prev[x]
    BY <1>3, <1>6 DEF TstateInv, TstateTypes
  <1>8. TstateTypes'
    BY <1>3, <1>6 DEF TstateInv, TstateTypes
  <1>9. Mutual'
    BY <1>1, <1>2, <1>3, <1>4, <1>5, <1>6, <1>7 DEF TstateInv, TstateTypes, Mutual
  <1>10. Walkers'
    <2>1. n # None /\ next[p] # None /\ n \in UsedPlaces
      BY <1>3 DEF TstateInv, TstateTypes, Mutual, UsedPlaces
    <2>2. UsedPlaces' = UsedPlaces
      BY <1>3, <1>7, <2>1 DEF UsedPlaces
    <2>3. \A x \in UsedPlaces : next'[x] \in UsedPlaces
      BY <1>7, <2>1 DEF TstateInv, Walkers, UsedPlaces
    <2>4. \A x \in Places : at'[x] # None => x \in live' /\ at'[x] \in UsedPlaces
      BY <1>3, <1>6 DEF TstateInv, Walkers
    <2> QED
      BY <2>2, <2>3, <2>4 DEF Walkers
  <1>11. OneRing'
    <2> SUFFICES ASSUME NEW S \in SUBSET Places, TS!Closed(S)', S \cap live' # {}
                 PROVE  live' \subseteq S
      BY DEF OneRing
    <2>1. \A x \in S : next'[x] \in S
      BY DEF TS!Closed
    <2>2. PICK T : T = (S \cap live') \cup (IF p \in S THEN {t} ELSE {})
      OBVIOUS
    <2>3. T \subseteq Places /\ T \cap live # {}
      BY <1>3, <1>6, <2>2
    <2>4. TS!Closed(T)
      <3> SUFFICES ASSUME NEW x \in T PROVE next[x] \in T
        BY DEF TS!Closed
      <3>1. CASE x = t
        BY <1>2, <1>3, <1>4, <1>6, <1>7, <2>1, <2>2, <3>1
      <3>2. CASE x = p
        BY <1>3, <1>5, <1>6, <2>2, <3>2
      <3>3. CASE x # t /\ x # p
        <4>1. x \in S /\ x \in live /\ next'[x] = next[x] /\ next[x] \in live
          BY <1>3, <1>6, <1>7, <2>2, <3>3 DEF TstateInv, Mutual
        <4>2. next[x] # t
          BY <1>1, <3>3, <4>1 DEF TstateInv, Mutual
        <4> QED
          BY <1>6, <2>1, <2>2, <4>1, <4>2
      <3> QED
        BY <3>1, <3>2, <3>3
    <2>5. live \subseteq T
      BY <2>3, <2>4 DEF TstateInv, OneRing
    <2> QED
      BY <1>6, <2>2, <2>5
  <1>12. BackToLive'
    <2> SUFFICES ASSUME NEW S \in SUBSET Places, TS!Closed(S)', S # {}, S \cap live' = {}
                 PROVE  FALSE
      BY DEF BackToLive
    <2>1. p \notin S
      BY <1>3, <1>5, <1>6
    <2>2. TS!Closed(S)
      BY <1>7, <2>1 DEF TS!Closed
    <2>3. t \in S
      BY <1>6, <2>2 DEF TstateInv, BackToLive
    <2>4. n \in S
      BY <1>2, <1>3, <2>2, <2>3 DEF TS!Closed
    <2> QED
      BY <1>3, <1>4, <1>6, <2>4
  <1> QED
    BY <1>8, <1>9, <1>10, <1>11, <1>12 DEF TstateInv

LEMMA TstateNext == TstateInv /\ [PartsNext]_allvars => TstateInv'
  <1> SUFFICES ASSUME TstateInv, [PartsNext]_allvars PROVE TstateInv'
    OBVIOUS
  <1> USE TstateAssumption
  <1>1. ASSUME TS!Next PROVE TstateInv'
    <2>1. PICK t \in Places : TS!Enter(t) \/ TS!Leave(t) \/ TS!WalkBegin(t) \/ TS!WalkNext(t)
      BY <1>1 DEF TS!Next
    <2>2. CASE TS!Enter(t)
      BY <2>2, ThreadEnters
    <2>3. CASE TS!Leave(t)
      BY <2>3, ThreadLeaves
    <2>4. CASE TS!WalkBegin(t) \/ TS!WalkNext(t)
      <3>1. UNCHANGED <<next, prev, chain, live>>
        BY <2>4 DEF TS!WalkBegin, TS!WalkNext
      <3>2. Mutual' /\ OneRing' /\ BackToLive'
        BY <3>1 DEF TstateInv, Mutual, OneRing, BackToLive, TS!Closed
      <3>3. t \in live
        BY <2>4 DEF TS!WalkBegin, TS!WalkNext, TstateInv, Walkers
      <3>4. t \in UsedPlaces
        BY <3>3 DEF UsedPlaces, TstateInv, TstateTypes, Mutual
      <3>5. PICK x \in UsedPlaces \cup {None} : at' = [at EXCEPT ![t] = x]
        <4>1. CASE TS!WalkBegin(t)
          BY <3>4, <4>1 DEF TS!WalkBegin
        <4>2. CASE TS!WalkNext(t)
          <5>1. at[t] \in UsedPlaces /\ next[at[t]] \in UsedPlaces
            BY <4>2 DEF TS!WalkNext, TstateInv, Walkers
          <5> QED
            BY <4>2, <5>1 DEF TS!WalkNext, TS!cuflow_tstate_next
        <4> QED
          BY <2>4, <4>1, <4>2
      <3>6. TstateTypes' /\ Walkers'
        BY <3>1, <3>3, <3>5 DEF TstateInv, TstateTypes, Walkers, UsedPlaces
      <3> QED
        BY <3>2, <3>6 DEF TstateInv
    <2> QED
      BY <2>1, <2>2, <2>3, <2>4
  <1>2. ASSUME UNCHANGED tstatevars PROVE TstateInv'
    BY <1>2 DEF tstatevars, TstateInv, TstateTypes, Mutual, Walkers, UsedPlaces, OneRing, BackToLive,
                TS!Closed
  <1> QED
    BY <1>1, <1>2 DEF PartsNext, allvars

\* A walk over the thread states, made without a lock, comes back to its own
\* thread, whoever enters and leaves meanwhile; the running threads are one
\* ring.
THEOREM WalksReturn == PartsSpec => []WalkReturns
  <1> USE TstateAssumption
  <1>1. TstateInv => WalkReturns
    <2> SUFFICES ASSUME TstateInv PROVE WalkReturns
      OBVIOUS
    <2>1. ASSUME NEW S \in SUBSET (Places \cup {None}), TS!Closed(S), NEW p \in UsedPlaces, p \in S
          PROVE  live \subseteq S
      <3>1. PICK T : T = S \cap UsedPlaces
        OBVIOUS
      <3>2. T \subseteq Places /\ p \in T
        BY <2>1, <3>1 DEF UsedPlaces
      <3>3. TS!Closed(T)
        BY <2>1, <3>1 DEF TS!Closed, TstateInv, Walkers, UsedPlaces
      <3> QED
        BY <3>1, <3>2, <3>3 DEF TstateInv, BackToLive, OneRing
    <2>2. live \subseteq UsedPlaces
      BY DEF TstateInv, TstateTypes, Mutual, UsedPlaces
    <2>3. TS!Ring
      BY <2>1, <2>2 DEF TS!Ring, TS!Leads, TstateInv, TstateTypes, Mutual
    <2>4. TS!WalkReturns
      BY <2>1 DEF TS!WalkReturns, TS!Leads, TstateInv, Walkers
    <2> QED
      BY <2>3, <2>4 DEF WalkReturns
  <1>2. TstateInv /\ [PartsNext]_allvars => TstateInv'
    BY TstateNext
  <1>3. PartsInit => TstateInv
    BY TstateInit
  <1> QED
    BY <1>1, <1>2, <1>3, PTL DEF PartsSpec

-----------------------------------------------------------------------------
(* The bin of cached calls.                                                *)

NodeFields == {"key", "cdisj", "done", "access_ticks", "access_function", "access_gain"}
BinFields == {"head_arr", "size", "access_count", "ticks", "node"}
Same(x, y) == x.key = y.key /\ x.cdisj = y.cdisj /\ x.done = y.done /\ x.access_gain = y.access_gain

\* A bin of c slots, as it is between the operations on it.
BinSlots(b, c) ==
    /\ DOMAIN b = BinFields /\ c \in Nat \ {0} /\ DOMAIN b.head_arr = 0 .. c - 1
    /\ DOMAIN b.node \subseteq NodeIds
    /\ \A n \in DOMAIN b.node : DOMAIN b.node[n] = NodeFields /\ Hash[b.node[n].key] \in Nat
    /\ \A i \in 0 .. c - 1 : b.head_arr[i] \subseteq DOMAIN b.node
    /\ \A i \in 0 .. c - 1 : \A n \in b.head_arr[i] : Hash[b.node[n].key] % c = i
Counted(b) ==
    /\ b.size = Cardinality(CD!InBin(b))
    /\ \A n1, n2 \in CD!InBin(b) : b.node[n1].key = b.node[n2].key => n1 = n2
Sound(b) == Counted(b) /\ \E c \in Nat \ {0} : BinSlots(b, c)

\* The nodes of r are those of b, in the bin if they were and unless they
\* have been computed and dropped.
Keeps(b, r) ==
    /\ Sound(r) /\ DOMAIN r.node = DOMAIN b.node
    /\ \A n \in DOMAIN b.node : Same(r.node[n], b.node[n])
    /\ CD!InBin(r) \subseteq CD!InBin(b)
    /\ \A n \in CD!InBin(b) \ CD!InBin(r) : b.node[n].cdisj = 0

\* The bins and the proofs count with the same operator.
LEMMA SameCardinality == \A S : CD!Cardinality(S) = Cardinality(S)
  BY Zenon DEF CD!Cardinality, Cardinality

LEMMA Modulo == ASSUME NEW a \in Nat, NEW c \in Nat \ {0} PROVE a % c \in 0 .. c - 1
  OBVIOUS

LEMMA InSlots ==
  ASSUME NEW b, NEW c, BinSlots(b, c)
  PROVE  /\ CD!Mask(b) = c - 1 /\ CD!Mask(b) + 1 = c
         /\ CD!InBin(b) = UNION {b.head_arr[i] : i \in 0 .. c - 1}
         /\ CD!InBin(b) \subseteq DOMAIN b.node
         /\ IsFiniteSet(CD!InBin(b)) /\ Cardinality(CD!InBin(b)) \in Nat
         /\ \A n \in CD!InBin(b) : n \in b.head_arr[Hash[b.node[n].key] % c]
  <1>1. c \in Nat \ {0} /\ DOMAIN b.head_arr = 0 .. c - 1
    BY DEF BinSlots
  <1>2. Cardinality(0 .. c - 1) = c
    BY <1>1, FS_Interval
  <1>3. CD!Mask(b) = c - 1 /\ CD!Mask(b) + 1 = c
    <2>1. Cardinality(DOMAIN b.head_arr) = c
      BY ONLY <1>1, <1>2
    <2>2. CD!Mask(b) = c - 1
      BY ONLY <2>1, SameCardinality DEF CD!Mask
    <2> QED
      BY ONLY <1>1, <2>2
  <1>4. CD!InBin(b) = UNION {b.head_arr[i] : i \in 0 .. c - 1}
    BY <1>1 DEF CD!InBin
  <1>5. CD!InBin(b) \subseteq DOMAIN b.node /\ DOMAIN b.node \subseteq NodeIds
    BY <1>4 DEF BinSlots
  <1>6. IsFiniteSet(CD!InBin(b)) /\ Cardinality(CD!InBin(b)) \in Nat
    BY <1>5, FS_Subset, FS_CardinalityType, CachedAssumption
  <1>7. \A n \in CD!InBin(b) : n \in b.head_arr[Hash[b.node[n].key] % c]
    BY <1>4 DEF BinSlots
  <1> QED
    BY <1>3, <1>4, <1>5, <1>6, <1>7

\* A bin is resized to any number of slots.
LEMMA ResizeKeeps ==
  ASSUME NEW b, Sound(b), NEW c \in Nat \ {0}
  PROVE  LET r == CD!fcachebin_resize_locked(b, c)
         IN  Keeps(b, r) /\ CD!InBin(r) = CD!InBin(b) /\ r.node = b.node
  <1>1. PICK d \in Nat \ {0} : BinSlots(b, d)
    BY DEF Sound
  <1>2. PICK r : r = CD!fcachebin_resize_locked(b, c)
    OBVIOUS
  <1>3. /\ DOMAIN r = BinFields /\ r.node = b.node /\ r.size = b.size
        /\ r.head_arr = [i \in 0 .. c - 1 |-> {n \in CD!InBin(b) : Hash[b.node[n].key] % c = i}]
    BY <1>1, <1>2 DEF CD!fcachebin_resize_locked, BinSlots, BinFields
  <1>4. CD!InBin(b) \subseteq DOMAIN b.node
    BY <1>1, InSlots
  <1>5. BinSlots(r, c)
    BY <1>1, <1>3, <1>4 DEF BinSlots
  <1>6. CD!InBin(r) = UNION {r.head_arr[i] : i \in 0 .. c - 1}
    BY <1>5, InSlots
  <1>7. \A n \in CD!InBin(b) : Hash[b.node[n].key] \in Nat
    BY <1>1, <1>4 DEF BinSlots
  <1>8. \A n \in CD!InBin(b) : n \in r.head_arr[Hash[b.node[n].key] % c] /\ Hash[b.node[n].key] % c \in 0 .. c - 1
    BY <1>3, <1>7, Modulo
  <1>9. CD!InBin(b) \subseteq CD!InBin(r)
    BY <1>6, <1>8
  <1>10. CD!InBin(r) \subseteq CD!InBin(b)
    BY <1>3, <1>6
  <1>11. Counted(r)
    <2>1. CD!InBin(r) = CD!InBin(b)
      BY <1>9, <1>10
    <2> QED
      BY <1>3, <2>1 DEF Counted, Sound
  <1> QED
    BY <1>2, <1>3, <1>5, <1>9, <1>10, <1>11 DEF Keeps, Sound, Same

LEMMA NormaliseKeeps ==
  ASSUME NEW x, DOMAIN x = NodeFields, NEW ticks
  PROVE  LET y == CD!node_normalise_access(x, ticks) IN DOMAIN y = NodeFields /\ Same(y, x)
  BY DEF CD!node_normalise_access, NodeFields, Same

LEMMA KeepsTransitive == ASSUME NEW b, NEW r, NEW s, Keeps(b, r), Keeps(r, s) PROVE Keeps(b, s)
  <1>0. Sound(s) /\ DOMAIN s.node = DOMAIN b.node
    BY DEF Keeps
  <1>1. \A n \in DOMAIN b.node : Same(s.node[n], b.node[n])
    BY DEF Keeps, Same
  <1>2. CD!InBin(s) \subseteq CD!InBin(b) /\ CD!InBin(r) \subseteq DOMAIN r.node
    BY InSlots DEF Keeps, Sound
  <1>3. \A n \in CD!InBin(b) \ CD!InBin(s) : b.node[n].cdisj = 0
    BY <1>2 DEF Keeps, Same
  <1> QED
    BY <1>0, <1>1, <1>2, <1>3 DEF Keeps

LEMMA PrunedKeeps == ASSUME NEW b, Sound(b) PROVE Keeps(b, CD!Pruned(b))
  <1>1. PICK c \in Nat \ {0} : BinSlots(b, c)
    BY DEF Sound
  <1>2. PICK normal : normal = [n \in DOMAIN b.node |->
                                   IF n \in CD!InBin(b) THEN CD!node_normalise_access(b.node[n], b.ticks)
                                   ELSE b.node[n]]
    OBVIOUS
  <1>3. PICK drop : drop = {n \in CD!InBin(b) : CD!node_drop_condition(normal[n])}
    OBVIOUS
  <1>4. PICK r : r = CD!Pruned(b)
    OBVIOUS
  <1>5. /\ DOMAIN r = BinFields /\ r.node = normal /\ r.size = b.size - Cardinality(drop)
        /\ r.head_arr = [i \in DOMAIN b.head_arr |-> b.head_arr[i] \ drop]
    <2>1. r = [b EXCEPT !.node = normal, !.size = @ - Cardinality(drop),
                        !.head_arr = [i \in DOMAIN b.head_arr |-> b.head_arr[i] \ drop]]
      BY ONLY <1>2, <1>3, <1>4, SameCardinality DEF CD!Pruned
    <2> QED
      BY <1>1, <2>1 DEF BinSlots, BinFields
  <1>6. ASSUME NEW n \in DOMAIN b.node PROVE DOMAIN normal[n] = NodeFields /\ Same(normal[n], b.node[n])
    <2>1. DOMAIN b.node[n] = NodeFields
      BY <1>1 DEF BinSlots
    <2>2. CASE n \in CD!InBin(b)
      BY <1>2, <2>1, <2>2, NormaliseKeeps
    <2>3. CASE n \notin CD!InBin(b)
      BY <1>2, <2>1, <2>3 DEF Same
    <2> QED
      BY <2>2, <2>3
  <1>7. /\ CD!InBin(b) \subseteq DOMAIN b.node /\ IsFiniteSet(CD!InBin(b))
        /\ CD!InBin(b) = UNION {b.head_arr[i] : i \in 0 .. c - 1}
    BY <1>1, InSlots
  <1>8. \A n \in drop : n \in CD!InBin(b) /\ b.node[n].cdisj = 0
    BY <1>3, <1>6, <1>7 DEF CD!node_drop_condition, Same
  <1>9. DOMAIN r.node = DOMAIN b.node
    BY <1>2, <1>5
  <1>10. DOMAIN r.head_arr = 0 .. c - 1 /\ \A i \in 0 .. c - 1 : r.head_arr[i] = b.head_arr[i] \ drop
    BY <1>1, <1>5 DEF BinSlots
  <1>11. BinSlots(r, c)
    <2>1. \A n \in DOMAIN r.node : DOMAIN r.node[n] = NodeFields /\ Hash[r.node[n].key] \in Nat
      BY <1>1, <1>5, <1>6, <1>9 DEF BinSlots, Same
    <2>2. \A i \in 0 .. c - 1 : \A n \in r.head_arr[i] :
              n \in DOMAIN r.node /\ Hash[r.node[n].key] % c = i
      BY <1>1, <1>5, <1>6, <1>9, <1>10 DEF BinSlots, Same
    <2> QED
      BY <1>1, <1>5, <1>9, <1>10, <2>1, <2>2 DEF BinSlots
  <1>12. CD!InBin(r) = CD!InBin(b) \ drop
    <2>1. CD!InBin(r) = UNION {r.head_arr[i] : i \in 0 .. c - 1}
      BY <1>11, InSlots
    <2> QED
      BY <1>7, <1>10, <2>1
  <1>13. r.size = Cardinality(CD!InBin(r))
    <2>1. Cardinality(CD!InBin(b) \ drop) = Cardinality(CD!InBin(b)) - Cardinality(CD!InBin(b) \cap drop)
      BY <1>7, FS_Difference
    <2>2. CD!InBin(b) \cap drop = drop
      BY <1>3
    <2> QED
      BY <1>5, <1>12, <2>1, <2>2 DEF Sound, Counted
  <1>14. \A n1, n2 \in CD!InBin(r) : r.node[n1].key = r.node[n2].key => n1 = n2
    BY <1>5, <1>6, <1>7, <1>12 DEF Sound, Counted, Same
  <1>15. Sound(r)
    BY <1>11, <1>13, <1>14 DEF Sound, Counted
  <1>16. \A n \in DOMAIN b.node : Same(r.node[n], b.node[n])
    BY <1>5, <1>6
  <1>17. \A n \in CD!InBin(b) \ CD!InBin(r) : b.node[n].cdisj = 0
    BY <1>8, <1>12
  <1> QED
    BY <1>4, <1>9, <1>12, <1>15, <1>16, <1>17 DEF Keeps

\* Only the access counter of a bin differs.
LEMMA CountKeeps ==
  ASSUME NEW b, Sound(b), NEW r, DOMAIN r = BinFields,
         r.head_arr = b.head_arr, r.size = b.size, DOMAIN r.node = DOMAIN b.node,
         \A n \in DOMAIN b.node : DOMAIN r.node[n] = NodeFields /\ Same(r.node[n], b.node[n])
  PROVE  Keeps(b, r) /\ CD!InBin(r) = CD!InBin(b)
  <1>1. PICK c \in Nat \ {0} : BinSlots(b, c)
    BY DEF Sound
  <1>2. CD!InBin(r) = CD!InBin(b)
    BY DEF CD!InBin
  <1>3. CD!InBin(b) \subseteq DOMAIN b.node
    BY <1>1, InSlots
  <1>4. BinSlots(r, c)
    BY <1>1 DEF BinSlots, Same
  <1>5. Counted(r)
    BY <1>2, <1>3 DEF Sound, Counted, Same
  <1> QED
    BY <1>2, <1>4, <1>5 DEF Keeps, Sound

LEMMA PruneKeeps == ASSUME NEW b, Sound(b) PROVE Keeps(b, CD!fcachebin_prune_locked(b))
  <1>1. PICK r : r = CD!Pruned(b)
    OBVIOUS
  <1>2. Keeps(b, r) /\ Sound(r)
    BY <1>1, PrunedKeeps DEF Keeps
  <1>3. PICK c \in Nat \ {0} : BinSlots(r, c)
    BY <1>2 DEF Sound
  <1>4. CD!Mask(r) = c - 1
    BY <1>3, InSlots
  <1>5. PICK s : s = IF 2 * r.size < CD!Mask(r) /\ CD!Mask(r) \div 2 > 1
                     THEN CD!fcachebin_resize_locked(r, (CD!Mask(r) + 1) \div 2) ELSE r
    OBVIOUS
  <1>6. Keeps(b, s)
    <2>1. CASE s = r
      BY <1>2, <2>1
    <2>2. CASE s # r
      <3>1. CD!Mask(r) \div 2 > 1 /\ s = CD!fcachebin_resize_locked(r, (CD!Mask(r) + 1) \div 2)
        BY <1>5, <2>2
      <3>2. (CD!Mask(r) + 1) \div 2 \in Nat \ {0}
        BY ONLY <1>3, <1>4, <3>1
      <3>3. Keeps(r, s)
        BY <1>2, <3>1, <3>2, ResizeKeeps
      <3> QED
        BY <1>2, <3>3, KeepsTransitive
    <2> QED
      BY <2>1, <2>2
  <1>7. Sound(s)
    BY <1>6 DEF Keeps
  <1>8. DOMAIN s = BinFields /\ \A n \in DOMAIN s.node : DOMAIN s.node[n] = NodeFields
    BY <1>7 DEF Sound, BinSlots
  <1>9. PICK u : u = [s EXCEPT !.access_count = 0]
    OBVIOUS
  <1>10. Keeps(s, u)
    <2>1. /\ DOMAIN u = BinFields /\ u.head_arr = s.head_arr /\ u.size = s.size /\ u.node = s.node
      BY <1>8, <1>9 DEF BinFields
    <2> QED
      BY <1>7, <1>8, <2>1, CountKeeps DEF Same
  <1>11. u = CD!fcachebin_prune_locked(b)
    BY <1>1, <1>5, <1>9 DEF CD!fcachebin_prune_locked
  <1> QED
    BY <1>6, <1>10, <1>11, KeepsTransitive

\* A call finds a node.
LEMMA HitKeeps ==
  ASSUME NEW b, Sound(b), NEW n \in DOMAIN b.node
  PROVE  Keeps(b, CD!Hit(b, n))
  <1>1. DOMAIN b = BinFields /\ \A m \in DOMAIN b.node : DOMAIN b.node[m] = NodeFields
    BY DEF Sound, BinSlots
  <1>2. PICK x : x = CD!Used(b.node[n], b.ticks)
    OBVIOUS
  <1>3. DOMAIN x = NodeFields /\ Same(x, b.node[n])
    <2>1. PICK y : y = CD!node_normalise_access(b.node[n], b.ticks)
      OBVIOUS
    <2>2. DOMAIN y = NodeFields /\ Same(y, b.node[n])
      BY <1>1, <2>1, NormaliseKeeps
    <2>3. x = [y EXCEPT !.access_function = (@ + b.node[n].access_gain) % CD!Words]
      BY ONLY <1>2, <2>1 DEF CD!Used
    <2> QED
      BY <2>2, <2>3 DEF NodeFields, Same
  <1>4. PICK r : r = [b EXCEPT !.node[n] = CD!Used(@, b.ticks), !.access_count = @ + 1]
    OBVIOUS
  <1>5. /\ DOMAIN r = BinFields /\ r.head_arr = b.head_arr /\ r.size = b.size
        /\ DOMAIN r.node = DOMAIN b.node
        /\ \A m \in DOMAIN b.node : r.node[m] = IF m = n THEN x ELSE b.node[m]
    BY <1>1, <1>2, <1>4 DEF BinFields
  <1>6. Keeps(b, r) /\ Sound(r)
    BY <1>1, <1>3, <1>5, CountKeeps DEF Same, Keeps
  <1>7. CD!Hit(b, n) = IF r.access_count > CD!Mask(r) THEN CD!fcachebin_prune_locked(r) ELSE r
    BY <1>4 DEF CD!Hit
  <1>8. Keeps(r, CD!fcachebin_prune_locked(r))
    BY <1>6, PruneKeeps
  <1> QED
    BY <1>6, <1>7, <1>8, KeepsTransitive

\* A call finds none, and puts a node into the bin.
LEMMA MissAdds ==
  ASSUME NEW b, Sound(b), NEW k, Hash[k] \in Nat, NEW n \in NodeIds \ DOMAIN b.node,
         CD!Found(b, k) = {}
  PROVE  LET r == CD!Miss(b, k, n)
         IN  /\ Sound(r) /\ DOMAIN r.node = DOMAIN b.node \cup {n}
             /\ CD!InBin(r) = CD!InBin(b) \cup {n}
             /\ r.node[n] = CD!NewNode(b, k)
             /\ \A m \in DOMAIN b.node : r.node[m] = b.node[m]
  <1>1. PICK c \in Nat \ {0} : BinSlots(b, c)
    BY DEF Sound
  <1>2. PICK r : r = [b EXCEPT !.node = [m \in DOMAIN @ \cup {n} |->
                                             IF m = n THEN CD!NewNode(b, k) ELSE @[m]],
                               !.head_arr[Hash[k] % (CD!Mask(b) + 1)] = {n} \cup @,
                               !.size = @ + 1]
    OBVIOUS
  <1>3. PICK h : h = Hash[k] % c
    OBVIOUS
  <1>4. h \in 0 .. c - 1 /\ CD!Mask(b) + 1 = c
    BY <1>1, <1>3, Modulo, InSlots
  <1>5. /\ DOMAIN r = BinFields /\ r.size = b.size + 1
        /\ r.node = [m \in DOMAIN b.node \cup {n} |-> IF m = n THEN CD!NewNode(b, k) ELSE b.node[m]]
        /\ DOMAIN r.head_arr = 0 .. c - 1
        /\ \A i \in 0 .. c - 1 : r.head_arr[i] = IF i = h THEN {n} \cup b.head_arr[i] ELSE b.head_arr[i]
    BY <1>1, <1>2, <1>3, <1>4 DEF BinFields, BinSlots
  <1>6. /\ DOMAIN r.node = DOMAIN b.node \cup {n} /\ r.node[n] = CD!NewNode(b, k)
        /\ \A m \in DOMAIN b.node : r.node[m] = b.node[m]
    BY <1>5
  <1>7. r.node[n].key = k /\ DOMAIN r.node[n] = NodeFields
    BY <1>6 DEF CD!NewNode, NodeFields
  <1>8. BinSlots(r, c)
    <2>1. \A m \in DOMAIN r.node : DOMAIN r.node[m] = NodeFields /\ Hash[r.node[m].key] \in Nat
      BY <1>1, <1>6, <1>7 DEF BinSlots
    <2>2. \A i \in 0 .. c - 1 : \A m \in r.head_arr[i] :
              m \in DOMAIN r.node /\ Hash[r.node[m].key] % c = i
      <3> SUFFICES ASSUME NEW i \in 0 .. c - 1, NEW m \in r.head_arr[i]
                   PROVE  m \in DOMAIN r.node /\ Hash[r.node[m].key] % c = i
        OBVIOUS
      <3>1. CASE m = n /\ i = h
        BY <1>3, <1>6, <1>7, <3>1
      <3>2. CASE ~ (m = n /\ i = h)
        <4>1. m \in b.head_arr[i]
          BY <1>5, <3>2
        <4>2. m \in DOMAIN b.node /\ Hash[b.node[m].key] % c = i
          BY <1>1, <4>1 DEF BinSlots
        <4> QED
          BY <1>6, <4>2
      <3> QED
        BY <3>1, <3>2
    <2>3. DOMAIN r.node \subseteq NodeIds
      BY <1>1, <1>6 DEF BinSlots
    <2> QED
      BY <1>1, <1>5, <2>1, <2>2, <2>3 DEF BinSlots
  <1>9. /\ CD!InBin(b) \subseteq DOMAIN b.node /\ IsFiniteSet(CD!InBin(b))
        /\ Cardinality(CD!InBin(b)) \in Nat
        /\ CD!InBin(b) = UNION {b.head_arr[i] : i \in 0 .. c - 1}
        /\ \A m \in CD!InBin(b) : m \in b.head_arr[Hash[b.node[m].key] % c]
    BY <1>1, InSlots
  <1>10. CD!InBin(r) = CD!InBin(b) \cup {n}
    <2>1. CD!InBin(r) = UNION {r.head_arr[i] : i \in 0 .. c - 1}
      BY <1>8, InSlots
    <2>2. r.head_arr[h] = {n} \cup b.head_arr[h]
      BY <1>4, <1>5
    <2>3. \A i \in 0 .. c - 1 : b.head_arr[i] \subseteq r.head_arr[i] /\ r.head_arr[i] \subseteq b.head_arr[i] \cup {n}
      BY <1>5
    <2>4. CD!InBin(r) \subseteq CD!InBin(b) \cup {n}
      BY <1>9, <2>1, <2>3
    <2>5. CD!InBin(b) \subseteq CD!InBin(r)
      BY <1>9, <2>1, <2>3
    <2>6. n \in CD!InBin(r)
      BY <1>4, <2>1, <2>2
    <2> QED
      BY <2>4, <2>5, <2>6
  <1>11. r.size = Cardinality(CD!InBin(r))
    <2>1. n \notin CD!InBin(b)
      BY <1>9
    <2>2. Cardinality(CD!InBin(b) \cup {n}) = Cardinality(CD!InBin(b)) + 1
      BY <1>9, <2>1, FS_AddElement
    <2> QED
      BY <1>5, <1>10, <2>2 DEF Sound, Counted
  <1>12. \A m \in CD!InBin(b) : b.node[m].key # k
    <2>1. \A m \in b.head_arr[h] : b.node[m].key # k
      BY <1>3, <1>4 DEF CD!Found
    <2> QED
      BY <1>3, <1>9, <2>1
  <1>13. \A n1, n2 \in CD!InBin(r) : r.node[n1].key = r.node[n2].key => n1 = n2
    BY <1>6, <1>7, <1>9, <1>10, <1>12 DEF Sound, Counted
  <1>14. Sound(r)
    BY <1>8, <1>11, <1>13 DEF Sound, Counted
  <1>15. CD!Miss(b, k, n) = IF 3 * r.size > 4 * CD!Mask(r)
                            THEN CD!fcachebin_resize_locked(r, 2 * (CD!Mask(r) + 1)) ELSE r
    BY <1>2 DEF CD!Miss
  <1>16. CD!Mask(r) + 1 = c /\ 2 * c \in Nat \ {0}
    BY <1>8, InSlots
  <1>17. CASE CD!Miss(b, k, n) = r
    BY <1>6, <1>10, <1>14, <1>17
  <1>18. CASE CD!Miss(b, k, n) # r
    <2>1. CD!Miss(b, k, n) = CD!fcachebin_resize_locked(r, 2 * c)
      BY <1>15, <1>16, <1>18
    <2>2. PICK s : s = CD!fcachebin_resize_locked(r, 2 * c)
      OBVIOUS
    <2>3. Sound(s) /\ CD!InBin(s) = CD!InBin(r) /\ s.node = r.node
      BY <1>14, <1>16, <2>2, ResizeKeeps DEF Keeps
    <2> QED
      BY <1>6, <1>10, <2>1, <2>2, <2>3
  <1> QED
    BY <1>17, <1>18

-----------------------------------------------------------------------------
(* The calls of the threads.                                               *)

Labels == {"idle", "compute", "release", "wait", "promise", "return"}
Busy(p, r, t, n) == r[t] = n /\ p[t] \in {"compute", "release"}

\* With threads at p on the nodes r and the computations j scheduled, the
\* nodes of b that they refer to are there; one that is not computed is in
\* the bin and has one to compute it; one that is, has its gain.
Calls(b, p, r, j) ==
    /\ \A t \in Callers : p[t] # "idle" => r[t] \in DOMAIN b.node
    /\ j \subseteq DOMAIN b.node
    /\ \A n \in DOMAIN b.node :
        /\ b.node[n].cdisj \in {0, 1}
        /\ b.node[n].done => b.node[n].access_gain = Gain
        /\ b.node[n].cdisj = 0 => b.node[n].done /\ n \notin j
        /\ b.node[n].cdisj = 1 => n \in CD!InBin(b) /\ (n \in j \/ \E t \in Callers : Busy(p, r, t, n))
        /\ n \in j => \A t \in Callers : ~ Busy(p, r, t, n)
        /\ \A t, u \in Callers : Busy(p, r, t, n) /\ Busy(p, r, u, n) => t = u
    /\ \A t \in Callers :
        /\ p[t] \in {"compute", "release"} => b.node[r[t]].cdisj = 1
        /\ p[t] = "release" => b.node[r[t]].done
        /\ p[t] = "return" => b.node[r[t]].cdisj = 0

CachedInv ==
    /\ pc \in [Callers -> Labels] /\ ref \in [Callers -> NodeIds \cup {0}]
    /\ Sound(bin) /\ Calls(bin, pc, ref, jobs)

LEMMA CallsKept ==
  ASSUME NEW b, NEW p, NEW r, NEW j, NEW s, Sound(b), Calls(b, p, r, j), Keeps(b, s)
  PROVE  Calls(s, p, r, j)
  <1>1. CD!InBin(b) \subseteq DOMAIN b.node
    BY InSlots DEF Sound
  <1>2. DOMAIN s.node = DOMAIN b.node /\ \A n \in DOMAIN b.node : Same(s.node[n], b.node[n])
    BY DEF Keeps
  <1>3. \A n \in DOMAIN b.node : b.node[n].cdisj = 1 => n \in CD!InBin(s)
    BY DEF Keeps, Calls
  <1>4. ASSUME NEW n \in DOMAIN s.node
        PROVE  /\ s.node[n].cdisj \in {0, 1}
               /\ s.node[n].done => s.node[n].access_gain = Gain
               /\ s.node[n].cdisj = 0 => s.node[n].done /\ n \notin j
               /\ s.node[n].cdisj = 1 => n \in CD!InBin(s) /\ (n \in j \/ \E t \in Callers : Busy(p, r, t, n))
               /\ n \in j => \A t \in Callers : ~ Busy(p, r, t, n)
               /\ \A t, u \in Callers : Busy(p, r, t, n) /\ Busy(p, r, u, n) => t = u
    BY <1>2, <1>3 DEF Calls, Same
  <1>5. ASSUME NEW t \in Callers
        PROVE  /\ p[t] # "idle" => r[t] \in DOMAIN s.node
               /\ p[t] \in {"compute", "release"} => s.node[r[t]].cdisj = 1
               /\ p[t] = "release" => s.node[r[t]].done
               /\ p[t] = "return" => s.node[r[t]].cdisj = 0
    BY <1>2 DEF Calls, Same
  <1>6. j \subseteq DOMAIN s.node
    BY <1>2 DEF Calls
  <1> QED
    BY <1>4, <1>5, <1>6 DEF Calls

\* What nobody refers to is collected.
LEMMA Collected ==
  ASSUME NEW b, Sound(b), Calls(b, pc', ref', jobs'), CD!BinBecomes(b)
  PROVE  Sound(bin') /\ Calls(bin', pc', ref', jobs')
  <1>1. PICK c \in Nat \ {0} : BinSlots(b, c)
    BY DEF Sound
  <1>2. PICK held : held = CD!InBin(b) \cup {ref'[t] : t \in Callers} \cup jobs'
    OBVIOUS
  <1>3. PICK s : s = bin'
    OBVIOUS
  <1>4. s = [b EXCEPT !.node = [n \in DOMAIN b.node \cap held |-> b.node[n]]]
    BY <1>2, <1>3 DEF CD!BinBecomes
  <1>5. /\ DOMAIN s = BinFields /\ s.head_arr = b.head_arr /\ s.size = b.size
        /\ DOMAIN s.node = DOMAIN b.node \cap held
        /\ \A n \in DOMAIN s.node : s.node[n] = b.node[n]
    BY <1>1, <1>4 DEF BinSlots, BinFields
  <1>6. CD!InBin(s) = CD!InBin(b)
    BY <1>5 DEF CD!InBin
  <1>7. /\ CD!InBin(b) \subseteq DOMAIN b.node
        /\ CD!InBin(b) = UNION {b.head_arr[i] : i \in 0 .. c - 1}
    BY <1>1, InSlots
  <1>8. CD!InBin(b) \subseteq DOMAIN s.node
    BY <1>2, <1>5, <1>7
  <1>9. BinSlots(s, c)
    <2>1. \A i \in 0 .. c - 1 : b.head_arr[i] \subseteq DOMAIN s.node
      BY <1>7, <1>8
    <2> QED
      BY <1>1, <1>5, <2>1 DEF BinSlots
  <1>10. Counted(s)
    BY <1>5, <1>6, <1>8 DEF Sound, Counted
  <1>11. Calls(s, pc', ref', jobs')
    <2>1. jobs' \subseteq DOMAIN s.node
      BY <1>2, <1>5 DEF Calls
    <2>2. \A t \in Callers : pc'[t] # "idle" => ref'[t] \in DOMAIN s.node
      BY <1>2, <1>5 DEF Calls
    <2>3. \A n \in DOMAIN s.node : n \in DOMAIN b.node /\ s.node[n] = b.node[n]
      BY <1>5
    <2> QED
      BY <1>6, <2>1, <2>2, <2>3 DEF Calls
  <1> QED
    BY <1>3, <1>9, <1>10, <1>11 DEF Sound

\* One node of a bin is changed, but for its key.
LEMMA NodeChanges ==
  ASSUME NEW b, Sound(b), NEW n \in DOMAIN b.node, NEW x, DOMAIN x = NodeFields,
         x.key = b.node[n].key, NEW s, s = [b EXCEPT !.node[n] = x]
  PROVE  /\ Sound(s) /\ DOMAIN s.node = DOMAIN b.node /\ CD!InBin(s) = CD!InBin(b)
         /\ s.node[n] = x /\ \A m \in DOMAIN b.node \ {n} : s.node[m] = b.node[m]
  <1>1. PICK c \in Nat \ {0} : BinSlots(b, c)
    BY DEF Sound
  <1>2. /\ DOMAIN s = BinFields /\ s.head_arr = b.head_arr /\ s.size = b.size
        /\ DOMAIN s.node = DOMAIN b.node /\ s.node[n] = x
        /\ \A m \in DOMAIN b.node \ {n} : s.node[m] = b.node[m]
    BY <1>1 DEF BinSlots, BinFields
  <1>3. CD!InBin(s) = CD!InBin(b)
    BY <1>2 DEF CD!InBin
  <1>4. \A m \in DOMAIN b.node : s.node[m].key = b.node[m].key
    BY <1>2
  <1>5. CD!InBin(b) \subseteq DOMAIN b.node
    BY <1>1, InSlots
  <1>6. BinSlots(s, c)
    <2>1. \A m \in DOMAIN s.node : DOMAIN s.node[m] = NodeFields /\ Hash[s.node[m].key] \in Nat
      BY <1>1, <1>2, <1>4 DEF BinSlots
    <2> QED
      BY <1>1, <1>2, <1>4, <2>1 DEF BinSlots
  <1>7. Counted(s)
    BY <1>2, <1>3, <1>4, <1>5 DEF Sound, Counted
  <1> QED
    BY <1>2, <1>3, <1>6, <1>7 DEF Sound

\* What is found is in the bin.
LEMMA FoundThere ==
  ASSUME NEW b, Sound(b), NEW k \in Keys PROVE CD!Found(b, k) \subseteq DOMAIN b.node
  <1>1. PICK c \in Nat \ {0} : BinSlots(b, c)
    BY DEF Sound
  <1>2. CD!Mask(b) + 1 = c /\ Hash[k] % c \in 0 .. c - 1
    BY <1>1, InSlots, Modulo, CachedAssumption
  <1> QED
    BY <1>1, <1>2 DEF CD!Found, BinSlots

\* A thread that is idle, or becomes idle, and does not begin to compute.
LEMMA QuietMove ==
  ASSUME NEW b, NEW t \in Callers, NEW label \in {"idle", "wait", "promise"}, NEW n \in NodeIds \cup {0},
         pc \in [Callers -> Labels], ref \in [Callers -> NodeIds \cup {0}],
         Calls(b, pc, ref, jobs), pc[t] \notin {"compute", "release"},
         label # "idle" => n \in DOMAIN b.node,
         CD!Moves(t, label, n), UNCHANGED jobs
  PROVE  /\ pc' \in [Callers -> Labels] /\ ref' \in [Callers -> NodeIds \cup {0}]
         /\ Calls(b, pc', ref', jobs')
  <1>1. PICK p : p = pc'
    OBVIOUS
  <1>2. PICK r : r = ref'
    OBVIOUS
  <1>3. p = [pc EXCEPT ![t] = label] /\ r = [ref EXCEPT ![t] = n]
    BY <1>1, <1>2 DEF CD!Moves
  <1>4. /\ p[t] = label /\ r[t] = n /\ p \in [Callers -> Labels] /\ r \in [Callers -> NodeIds \cup {0}]
        /\ \A u \in Callers \ {t} : p[u] = pc[u] /\ r[u] = ref[u]
    BY <1>3 DEF Labels
  <1>5. \A u \in Callers : \A m : Busy(p, r, u, m) <=> Busy(pc, ref, u, m)
    BY <1>4 DEF Busy
  <1>6. \A u \in Callers :
            /\ p[u] # "idle" => r[u] \in DOMAIN b.node
            /\ p[u] \in {"compute", "release"} => b.node[r[u]].cdisj = 1
            /\ p[u] = "release" => b.node[r[u]].done
            /\ p[u] = "return" => b.node[r[u]].cdisj = 0
    BY <1>4 DEF Calls
  <1>7. jobs \subseteq DOMAIN b.node
    BY DEF Calls
  <1>8. Calls(b, p, r, jobs)
    BY <1>5, <1>6, <1>7 DEF Calls
  <1> QED
    BY <1>1, <1>2, <1>4, <1>8

\* A call finds its node.
LEMMA CallHits ==
  ASSUME CachedInv, NEW t \in Callers, NEW k \in Keys, pc[t] = "idle", UNCHANGED jobs,
         NEW n \in CD!Found(bin, k), NEW label \in {"wait", "promise"},
         CD!Moves(t, label, n), CD!BinBecomes(CD!Hit(bin, n))
  PROVE  CachedInv'
  <1>1. n \in DOMAIN bin.node
    BY FoundThere DEF CachedInv
  <1>2. PICK b : b = CD!Hit(bin, n)
    OBVIOUS
  <1>3. Keeps(bin, b) /\ Sound(b)
    BY <1>1, <1>2, HitKeeps DEF CachedInv, Keeps
  <1>4. Calls(b, pc, ref, jobs)
    BY <1>3, CallsKept DEF CachedInv
  <1>5. n \in DOMAIN b.node /\ n \in NodeIds
    BY <1>1, <1>3 DEF Keeps, CachedInv, Sound, BinSlots
  <1>6. pc' \in [Callers -> Labels] /\ ref' \in [Callers -> NodeIds \cup {0}] /\ Calls(b, pc', ref', jobs')
    BY <1>4, <1>5, QuietMove DEF CachedInv
  <1> QED
    BY <1>2, <1>3, <1>6, Collected DEF CachedInv

\* A call finds none, and puts one into the bin that it will compute or that
\* it schedules.
LEMMA CallMisses ==
  ASSUME CachedInv, NEW t \in Callers, NEW k \in Keys, pc[t] = "idle",
         CD!Found(bin, k) = {}, CD!MayInsert, NEW label,
         \/ label = "compute" /\ jobs' = jobs
         \/ label = "promise" /\ jobs' = jobs \cup {CD!Fresh},
         CD!Moves(t, label, CD!Fresh), CD!BinBecomes(CD!Miss(bin, k, CD!Fresh))
  PROVE  CachedInv'
  <1>1. PICK n : n = CD!Fresh
    OBVIOUS
  <1>2. n \in NodeIds \ DOMAIN bin.node
    BY <1>1 DEF CD!Fresh, CD!MayInsert
  <1>3. PICK b : b = CD!Miss(bin, k, n)
    OBVIOUS
  <1>4. /\ Sound(b) /\ DOMAIN b.node = DOMAIN bin.node \cup {n}
        /\ CD!InBin(b) = CD!InBin(bin) \cup {n}
        /\ b.node[n] = CD!NewNode(bin, k)
        /\ \A m \in DOMAIN bin.node : b.node[m] = bin.node[m]
    BY <1>2, <1>3, MissAdds, CachedAssumption DEF CachedInv
  <1>5. b.node[n].cdisj = 1 /\ b.node[n].done = FALSE
    BY <1>4 DEF CD!NewNode
  <1>6. PICK p : p = pc'
    OBVIOUS
  <1>7. PICK r : r = ref'
    OBVIOUS
  <1>8. PICK j : j = jobs'
    OBVIOUS
  <1>9. /\ p[t] = label /\ r[t] = n /\ p \in [Callers -> Labels] /\ r \in [Callers -> NodeIds \cup {0}]
        /\ \A u \in Callers \ {t} : p[u] = pc[u] /\ r[u] = ref[u]
    BY <1>1, <1>2, <1>6, <1>7 DEF CD!Moves, CachedInv, Labels
  <1>10. jobs \subseteq DOMAIN bin.node /\ \A u \in Callers : pc[u] # "idle" => ref[u] \in DOMAIN bin.node
    BY DEF CachedInv, Calls
  <1>11. j \subseteq DOMAIN b.node /\ \A m \in DOMAIN bin.node : m \in j <=> m \in jobs
    BY <1>1, <1>2, <1>4, <1>8, <1>10
  <1>12. \A u \in Callers : \A m \in DOMAIN bin.node : Busy(p, r, u, m) <=> Busy(pc, ref, u, m)
    BY <1>2, <1>9 DEF Busy
  <1>13. \A u \in Callers : Busy(p, r, u, n) <=> (u = t /\ label = "compute")
    BY <1>2, <1>9, <1>10 DEF Busy
  <1>14. n \in j <=> label = "promise"
    BY <1>1, <1>2, <1>8, <1>10
  <1>15. ASSUME NEW m \in DOMAIN bin.node
         PROVE  /\ b.node[m].cdisj \in {0, 1}
                /\ b.node[m].done => b.node[m].access_gain = Gain
                /\ b.node[m].cdisj = 0 => b.node[m].done /\ m \notin j
                /\ b.node[m].cdisj = 1 => m \in CD!InBin(b) /\ (m \in j \/ \E u \in Callers : Busy(p, r, u, m))
                /\ m \in j => \A u \in Callers : ~ Busy(p, r, u, m)
                /\ \A u, v \in Callers : Busy(p, r, u, m) /\ Busy(p, r, v, m) => u = v
    BY <1>4, <1>11, <1>12 DEF CachedInv, Calls
  <1>16. /\ b.node[n].cdisj \in {0, 1}
         /\ b.node[n].done => b.node[n].access_gain = Gain
         /\ b.node[n].cdisj = 0 => b.node[n].done /\ n \notin j
         /\ b.node[n].cdisj = 1 => n \in CD!InBin(b) /\ (n \in j \/ \E u \in Callers : Busy(p, r, u, n))
         /\ n \in j => \A u \in Callers : ~ Busy(p, r, u, n)
         /\ \A u, v \in Callers : Busy(p, r, u, n) /\ Busy(p, r, v, n) => u = v
    BY <1>4, <1>5, <1>13, <1>14
  <1>17. ASSUME NEW u \in Callers
         PROVE  /\ p[u] # "idle" => r[u] \in DOMAIN b.node
                /\ p[u] \in {"compute", "release"} => b.node[r[u]].cdisj = 1
                /\ p[u] = "release" => b.node[r[u]].done
                /\ p[u] = "return" => b.node[r[u]].cdisj = 0
    <2>1. CASE u = t
      BY <1>4, <1>5, <1>9, <2>1
    <2>2. CASE u # t
      <3>1. p[u] = pc[u] /\ r[u] = ref[u]
        BY <1>9, <2>2
      <3>2. pc[u] # "idle" => ref[u] \in DOMAIN b.node /\ b.node[ref[u]] = bin.node[ref[u]]
        BY <1>4, <1>10
      <3> QED
        BY <3>1, <3>2 DEF CachedInv, Calls
    <2> QED
      BY <2>1, <2>2
  <1>18. Calls(b, p, r, j)
    BY <1>4, <1>11, <1>15, <1>16, <1>17 DEF Calls
  <1> QED
    BY <1>1, <1>3, <1>4, <1>6, <1>7, <1>8, <1>9, <1>18, Collected DEF CachedInv

\* The callback has stored a result and a gain in a node that is not computed.
LEMMA ResultStored ==
  ASSUME CachedInv, NEW n \in DOMAIN bin.node, CD!Computed(n),
         NEW p, NEW r, NEW j, Calls(bin, p, r, j)
  PROVE  /\ Sound(bin') /\ Calls(bin', p, r, j)
         /\ DOMAIN bin'.node = DOMAIN bin.node /\ bin'.node[n].done
         /\ \A m \in DOMAIN bin.node : bin'.node[m].cdisj = bin.node[m].cdisj
  <1>1. DOMAIN bin.node[n] = NodeFields /\ Sound(bin)
    BY DEF CachedInv, Sound, BinSlots
  <1>2. PICK x : x = [bin.node[n] EXCEPT !.done = TRUE, !.access_gain = Gain]
    OBVIOUS
  <1>3. /\ DOMAIN x = NodeFields /\ x.key = bin.node[n].key /\ x.cdisj = bin.node[n].cdisj
        /\ x.done = TRUE /\ x.access_gain = Gain
    BY <1>1, <1>2 DEF NodeFields
  <1>4. PICK s : s = bin'
    OBVIOUS
  <1>5. s = [bin EXCEPT !.node[n] = x]
    BY <1>2, <1>4 DEF CD!Computed
  <1>6. /\ Sound(s) /\ DOMAIN s.node = DOMAIN bin.node /\ CD!InBin(s) = CD!InBin(bin)
        /\ s.node[n] = x /\ \A m \in DOMAIN bin.node \ {n} : s.node[m] = bin.node[m]
    BY <1>1, <1>3, <1>5, NodeChanges
  <1>7. \A m \in DOMAIN s.node :
            /\ s.node[m].cdisj = bin.node[m].cdisj
            /\ s.node[m].done => s.node[m].access_gain = Gain
            /\ bin.node[m].done => s.node[m].done
    BY <1>3, <1>6 DEF Calls
  <1>8. Calls(s, p, r, j)
    BY <1>6, <1>7 DEF Calls
  <1> QED
    BY <1>3, <1>4, <1>6, <1>7, <1>8

LEMMA Computes == ASSUME CachedInv, NEW t \in Callers, CD!Compute(t) PROVE CachedInv'
  <1>1. ref[t] \in DOMAIN bin.node /\ Calls(bin, pc, ref, jobs) /\ pc[t] = "compute"
    BY DEF CachedInv, Calls, CD!Compute
  <1>2. /\ Sound(bin') /\ Calls(bin', pc, ref, jobs)
        /\ DOMAIN bin'.node = DOMAIN bin.node /\ bin'.node[ref[t]].done
    BY <1>1, ResultStored DEF CD!Compute
  <1>3. PICK p : p = pc'
    OBVIOUS
  <1>4. p = [pc EXCEPT ![t] = "release"] /\ ref' = ref /\ jobs' = jobs
    BY <1>3 DEF CD!Compute
  <1>5. /\ p \in [Callers -> Labels] /\ p[t] = "release" /\ \A u \in Callers \ {t} : p[u] = pc[u]
    BY <1>4 DEF CachedInv, Labels
  <1>6. \A u \in Callers : \A m : Busy(p, ref, u, m) <=> Busy(pc, ref, u, m)
    BY <1>1, <1>5 DEF Busy
  <1>7. \A u \in Callers :
            /\ p[u] # "idle" => ref[u] \in DOMAIN bin'.node
            /\ p[u] \in {"compute", "release"} => bin'.node[ref[u]].cdisj = 1
            /\ p[u] = "release" => bin'.node[ref[u]].done
            /\ p[u] = "return" => bin'.node[ref[u]].cdisj = 0
    BY <1>1, <1>2, <1>5 DEF Calls
  <1>8. Calls(bin', p, ref, jobs)
    BY <1>2, <1>6, <1>7 DEF Calls
  <1> QED
    BY <1>2, <1>3, <1>4, <1>5, <1>8 DEF CachedInv

\* The result of a node is released: its counter becomes zero.
LEMMA ResultReleased ==
  ASSUME CachedInv, NEW n \in DOMAIN bin.node, bin.node[n].cdisj = 1, bin.node[n].done,
         NEW s, s = CD!Subtracted(n)
  PROVE  /\ Sound(s) /\ DOMAIN s.node = DOMAIN bin.node /\ CD!InBin(s) = CD!InBin(bin)
         /\ s.node[n].cdisj = 0
         /\ \A m \in DOMAIN bin.node \ {n} : s.node[m].cdisj = bin.node[m].cdisj
         /\ \A m \in DOMAIN bin.node : /\ s.node[m].done = bin.node[m].done
                                       /\ s.node[m].access_gain = bin.node[m].access_gain
  <1>1. DOMAIN bin.node[n] = NodeFields /\ Sound(bin)
    BY DEF CachedInv, Sound, BinSlots
  <1>2. PICK x : x = [bin.node[n] EXCEPT !.cdisj = @ - 1]
    OBVIOUS
  <1>3. /\ DOMAIN x = NodeFields /\ x.key = bin.node[n].key /\ x.cdisj = 0
        /\ x.done = bin.node[n].done /\ x.access_gain = bin.node[n].access_gain
    <2>1. x.cdisj = bin.node[n].cdisj - 1
      BY <1>1, <1>2 DEF NodeFields
    <2>2. x.cdisj = 0
      BY <2>1
    <2>3. \A f \in NodeFields \ {"cdisj"} : x[f] = bin.node[n][f]
      BY <1>1, <1>2
    <2>4. DOMAIN x = NodeFields
      BY <1>1, <1>2
    <2> QED
      BY <2>2, <2>3, <2>4 DEF NodeFields
  <1>4. s = [bin EXCEPT !.node[n] = x]
    <2>1. s = [bin EXCEPT !.node[n] = [bin.node[n] EXCEPT !.cdisj = bin.node[n].cdisj - 1]]
      BY DEF CD!Subtracted
    <2> QED
      BY <1>2, <2>1
  <1>5. /\ Sound(s) /\ DOMAIN s.node = DOMAIN bin.node /\ CD!InBin(s) = CD!InBin(bin)
        /\ s.node[n] = x /\ \A m \in DOMAIN bin.node \ {n} : s.node[m] = bin.node[m]
    BY <1>1, <1>3, <1>4, NodeChanges
  <1>6. ASSUME NEW m \in DOMAIN bin.node
        PROVE  /\ s.node[m].done = bin.node[m].done
               /\ s.node[m].access_gain = bin.node[m].access_gain
    <2>1. CASE m = n
      BY <1>3, <1>5, <2>1
    <2>2. CASE m # n
      BY <1>5, <2>2
    <2> QED
      BY <2>1, <2>2
  <1> QED
    BY <1>3, <1>5, <1>6

LEMMA Releases == ASSUME CachedInv, NEW t \in Callers, CD!Release(t) PROVE CachedInv'
  <1>1. /\ ref[t] \in DOMAIN bin.node /\ Calls(bin, pc, ref, jobs) /\ pc[t] = "release"
        /\ bin.node[ref[t]].cdisj = 1 /\ bin.node[ref[t]].done
    BY DEF CachedInv, Calls, CD!Release
  <1>2. PICK s : s = bin'
    OBVIOUS
  <1>3. s = CD!Subtracted(ref[t])
    BY <1>2 DEF CD!Release
  <1>4. PICK n : n = ref[t]
    OBVIOUS
  <1>5. /\ Sound(s) /\ DOMAIN s.node = DOMAIN bin.node /\ CD!InBin(s) = CD!InBin(bin)
        /\ s.node[n].cdisj = 0 /\ n \in DOMAIN bin.node
        /\ \A m \in DOMAIN bin.node \ {n} : s.node[m].cdisj = bin.node[m].cdisj
        /\ \A m \in DOMAIN bin.node : /\ s.node[m].done = bin.node[m].done
                                      /\ s.node[m].access_gain = bin.node[m].access_gain
    BY <1>1, <1>3, <1>4, ResultReleased
  <1>6. PICK p : p = pc'
    OBVIOUS
  <1>7. p = [pc EXCEPT ![t] = "return"] /\ ref' = ref /\ jobs' = jobs
    BY <1>6 DEF CD!Release
  <1>8. /\ p \in [Callers -> Labels] /\ p[t] = "return" /\ \A u \in Callers \ {t} : p[u] = pc[u]
    BY <1>7 DEF CachedInv, Labels
  <1>9. Busy(pc, ref, t, n) /\ n \notin jobs /\ \A u \in Callers : Busy(pc, ref, u, n) => u = t
    BY <1>1, <1>4 DEF Calls, Busy
  <1>10. \A u \in Callers : \A m : Busy(p, ref, u, m) <=> (Busy(pc, ref, u, m) /\ u # t)
    BY <1>8 DEF Busy
  <1>11. \A u \in Callers : ~ Busy(p, ref, u, n)
    BY <1>9, <1>10
  <1>12. \A u \in Callers : \A m \in DOMAIN bin.node \ {n} : Busy(p, ref, u, m) <=> Busy(pc, ref, u, m)
    BY <1>4, <1>10 DEF Busy
  <1>13. ASSUME NEW m \in DOMAIN s.node
         PROVE  /\ s.node[m].cdisj \in {0, 1}
                /\ s.node[m].done => s.node[m].access_gain = Gain
                /\ s.node[m].cdisj = 0 => s.node[m].done /\ m \notin jobs
                /\ s.node[m].cdisj = 1 => m \in CD!InBin(s) /\ (m \in jobs \/ \E u \in Callers : Busy(p, ref, u, m))
                /\ m \in jobs => \A u \in Callers : ~ Busy(p, ref, u, m)
                /\ \A u, v \in Callers : Busy(p, ref, u, m) /\ Busy(p, ref, v, m) => u = v
    <2>1. CASE m = n
      BY <1>1, <1>4, <1>5, <1>9, <1>11, <2>1 DEF Calls
    <2>2. CASE m # n
      BY <1>1, <1>5, <1>12, <2>2 DEF Calls
    <2> QED
      BY <2>1, <2>2
  <1>14. ASSUME NEW u \in Callers
         PROVE  /\ p[u] # "idle" => ref[u] \in DOMAIN s.node
                /\ p[u] \in {"compute", "release"} => s.node[ref[u]].cdisj = 1
                /\ p[u] = "release" => s.node[ref[u]].done
                /\ p[u] = "return" => s.node[ref[u]].cdisj = 0
    <2>1. CASE u = t
      BY <1>4, <1>5, <1>8, <2>1
    <2>2. CASE u # t
      <3>1. p[u] = pc[u]
        BY <1>8, <2>2
      <3>2. p[u] \in {"compute", "release"} => ref[u] # n
        BY <1>11 DEF Busy
      <3> QED
        BY <1>1, <1>5, <3>1, <3>2 DEF Calls
    <2> QED
      BY <2>1, <2>2
  <1>15. jobs \subseteq DOMAIN s.node
    BY <1>1, <1>5 DEF Calls
  <1>16. Calls(s, p, ref, jobs)
    BY <1>13, <1>14, <1>15 DEF Calls
  <1> QED
    BY <1>2, <1>5, <1>6, <1>7, <1>8, <1>16 DEF CachedInv

LEMMA JobRuns == ASSUME CachedInv, NEW n \in NodeIds, CD!RunJob(n) PROVE CachedInv'
  <1>1. /\ n \in jobs /\ n \in DOMAIN bin.node /\ Calls(bin, pc, ref, jobs) /\ Sound(bin)
        /\ UNCHANGED <<pc, ref>>
    BY DEF CachedInv, Calls, CD!RunJob
  <1>2. bin.node[n].cdisj = 1 /\ \A u \in Callers : ~ Busy(pc, ref, u, n)
    BY <1>1 DEF Calls
  <1>3. CASE ~ bin.node[n].done
    <2>1. CD!Computed(n) /\ jobs' = jobs
      BY <1>3 DEF CD!RunJob
    <2>2. Sound(bin') /\ Calls(bin', pc, ref, jobs)
      BY <1>1, <2>1, ResultStored
    <2> QED
      BY <1>1, <2>1, <2>2 DEF CachedInv
  <1>4. CASE bin.node[n].done
    <2>1. PICK s : s = CD!Subtracted(n)
      OBVIOUS
    <2>2. jobs' = jobs \ {n} /\ CD!BinBecomes(s)
      BY <1>4, <2>1 DEF CD!RunJob
    <2>3. /\ Sound(s) /\ DOMAIN s.node = DOMAIN bin.node /\ CD!InBin(s) = CD!InBin(bin)
          /\ s.node[n].cdisj = 0
          /\ \A m \in DOMAIN bin.node \ {n} : s.node[m].cdisj = bin.node[m].cdisj
          /\ \A m \in DOMAIN bin.node : /\ s.node[m].done = bin.node[m].done
                                        /\ s.node[m].access_gain = bin.node[m].access_gain
      BY <1>1, <1>2, <1>4, <2>1, ResultReleased
    <2>4. PICK j : j = jobs \ {n}
      OBVIOUS
    <2>5. ASSUME NEW m \in DOMAIN s.node
          PROVE  /\ s.node[m].cdisj \in {0, 1}
                 /\ s.node[m].done => s.node[m].access_gain = Gain
                 /\ s.node[m].cdisj = 0 => s.node[m].done /\ m \notin j
                 /\ s.node[m].cdisj = 1 => m \in CD!InBin(s) /\ (m \in j \/ \E u \in Callers : Busy(pc, ref, u, m))
                 /\ m \in j => \A u \in Callers : ~ Busy(pc, ref, u, m)
                 /\ \A u, v \in Callers : Busy(pc, ref, u, m) /\ Busy(pc, ref, v, m) => u = v
      <3>1. CASE m = n
        BY <1>1, <1>2, <1>4, <2>3, <2>4, <3>1 DEF Calls
      <3>2. CASE m # n
        BY <1>1, <2>3, <2>4, <3>2 DEF Calls
      <3> QED
        BY <3>1, <3>2
    <2>6. ASSUME NEW u \in Callers
          PROVE  /\ pc[u] # "idle" => ref[u] \in DOMAIN s.node
                 /\ pc[u] \in {"compute", "release"} => s.node[ref[u]].cdisj = 1
                 /\ pc[u] = "release" => s.node[ref[u]].done
                 /\ pc[u] = "return" => s.node[ref[u]].cdisj = 0
      <3>1. pc[u] \in {"compute", "release"} => ref[u] # n
        BY <1>2 DEF Busy
      <3> QED
        BY <1>1, <2>3, <3>1 DEF Calls
    <2>7. j \subseteq DOMAIN s.node
      BY <1>1, <2>3, <2>4 DEF Calls
    <2>8. Calls(s, pc, ref, j)
      BY <2>5, <2>6, <2>7 DEF Calls
    <2>9. Calls(s, pc', ref', jobs')
      BY <1>1, <2>2, <2>4, <2>8
    <2>10. Sound(bin') /\ Calls(bin', pc', ref', jobs')
      BY <2>2, <2>3, <2>9, Collected
    <2> QED
      BY <1>1, <2>10 DEF CachedInv
  <1> QED
    BY <1>3, <1>4

\* A promise is to be fulfilled, a wait ends, a call returns, a tick passes.
LEMMA OtherSteps ==
  ASSUME CachedInv,
         \/ \E t \in Callers : CD!Fulfill(t) \/ CD!WaitDone(t) \/ CD!Return(t)
         \/ CD!Tick
  PROVE  CachedInv'
  <1>1. ASSUME NEW t \in Callers, CD!Fulfill(t) PROVE CachedInv'
    <2>1. /\ pc' = [pc EXCEPT ![t] = "wait"] /\ pc[t] = "promise" /\ UNCHANGED <<bin, ref, jobs>>
      BY <1>1 DEF CD!Fulfill
    <2>2. CD!Moves(t, "wait", ref[t])
      BY <2>1 DEF CD!Moves, CachedInv
    <2>3. ref[t] \in NodeIds \cup {0} /\ ref[t] \in DOMAIN bin.node
      BY <2>1 DEF CachedInv, Calls
    <2>4. pc' \in [Callers -> Labels] /\ ref' \in [Callers -> NodeIds \cup {0}] /\ Calls(bin, pc', ref', jobs')
      BY <2>1, <2>2, <2>3, QuietMove DEF CachedInv
    <2>5. Sound(bin') /\ Calls(bin', pc', ref', jobs')
      BY <2>1, <2>4 DEF CachedInv
    <2> QED
      BY <2>4, <2>5 DEF CachedInv
  <1>2. ASSUME NEW t \in Callers, CD!WaitDone(t) PROVE CachedInv'
    <2>1. PICK p : p = pc'
      OBVIOUS
    <2>2. /\ p = [pc EXCEPT ![t] = "return"] /\ pc[t] = "wait" /\ UNCHANGED <<bin, ref, jobs>>
          /\ bin.node[ref[t]].cdisj = 0
      BY <1>2, <2>1 DEF CD!WaitDone
    <2>3. p \in [Callers -> Labels] /\ p[t] = "return" /\ \A u \in Callers \ {t} : p[u] = pc[u]
      BY <2>2 DEF CachedInv, Labels
    <2>4. \A u \in Callers : \A m : Busy(p, ref, u, m) <=> Busy(pc, ref, u, m)
      BY <2>2, <2>3 DEF Busy
    <2>5. \A u \in Callers :
              /\ p[u] # "idle" => ref[u] \in DOMAIN bin.node
              /\ p[u] \in {"compute", "release"} => bin.node[ref[u]].cdisj = 1
              /\ p[u] = "release" => bin.node[ref[u]].done
              /\ p[u] = "return" => bin.node[ref[u]].cdisj = 0
      BY <2>2, <2>3 DEF CachedInv, Calls
    <2>6. Calls(bin, p, ref, jobs)
      BY <2>4, <2>5 DEF CachedInv, Calls
    <2> QED
      BY <2>1, <2>2, <2>3, <2>6 DEF CachedInv
  <1>3. ASSUME NEW t \in Callers, CD!Return(t) PROVE CachedInv'
    <2>1. pc[t] = "return" /\ UNCHANGED jobs /\ CD!Moves(t, "idle", 0) /\ CD!BinBecomes(bin)
      BY <1>3 DEF CD!Return, CD!NoNode
    <2>2. pc' \in [Callers -> Labels] /\ ref' \in [Callers -> NodeIds \cup {0}] /\ Calls(bin, pc', ref', jobs')
      BY <2>1, QuietMove DEF CachedInv
    <2> QED
      BY <2>1, <2>2, Collected DEF CachedInv
  <1>4. ASSUME CD!Tick PROVE CachedInv'
    <2>1. UNCHANGED <<pc, ref, jobs>> /\ Sound(bin) /\ Calls(bin, pc, ref, jobs)
      BY <1>4 DEF CD!Tick, CachedInv
    <2>2. DOMAIN bin = BinFields /\ \A n \in DOMAIN bin.node : DOMAIN bin.node[n] = NodeFields
      BY <2>1 DEF Sound, BinSlots
    <2>3. PICK s : s = bin'
      OBVIOUS
    <2>4. DOMAIN s = BinFields /\ s.head_arr = bin.head_arr /\ s.size = bin.size /\ s.node = bin.node
      BY <1>4, <2>2, <2>3 DEF CD!Tick, BinFields
    <2>5. Keeps(bin, s)
      BY <2>1, <2>2, <2>4, CountKeeps DEF Same
    <2>6. Sound(s) /\ Calls(s, pc, ref, jobs)
      BY <2>1, <2>5, CallsKept DEF Keeps
    <2> QED
      BY <2>1, <2>3, <2>6 DEF CachedInv
  <1> QED
    BY <1>1, <1>2, <1>3, <1>4

LEMMA CachedInit == PartsInit => CachedInv
  <1> SUFFICES ASSUME PartsInit PROVE CachedInv
    OBVIOUS
  <1>1. /\ bin \in {CD!cachebin_init, CD!Filled} /\ jobs = {}
        /\ pc = [t \in Callers |-> "idle"] /\ ref = [t \in Callers |-> 0]
    BY DEF PartsInit, CD!Init, CD!NoNode
  <1>2. pc \in [Callers -> Labels] /\ ref \in [Callers -> NodeIds \cup {0}]
    BY <1>1 DEF Labels
  <1>3. ASSUME NEW b, \A n \in DOMAIN b.node : b.node[n].cdisj = 0 /\ b.node[n].done /\ b.node[n].access_gain = Gain
        PROVE  Calls(b, pc, ref, jobs)
    BY <1>1, <1>3 DEF Calls, Busy
  <1>4. CASE bin = CD!cachebin_init
    <2>1. /\ DOMAIN bin = BinFields /\ bin.head_arr = [i \in {0} |-> {}] /\ bin.size = 0
          /\ DOMAIN bin.node = {}
      BY <1>4 DEF CD!cachebin_init, BinFields
    <2>2. {0} = 0 .. 1 - 1
      OBVIOUS
    <2>3. BinSlots(bin, 1)
      BY <2>1, <2>2 DEF BinSlots
    <2>4. CD!InBin(bin) = {}
      BY <2>1 DEF CD!InBin
    <2>5. Counted(bin)
      BY <2>1, <2>4, FS_EmptySet DEF Counted
    <2>6. Calls(bin, pc, ref, jobs)
      BY <1>3, <2>1
    <2> QED
      BY <1>2, <2>3, <2>5, <2>6 DEF CachedInv, Sound
  <1>5. CASE bin = CD!Filled
    <2>1. PICK b : b = [CD!cachebin_init EXCEPT
                           !.size = Cardinality(DOMAIN Old), !.head_arr = [i \in {0} |-> DOMAIN Old],
                           !.node = [n \in DOMAIN Old |->
                                        [key |-> Old[n], cdisj |-> 0, done |-> TRUE, access_ticks |-> 0,
                                         access_function |-> Gain, access_gain |-> Gain]]]
      OBVIOUS
    <2>2. bin = CD!fcachebin_resize_locked(b, OldCap)
      BY ONLY <1>5, <2>1, SameCardinality DEF CD!Filled
    <2>3. /\ DOMAIN b = BinFields /\ b.head_arr = [i \in {0} |-> DOMAIN Old]
          /\ b.size = Cardinality(DOMAIN Old) /\ DOMAIN b.node = DOMAIN Old
          /\ \A n \in DOMAIN Old : b.node[n] = [key |-> Old[n], cdisj |-> 0, done |-> TRUE,
                                                access_ticks |-> 0, access_function |-> Gain,
                                                access_gain |-> Gain]
      BY <2>1 DEF CD!cachebin_init, BinFields
    <2>4. \A n \in DOMAIN Old : /\ DOMAIN b.node[n] = NodeFields /\ b.node[n].key = Old[n]
                                /\ b.node[n].cdisj = 0 /\ b.node[n].done
                                /\ b.node[n].access_gain = Gain
      <3> SUFFICES ASSUME NEW n \in DOMAIN Old, NEW x, x = b.node[n]
                   PROVE  /\ DOMAIN x = NodeFields /\ x.key = Old[n] /\ x.cdisj = 0 /\ x.done
                          /\ x.access_gain = Gain
        OBVIOUS
      <3>1. x = [key |-> Old[n], cdisj |-> 0, done |-> TRUE, access_ticks |-> 0,
                 access_function |-> Gain, access_gain |-> Gain]
        BY <2>3
      <3>2. DOMAIN x = NodeFields
        BY ONLY <3>1 DEF NodeFields
      <3> QED
        BY ONLY <3>1, <3>2
    <2>5. \A n \in DOMAIN Old : Hash[Old[n]] \in Nat
      BY CachedAssumption DEF Range
    <2>6. {0} = 0 .. 1 - 1 /\ \A n \in DOMAIN Old : Hash[Old[n]] % 1 \in 0 .. 1 - 1
      BY <2>5, Modulo
    <2>7. BinSlots(b, 1)
      BY <2>3, <2>4, <2>5, <2>6, CachedAssumption DEF BinSlots
    <2>8. CD!InBin(b) = DOMAIN Old
      BY <2>3 DEF CD!InBin
    <2>9. Counted(b)
      BY <2>3, <2>4, <2>8, CachedAssumption DEF Counted
    <2>10. Sound(b) /\ Calls(b, pc, ref, jobs)
      BY <1>3, <2>3, <2>4, <2>7, <2>9 DEF Sound
    <2>11. Keeps(b, bin)
      BY <2>2, <2>10, ResizeKeeps, CachedAssumption
    <2> QED
      BY <1>2, <2>10, <2>11, CallsKept DEF CachedInv, Keeps
  <1> QED
    BY <1>1, <1>4, <1>5

LEMMA CachedNext == CachedInv /\ [PartsNext]_allvars => CachedInv'
  <1> SUFFICES ASSUME CachedInv, [PartsNext]_allvars PROVE CachedInv'
    OBVIOUS
  <1>1. ASSUME NEW t \in Callers, NEW k \in Keys, CD!cuflowP_cached_call(t, k) PROVE CachedInv'
    BY <1>1, CallHits, CallMisses DEF CD!cuflowP_cached_call
  <1>2. ASSUME NEW t \in Callers, NEW k \in Keys, CD!cuflowP_sched_cached_call(t, k) PROVE CachedInv'
    BY <1>2, CallHits, CallMisses DEF CD!cuflowP_sched_cached_call
  <1>3. ASSUME CD!Next PROVE CachedInv'
    BY <1>1, <1>2, <1>3, Computes, Releases, JobRuns, OtherSteps DEF CD!Next
  <1>4. ASSUME UNCHANGED cachedvars PROVE CachedInv'
    <2>1. UNCHANGED <<bin, pc, ref, jobs>>
      BY <1>4 DEF cachedvars
    <2> QED
      BY <2>1 DEF CachedInv
  <1> QED
    BY <1>3, <1>4 DEF PartsNext, allvars

\* However calls, promises, pruning and resizing interleave: the nodes of a
\* bin are where a search finds them, one for each argument and counted, and
\* one that is being computed stays in the bin and has one thread or one
\* scheduled call to compute it.
THEOREM NothingComputedTwice == PartsSpec => []ComputedOnce
  <1>1. CachedInv => ComputedOnce
    <2> SUFFICES ASSUME CachedInv PROVE ComputedOnce
      OBVIOUS
    <2>1. PICK c \in Nat \ {0} : BinSlots(bin, c)
      BY DEF CachedInv, Sound
    <2>2. CD!Mask(bin) + 1 = c /\ Calls(bin, pc, ref, jobs) /\ Counted(bin)
      BY <2>1, InSlots DEF CachedInv, Sound
    <2>3. CD!Placed
      <3>1. \A i \in DOMAIN bin.head_arr : \A n \in bin.head_arr[i] :
                Hash[bin.node[n].key] % (CD!Mask(bin) + 1) = i
        BY <2>1, <2>2 DEF BinSlots
      <3>2. bin.size = CD!Cardinality(CD!InBin(bin))
        BY <2>2, SameCardinality DEF Counted
      <3> QED
        BY <2>2, <3>1, <3>2 DEF CD!Placed, Counted
    <2>4. CD!ComputedOnce
      <3> SUFFICES ASSUME NEW n \in DOMAIN bin.node, bin.node[n].cdisj # 0
                   PROVE  /\ bin.node[n].cdisj = 1 /\ n \in CD!InBin(bin)
                          /\ \A t, u \in CD!Computing(n) : t = u
                          /\ n \in jobs <=> CD!Computing(n) = {}
        BY DEF CD!ComputedOnce
      <3>1. CD!Computing(n) = {t \in Callers : Busy(pc, ref, t, n)}
        BY DEF CD!Computing, Busy
      <3>2. /\ bin.node[n].cdisj = 1 /\ n \in CD!InBin(bin)
            /\ n \in jobs \/ \E t \in Callers : Busy(pc, ref, t, n)
            /\ n \in jobs => \A t \in Callers : ~ Busy(pc, ref, t, n)
            /\ \A t, u \in Callers : Busy(pc, ref, t, n) /\ Busy(pc, ref, u, n) => t = u
        BY <2>2 DEF Calls
      <3> QED
        BY <3>1, <3>2
    <2> QED
      BY <2>3, <2>4 DEF ComputedOnce
  <1>2. CachedInv /\ [PartsNext]_allvars => CachedInv'
    BY CachedNext
  <1>3. PartsInit => CachedInv
    BY CachedInit
  <1> QED
    BY <1>1, <1>2, <1>3, PTL DEF PartsSpec

\* A cached call returns a node with its result and its gain, also when the
\* node has been dropped from the bin meanwhile.
THEOREM ResultsReturned == PartsSpec => []ReturnsComputed
  <1>1. CachedInv => ReturnsComputed
    BY DEF CachedInv, Calls, ReturnsComputed, CD!ReturnsComputed
  <1>2. CachedInv /\ [PartsNext]_allvars => CachedInv'
    BY CachedNext
  <1>3. PartsInit => CachedInv
    BY CachedInit
  <1> QED
    BY <1>1, <1>2, <1>3, PTL DEF PartsSpec

-----------------------------------------------------------------------------
(* The behaviours that are checked together are those of the three parts:  *)
(* what is proved of Sched, where a cuflow_sched_call pushes what some     *)
(* thread pops, and its cuflow_join waits for it, holds of them, too.      *)
THEOREM PartsImplemented == PartsSpec => Spec /\ TS!Spec /\ CD!Spec
  <1>1. PartsInit => Init /\ TS!Init /\ CD!Init
    BY DEF PartsInit
  <1>2. [PartsNext]_allvars => [Next]_vars /\ [TS!Next]_(TS!vars) /\ [CD!Next]_(CD!vars)
    BY DEF PartsNext, allvars, tstatevars, cachedvars, TS!vars, CD!vars
  <1> QED
    BY <1>1, <1>2, PTL DEF PartsSpec, Spec, TS!Spec, CD!Spec
=============================================================================
