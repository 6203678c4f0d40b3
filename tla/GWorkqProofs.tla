---------------------------- MODULE GWorkqProofs ----------------------------
(***************************************************************************)
(* Proofs about GWorkq, for any numbers of threads, flexible queues and    *)
(* priorities: calls are neither lost nor run twice, flexible queues are   *)
(* where the scan looks for them, the hint covers the work until a raise   *)
(* of it is lost, and queues serve whoever has entered them until one is   *)
(* raised to less than it had.                                             *)
(***************************************************************************)
EXTENDS GWorkq, FiniteSetTheorems, SequenceTheorems, WellFoundedInduction, TLAPS

-----------------------------------------------------------------------------
(* The inductive invariant.                                                *)

\* What is at hand in the middle of a yield or of a raise.
AtHand ==
    \A t \in Threads :
        /\ pc[t] \in {"read", "scan"} => arg[t][2] \in Pris
        /\ pc[t] = "raise" => arg[t] \in FlexQs \X Pris
        /\ pc[t] = "run" => entries[t] # << >> /\ arg[t][1] = None

\* Calls are numbered as they are scheduled.
Numbered ==
    /\ \A q \in Queues : \A i \in DOMAIN jobs[q] : jobs[q][i] < next
    /\ \A t \in Threads : pc[t] = "run" => arg[t][2] < next

\* Until a raise of the hint is lost, nothing is linked or scheduled above it.
Covers ==
    ~slip => \A p \in Pris : ring[p] # << >> \/ jobs[p] # << >> => p <= AsInt(gpri)

\* The static priority of a thread is the one of all it has entered, and a
\* thread in no queue has entered none; both but for the call it runs.
Based(e) ==
    /\ \A i \in DOMAIN e : e[i].gflexq = None => i = Len(e)
    /\ \A i \in DOMAIN e : e[i].priority = e[1].priority
AtBase(e, q, p) ==
    /\ Based(e)
    /\ q = None => e = << >>
    /\ \A i \in DOMAIN e : e[i].priority = p
Away(t) == pc[t] \in {"run", "wild"}
Bases ==
    \A t \in Threads :
        /\ Based(entries[t])
        /\ ~Away(t) => AtBase(entries[t], tq[t], tpri[t])

\* What a thread is about to raise its own queue to is enough for it.
RaiseEnough ==
    ~overtaken => \A t \in Threads : pc[t] = "raise" /\ arg[t][1] = tq[t] => arg[t][2] >= tpri[t]

IInv ==
    /\ TypeOK /\ AtHand /\ FlexLinked /\ CallsOnce /\ Numbered
    /\ Covers /\ Bases /\ RaiseEnough /\ RequestorsServed

-----------------------------------------------------------------------------
(* Numbers.                                                                *)

\* A set of natural numbers which is not empty has a least one.
LEMMA LeastNatural ==
    ASSUME NEW S \in SUBSET Nat, S # {}
    PROVE  \E m \in S : \A n \in S : m <= n
  <1> DEFINE B == {0 .. n : n \in S}
  <1>1. \A n \in S : 0 .. n \in SUBSET Nat /\ IsFiniteSet(0 .. n)
    <2> SUFFICES ASSUME NEW n \in S PROVE 0 .. n \in SUBSET Nat /\ IsFiniteSet(0 .. n)
      OBVIOUS
    <2>1. n \in Nat
      OBVIOUS
    <2> QED
      BY <2>1, FS_Interval
  <1>2. B \subseteq FiniteSubsetsOf(Nat) /\ B # {}
    BY <1>1 DEF FiniteSubsetsOf
  <1>3. PICK b \in B : \A c \in B : ~ (<<c, b>> \in StrictSubsetOrdering(Nat))
    BY <1>2, FS_StrictSubsetOrderingWellFounded, WFMin
  <1>4. PICK m \in S : b = 0 .. m
    OBVIOUS
  <1>5. ASSUME NEW n \in S, n < m PROVE FALSE
    <2>1. n \in Nat /\ m \in Nat
      OBVIOUS
    <2>2. 0 .. n \in B /\ 0 .. n \subseteq 0 .. m /\ m \in 0 .. m /\ m \notin 0 .. n
      BY <2>1, <1>5
    <2>3. <<0 .. n, 0 .. m>> \in StrictSubsetOrdering(Nat)
      BY <2>2, <1>1 DEF StrictSubsetOrdering
    <2> QED
      BY <1>3, <1>4, <2>2, <2>3
  <1> QED
    BY <1>5

\* The hint is a priority, or -1 as a word.
LEMMA Words ==
    /\ \A p \in Pris : AsInt(p) = p /\ p % Word = p /\ p < Word - 1 /\ p # Word - 1
    /\ AsInt(Word - 1) = -1 /\ (-1) % Word = Word - 1
  <1>1. PriMax \in Nat /\ Word \in Nat /\ Word > 2 * PriMax + 2
    BY GWorkqAssumption
  <1>2. ASSUME NEW p \in Pris PROVE AsInt(p) = p /\ p % Word = p /\ p < Word - 1 /\ p # Word - 1
    <2>1. p \in Nat /\ p <= PriMax
      BY <1>1 DEF Pris
    <2> QED
      BY <1>1, <2>1 DEF AsInt
  <1>3. AsInt(Word - 1) = -1
    BY <1>1 DEF AsInt
  <1>4. (-1) % Word = Word - 1
    BY <1>1
  <1> QED
    BY <1>2, <1>3, <1>4

LEMMA Hints ==
    ASSUME TypeOK
    PROVE  /\ gpri \in Pris <=> AsInt(gpri) >= 0
           /\ gpri \in Pris => AsInt(gpri) = gpri
           /\ AsInt(gpri) \in -1 .. PriMax
           /\ gpri \notin Pris => gpri = Word - 1 /\ AsInt(gpri) = -1
  <1>1. PriMax \in Nat
    BY GWorkqAssumption
  <1>2. gpri \in Pris \/ (gpri = Word - 1 /\ gpri \notin Pris)
    BY Words DEF TypeOK
  <1>3. gpri \in Pris => AsInt(gpri) = gpri /\ gpri >= 0 /\ gpri \in -1 .. PriMax
    BY <1>1, Words DEF Pris
  <1>4. gpri = Word - 1 => AsInt(gpri) = -1 /\ -1 \in -1 .. PriMax
    BY <1>1, Words
  <1> QED
    BY <1>2, <1>3, <1>4

LEMMA RaisedHint ==
    ASSUME TypeOK, NEW p \in Pris, RaiseHint(p)
    PROVE  /\ gpri' \in Pris \cup {Word - 1} /\ slip' \in BOOLEAN
           /\ ~slip' => ~slip /\ gpri \in Pris
           /\ gpri \in Pris => gpri' \in Pris /\ gpri' >= gpri /\ gpri' >= p
  <1>1. PriMax \in Nat
    BY GWorkqAssumption
  <1>2. gpri' = IF p > gpri THEN p ELSE gpri
    BY DEF RaiseHint
  <1>3. gpri' \in Pris \cup {Word - 1}
    BY <1>2 DEF TypeOK
  <1>4. gpri \in Pris => gpri' \in Pris /\ gpri' >= gpri /\ gpri' >= p
    BY <1>1, <1>2 DEF Pris
  <1>5. slip' \in BOOLEAN /\ (~slip' => ~slip /\ gpri # Word - 1)
    BY ZenonT(30) DEF RaiseHint, TypeOK
  <1>6. gpri # Word - 1 => gpri \in Pris
    BY DEF TypeOK
  <1> QED
    BY <1>3, <1>4, <1>5, <1>6

-----------------------------------------------------------------------------
(* Sequences and the scan.                                                 *)

LEMMA TailOf ==
    ASSUME NEW S, NEW s \in Seq(S), NEW k \in 1 .. Len(s) + 1
    PROVE  /\ SubSeq(s, k, Len(s)) \in Seq(S)
           /\ Len(SubSeq(s, k, Len(s))) = Len(s) - k + 1
           /\ \A i \in 1 .. Len(s) - k + 1 : SubSeq(s, k, Len(s))[i] = s[i + k - 1]
  <1>1. Len(s) \in Nat /\ k \in Int /\ 1 <= k /\ k <= Len(s) + 1
    OBVIOUS
  <1>2. /\ Len(SubSeq(s, k, Len(s))) = IF k <= Len(s) THEN Len(s) - k + 1 ELSE 0
        /\ \A i \in 1 .. Len(s) - k + 1 : SubSeq(s, k, Len(s))[i] = s[k + i - 1]
    BY <1>1, SubSeqProperties
  <1>3. SubSeq(s, k, Len(s)) \in Seq(S)
    BY <1>1
  <1> QED
    BY <1>1, <1>2, <1>3

\* The first linked queue of a priority which has work.
LEMMA FirstBusyQueue ==
    ASSUME TypeOK, NEW p \in Pris
    PROVE  /\ FirstBusy(p) \in 1 .. Len(ring[p]) + 1
           /\ \A i \in 1 .. FirstBusy(p) - 1 : jobs[ring[p][i]] = << >>
           /\ FirstBusy(p) <= Len(ring[p]) => jobs[ring[p][FirstBusy(p)]] # << >>
  <1> DEFINE busy == {i \in DOMAIN ring[p] : jobs[ring[p][i]] # << >>}
  <1>1. ring[p] \in Seq(FlexQs) /\ Len(ring[p]) \in Nat /\ DOMAIN ring[p] = 1 .. Len(ring[p])
    BY DEF TypeOK
  <1>2. CASE busy = {}
    <2>1. FirstBusy(p) = Len(ring[p]) + 1
      BY <1>2 DEF FirstBusy
    <2>2. \A i \in DOMAIN ring[p] : jobs[ring[p][i]] = << >>
      BY <1>2
    <2> QED
      BY <1>1, <2>1, <2>2
  <1>3. CASE busy # {}
    <2>1. busy \in SUBSET Nat
      BY <1>1
    <2>2. \E i \in busy : \A j \in busy : i <= j
      <3> HIDE DEF busy
      <3> QED
        BY <1>3, <2>1, LeastNatural
    <2>3. FirstBusy(p) \in busy /\ \A j \in busy : FirstBusy(p) <= j
      BY <1>3, <2>2 DEF FirstBusy
    <2>4. FirstBusy(p) \in DOMAIN ring[p] /\ jobs[ring[p][FirstBusy(p)]] # << >>
      BY <2>3
    <2>5. \A i \in DOMAIN ring[p] : i < FirstBusy(p) => jobs[ring[p][i]] = << >>
      BY <1>1, <2>3, <2>4
    <2> QED
      BY <1>1, <2>4, <2>5
  <1> QED
    BY <1>2, <1>3

\* Where the call of a priority is taken from.
LEMMA SelectedQueue ==
    ASSUME TypeOK, NEW p \in Pris
    PROVE  /\ Selected(p) \in Queues
           /\ Selected(p) = p \/ Selected(p) \in FlexQs
           /\ ~ HasWork(p) => jobs[p] = << >> /\ FirstBusy(p) = Len(ring[p]) + 1
           /\ HasWork(p) => jobs[p] # << >> \/ ring[p] # << >>
  <1> DEFINE k == FirstBusy(p)
  <1>1. /\ k \in 1 .. Len(ring[p]) + 1
        /\ k <= Len(ring[p]) => jobs[ring[p][k]] # << >>
    BY FirstBusyQueue
  <1>2. ring[p] \in Seq(FlexQs) /\ Len(ring[p]) \in Nat
    BY DEF TypeOK
  <1>3. CASE k <= Len(ring[p])
    <2>1. Selected(p) = ring[p][k]
      BY <1>3 DEF Selected
    <2>2. ring[p][k] \in FlexQs /\ ring[p] # << >>
      BY <1>1, <1>2, <1>3
    <2>3. HasWork(p)
      BY <1>1, <1>3, <2>1 DEF HasWork
    <2> QED
      BY <2>1, <2>2, <2>3 DEF Queues
  <1>4. CASE ~ (k <= Len(ring[p]))
    <2>1. Selected(p) = p /\ k = Len(ring[p]) + 1
      BY <1>1, <1>2, <1>4 DEF Selected
    <2> QED
      BY <2>1 DEF HasWork, Queues
  <1> QED
    BY <1>3, <1>4

\* What a scan unlinks: queues without work, all of them where it goes on.
LEMMA UnlinkedRings ==
    ASSUME TypeOK, NEW from, NEW cutoff, NEW p \in Pris
    PROVE  /\ Unlinked(from, cutoff) \in [Pris -> Seq(FlexQs)]
           /\ \E k \in 1 .. Len(ring[p]) + 1 :
                /\ Unlinked(from, cutoff)[p] = SubSeq(ring[p], k, Len(ring[p]))
                /\ \A i \in 1 .. k - 1 : jobs[ring[p][i]] = << >>
           /\ p \notin Scanned(from, cutoff) => Unlinked(from, cutoff)[p] = ring[p]
           /\ p \in Scanned(from, cutoff) /\ ~ HasWork(p) => Unlinked(from, cutoff)[p] = << >>
  <1>1. ASSUME NEW r \in Pris
        PROVE  /\ ring[r] \in Seq(FlexQs) /\ Len(ring[r]) \in Nat
               /\ FirstBusy(r) \in 1 .. Len(ring[r]) + 1
               /\ SubSeq(ring[r], FirstBusy(r), Len(ring[r])) \in Seq(FlexQs)
    <2>1. ring[r] \in Seq(FlexQs) /\ Len(ring[r]) \in Nat
      BY DEF TypeOK
    <2>2. FirstBusy(r) \in 1 .. Len(ring[r]) + 1
      BY FirstBusyQueue
    <2> QED
      BY <2>1, <2>2, TailOf
  <1>2. Unlinked(from, cutoff) \in [Pris -> Seq(FlexQs)]
    BY <1>1 DEF Unlinked
  <1>3. CASE p \notin Scanned(from, cutoff)
    <2>1. Unlinked(from, cutoff)[p] = ring[p]
      BY <1>3 DEF Unlinked
    <2>2. SubSeq(ring[p], 1, Len(ring[p])) = ring[p] /\ 1 \in 1 .. Len(ring[p]) + 1
      BY <1>1
    <2> QED
      BY <1>2, <1>3, <2>1, <2>2
  <1>4. CASE p \in Scanned(from, cutoff)
    <2>1. Unlinked(from, cutoff)[p] = SubSeq(ring[p], FirstBusy(p), Len(ring[p]))
      BY <1>4 DEF Unlinked
    <2>2. \A i \in 1 .. FirstBusy(p) - 1 : jobs[ring[p][i]] = << >>
      BY FirstBusyQueue
    <2>3. ASSUME ~ HasWork(p) PROVE Unlinked(from, cutoff)[p] = << >>
      <3>1. FirstBusy(p) = Len(ring[p]) + 1
        BY <2>3, SelectedQueue
      <3>2. Len(SubSeq(ring[p], FirstBusy(p), Len(ring[p]))) = Len(ring[p]) - FirstBusy(p) + 1
        BY <1>1, TailOf
      <3> QED
        BY <1>1, <2>1, <3>1, <3>2
    <2> QED
      BY <1>1, <1>2, <1>4, <2>1, <2>2, <2>3
  <1> QED
    BY <1>3, <1>4

\* Taking one element out of a sequence in which it is once.
LEMMA WithoutIt ==
    ASSUME NEW S, NEW s \in Seq(S), NEW q \in S,
           \A i, j \in DOMAIN s : s[i] = q /\ s[j] = q => i = j
    PROVE  /\ Without(s, q) \in Seq(S)
           /\ ~ Contains(Without(s, q), q)
           /\ \A r \in S : r # q => (Contains(Without(s, q), r) <=> Contains(s, r))
           /\ \A r \in S :
                (\A i, j \in DOMAIN s : s[i] = r /\ s[j] = r => i = j)
                => \A i, j \in DOMAIN Without(s, q) :
                        Without(s, q)[i] = r /\ Without(s, q)[j] = r => i = j
  <1>0. Len(s) \in Nat /\ DOMAIN s = 1 .. Len(s)
    OBVIOUS
  <1>1. CASE ~ Contains(s, q)
    BY <1>1 DEF Without
  <1>2. CASE Contains(s, q)
    <2>1. \E i \in DOMAIN s : s[i] = q
      BY <1>0, <1>2 DEF Contains
    <2>2. PICK k : k = CHOOSE i \in DOMAIN s : s[i] = q
      OBVIOUS
    <2>3. k \in 1 .. Len(s) /\ s[k] = q
      BY <1>0, <2>1, <2>2
    <2>a. PICK a : a = SubSeq(s, 1, k - 1)
      OBVIOUS
    <2>b. PICK b : b = SubSeq(s, k + 1, Len(s))
      OBVIOUS
    <2>c. a \in Seq(S) /\ Len(a) = k - 1 /\ \A i \in 1 .. k - 1 : a[i] = s[i]
      BY <1>0, <2>3, <2>a, SubSeqProperties
    <2>d. b \in Seq(S) /\ Len(b) = Len(s) - k /\ \A i \in 1 .. Len(s) - k : b[i] = s[i + k]
      <3>1. k + 1 \in 1 .. Len(s) + 1
        BY <1>0, <2>3
      <3>2. /\ b \in Seq(S) /\ Len(b) = Len(s) - (k + 1) + 1
            /\ \A i \in 1 .. Len(s) - (k + 1) + 1 : b[i] = s[i + (k + 1) - 1]
        BY <2>b, <3>1, TailOf
      <3> QED
        BY <1>0, <2>3, <3>2
    <2>4. PICK w : w = a \o b
      OBVIOUS
    <2>5. Without(s, q) = w
      <3>1. Without(s, q) = RemoveAt(s, k)
        BY <1>2, <2>2 DEF Without
      <3> QED
        BY <2>a, <2>b, <2>4, <3>1 DEF RemoveAt
    <2>6. w \in Seq(S) /\ Len(w) = Len(s) - 1 /\ DOMAIN w = 1 .. Len(s) - 1
      <3>1. w \in Seq(S) /\ Len(w) = Len(a) + Len(b)
        BY <2>c, <2>d, <2>4
      <3>2. Len(a) + Len(b) = Len(s) - 1
        BY <1>0, <2>3, <2>c, <2>d
      <3> QED
        BY <3>1, <3>2
    <2>7. \A i \in 1 .. Len(w) : w[i] = s[IF i < k THEN i ELSE i + 1]
      <3> SUFFICES ASSUME NEW i \in 1 .. Len(w) PROVE w[i] = s[IF i < k THEN i ELSE i + 1]
        OBVIOUS
      <3>1. i \in Int /\ 1 <= i /\ i <= Len(s) - 1
        BY <1>0, <2>6
      <3>2. w[i] = IF i <= Len(a) THEN a[i] ELSE b[i - Len(a)]
        <4>1. a \in Seq(S) /\ b \in Seq(S) /\ i \in 1 .. Len(a) + Len(b)
          BY <1>0, <2>3, <2>c, <2>d, <3>1
        <4> QED
          BY <2>4, <4>1
      <3>3. CASE i < k
        <4>1. i <= Len(a) /\ i \in 1 .. k - 1
          BY <2>3, <2>c, <3>1, <3>3
        <4> QED
          BY <2>c, <3>2, <3>3, <4>1
      <3>4. CASE ~ (i < k)
        <4>1. ~ (i <= Len(a)) /\ i - Len(a) \in 1 .. Len(s) - k /\ i - Len(a) + k = i + 1
          BY <1>0, <2>3, <2>c, <3>1, <3>4
        <4>2. b[i - Len(a)] = s[i + 1]
          BY <2>d, <4>1
        <4> QED
          BY <3>2, <3>4, <4>1, <4>2
      <3> QED
        BY <3>3, <3>4
    <2>8. ~ Contains(w, q)
      BY <1>0, <2>3, <2>6, <2>7 DEF Contains
    <2>9. ASSUME NEW r \in S, r # q PROVE Contains(w, r) <=> Contains(s, r)
      <3>1. ASSUME NEW i \in 1 .. Len(s), s[i] = r PROVE Contains(w, r)
        <4>1. i # k
          BY <2>3, <2>9, <3>1
        <4>2. CASE i < k
          <5>1. i \in 1 .. Len(w) /\ w[i] = r
            BY <1>0, <2>3, <2>6, <2>7, <3>1, <4>2
          <5> QED
            BY <5>1 DEF Contains
        <4>3. CASE i > k
          <5>1. i - 1 \in 1 .. Len(w) /\ ~ (i - 1 < k) /\ (i - 1) + 1 = i
            BY <1>0, <2>3, <2>6, <4>3
          <5>2. w[i - 1] = r
            BY <2>7, <3>1, <5>1
          <5> QED
            BY <5>1, <5>2 DEF Contains
        <4> QED
          BY <1>0, <2>3, <4>1, <4>2, <4>3
      <3>2. ASSUME NEW i \in 1 .. Len(w), w[i] = r PROVE Contains(s, r)
        <4>1. (IF i < k THEN i ELSE i + 1) \in 1 .. Len(s)
          BY <1>0, <2>3, <2>6
        <4> QED
          BY <2>7, <3>2, <4>1 DEF Contains
      <3> QED
        BY <3>1, <3>2 DEF Contains
    <2>10. ASSUME NEW r \in S, \A i, j \in DOMAIN s : s[i] = r /\ s[j] = r => i = j
           PROVE  \A i, j \in DOMAIN w : w[i] = r /\ w[j] = r => i = j
      <3>1. ASSUME NEW i \in DOMAIN w, NEW j \in DOMAIN w, w[i] = r, w[j] = r PROVE i = j
        <4>1. PICK m : m = IF i < k THEN i ELSE i + 1
          OBVIOUS
        <4>2. PICK n : n = IF j < k THEN j ELSE j + 1
          OBVIOUS
        <4>3. m \in DOMAIN s /\ n \in DOMAIN s
          BY <1>0, <2>3, <2>6, <4>1, <4>2
        <4>4. s[m] = r /\ s[n] = r
          BY <2>6, <2>7, <3>1, <4>1, <4>2
        <4>5. m = n
          BY <2>10, <4>3, <4>4
        <4> QED
          BY <1>0, <2>3, <2>6, <4>1, <4>2, <4>5
      <3> QED
        BY <3>1
    <2> QED
      BY <2>5, <2>6, <2>8, <2>9, <2>10
  <1> QED
    BY <1>1, <1>2

-----------------------------------------------------------------------------
(* Linking a queue.                                                        *)

Once(s, q) == \A i, j \in DOMAIN s : s[i] = q /\ s[j] = q => i = j

LEMMA AppendIt ==
    ASSUME NEW S, NEW s \in Seq(S), NEW q \in S, ~ Contains(s, q)
    PROVE  /\ Append(s, q) \in Seq(S)
           /\ \A r \in S : Contains(Append(s, q), r) <=> (r = q \/ Contains(s, r))
           /\ \A r \in S : Once(s, r) => Once(Append(s, q), r)
  <1>1. /\ Append(s, q) \in Seq(S) /\ Len(Append(s, q)) = Len(s) + 1 /\ Len(s) \in Nat
        /\ \A i \in 1 .. Len(s) : Append(s, q)[i] = s[i]
        /\ Append(s, q)[Len(s) + 1] = q
    OBVIOUS
  <1>2. PICK w : w = Append(s, q)
    OBVIOUS
  <1>3. /\ w \in Seq(S) /\ Len(w) = Len(s) + 1 /\ Len(s) \in Nat
        /\ DOMAIN w = 1 .. Len(s) + 1 /\ DOMAIN s = 1 .. Len(s)
        /\ \A i \in 1 .. Len(s) : w[i] = s[i]
        /\ w[Len(s) + 1] = q
    BY <1>1, <1>2
  <1>4. ASSUME NEW r \in S PROVE Contains(w, r) <=> (r = q \/ Contains(s, r))
    <2>1. \A i \in 1 .. Len(w) : i \in 1 .. Len(s) \/ i = Len(s) + 1
      BY <1>3
    <2>2. 1 .. Len(s) \subseteq 1 .. Len(w) /\ Len(s) + 1 \in 1 .. Len(w)
      BY <1>3
    <2> QED
      BY <1>3, <2>1, <2>2 DEF Contains
  <1>5. ASSUME NEW r \in S, Once(s, r) PROVE Once(w, r)
    <2>1. CASE r = q
      <3>1. \A i \in 1 .. Len(s) : s[i] # r
        BY <2>1 DEF Contains
      <3>2. \A i \in 1 .. Len(s) + 1 : i \in 1 .. Len(s) \/ i = Len(s) + 1
        BY <1>3
      <3> QED
        BY <1>3, <3>1, <3>2 DEF Once
    <2>2. CASE r # q
      <3>1. \A i \in 1 .. Len(s) + 1 : i \in 1 .. Len(s) \/ i = Len(s) + 1
        BY <1>3
      <3>2. \A i \in DOMAIN w : w[i] = r => i \in DOMAIN s /\ s[i] = r
        BY <1>3, <2>2, <3>1
      <3> QED
        BY <1>5, <3>2 DEF Once
    <2> QED
      BY <2>1, <2>2
  <1> QED
    BY <1>2, <1>3, <1>4, <1>5

\* The rings when a queue which is not linked is linked at its priority.
Linking(q) == [ring EXCEPT ![qpri[q]] = Append(@, q)]

LEMMA LinkedRings ==
    ASSUME TypeOK, FlexLinked, NEW q \in FlexQs, ~ Linked(q)
    PROVE  /\ Linking(q) \in [Pris -> Seq(FlexQs)]
           /\ \A r \in Pris : \A x \in FlexQs :
                /\ Contains(Linking(q)[r], x) <=> ((r = qpri[q] /\ x = q) \/ Contains(ring[r], x))
                /\ Once(Linking(q)[r], x)
  <1>1. /\ qpri[q] \in Pris /\ ring \in [Pris -> Seq(FlexQs)]
        /\ \A r \in Pris : \A x \in FlexQs : Once(ring[r], x)
    BY DEF TypeOK, FlexLinked, Once
  <1>2. ~ Contains(ring[qpri[q]], q)
    BY <1>1 DEF Linked
  <1>3. /\ Append(ring[qpri[q]], q) \in Seq(FlexQs)
        /\ \A x \in FlexQs : Contains(Append(ring[qpri[q]], q), x) <=> (x = q \/ Contains(ring[qpri[q]], x))
        /\ \A x \in FlexQs : Once(Append(ring[qpri[q]], q), x)
    <2>1. ring[qpri[q]] \in Seq(FlexQs)
      BY <1>1
    <2> QED
      BY <1>1, <1>2, <2>1, AppendIt
  <1>4. \A r \in Pris : Linking(q)[r] = IF r = qpri[q] THEN Append(ring[qpri[q]], q) ELSE ring[r]
    BY <1>1 DEF Linking
  <1>5. Linking(q) \in [Pris -> Seq(FlexQs)]
    BY <1>1, <1>3 DEF Linking
  <1> QED
    BY <1>1, <1>3, <1>4, <1>5

\* The rings when a queue is moved to a new priority.
LEMMA MovedRings ==
    ASSUME TypeOK, FlexLinked, NEW q \in FlexQs, NEW p \in Pris
    PROVE  /\ Moved(ring, q, p) \in [Pris -> Seq(FlexQs)]
           /\ \A r \in Pris : \A x \in FlexQs :
                /\ Contains(Moved(ring, q, p)[r], x) <=>
                        ((r = p /\ x = q) \/ (x # q /\ Contains(ring[r], x)))
                /\ Once(Moved(ring, q, p)[r], x)
  <1>1. ASSUME NEW r \in Pris
        PROVE  /\ Without(ring[r], q) \in Seq(FlexQs)
               /\ \A x \in FlexQs : Contains(Without(ring[r], q), x) <=> (x # q /\ Contains(ring[r], x))
               /\ \A x \in FlexQs : Once(Without(ring[r], q), x)
    <2>1. ring[r] \in Seq(FlexQs)
      BY DEF TypeOK
    <2>2. \A x \in FlexQs : \A i, j \in DOMAIN ring[r] : ring[r][i] = x /\ ring[r][j] = x => i = j
      BY DEF FlexLinked
    <2>3. /\ Without(ring[r], q) \in Seq(FlexQs)
          /\ ~ Contains(Without(ring[r], q), q)
          /\ \A x \in FlexQs : x # q => (Contains(Without(ring[r], q), x) <=> Contains(ring[r], x))
      BY <2>1, <2>2, WithoutIt
    <2>4. \A x \in FlexQs : Once(Without(ring[r], q), x)
      BY <2>1, <2>2, WithoutIt DEF Once
    <2> QED
      BY <2>3, <2>4
  <1>2. ASSUME NEW r \in Pris
        PROVE  Moved(ring, q, p)[r] = IF r = p THEN Append(Without(ring[r], q), q) ELSE Without(ring[r], q)
    BY DEF Moved
  <1>3. ASSUME NEW r \in Pris
        PROVE  /\ Append(Without(ring[r], q), q) \in Seq(FlexQs)
               /\ \A x \in FlexQs : Contains(Append(Without(ring[r], q), q), x) <=>
                        (x = q \/ Contains(Without(ring[r], q), x))
               /\ \A x \in FlexQs : Once(Append(Without(ring[r], q), q), x)
    <2>1. ~ Contains(Without(ring[r], q), q)
      BY <1>1
    <2> QED
      BY <1>1, <2>1, AppendIt
  <1>4. Moved(ring, q, p) \in [Pris -> Seq(FlexQs)]
    BY <1>1, <1>3 DEF Moved
  <1>5. ASSUME NEW r \in Pris, NEW x \in FlexQs
        PROVE  /\ Contains(Moved(ring, q, p)[r], x) <=>
                        ((r = p /\ x = q) \/ (x # q /\ Contains(ring[r], x)))
               /\ Once(Moved(ring, q, p)[r], x)
    <2>1. CASE r = p
      BY <1>1, <1>2, <1>3, <2>1
    <2>2. CASE r # p
      BY <1>1, <1>2, <2>2
    <2> QED
      BY <2>1, <2>2
  <1> QED
    BY <1>4, <1>5

-----------------------------------------------------------------------------
(* Types, and what is at hand.                                             *)

\* What a step of a thread may be.
LEMMA Steps ==
    ASSUME TypeOK, Next
    PROVE  \/ UNCHANGED vars
           \/ \E t \in Threads :
                \/ \E p \in Pris : SchedAt(t, p)
                \/ \E q \in FlexQs : \E b \in BOOLEAN : FlexSched(t, q, b)
                \/ \E p \in Pris : SetStatic(t, p)
                \/ \E c \in Pris : YieldAt(t, c)
                \/ ReadHint(t)
                \/ Scan(t)
                \/ RunEnd(t)
                \/ RaiseLocked(t)
                \/ Leave(t)
                \/ \E q \in FlexQs : Enter(t, q)
                \/ \E q \in FlexQs : \E p \in Pris : RaisePriority(t, q, p)
  <1>1. CASE Stopped
    BY <1>1 DEF Stopped
  <1>2. ASSUME NEW t \in Threads, Sched(t)
        PROVE  (\E p \in Pris : SchedAt(t, p)) \/ (\E q \in FlexQs : FlexSched(t, q, TRUE))
    BY <1>2 DEF Sched, TypeOK
  <1>3. TPris \subseteq Pris /\ Cutoffs \subseteq Pris
    BY GWorkqAssumption
  <1>4. ASSUME NEW t \in Threads, NEW q \in FlexQs, FlexSched(t, q, TRUE)
        PROVE  \E b \in BOOLEAN : FlexSched(t, q, b)
    <2>1. PICK b \in BOOLEAN : b = TRUE
      OBVIOUS
    <2> QED
      BY <1>4, <2>1, Zenon
  <1>5. ASSUME NEW t \in Threads, NEW q \in FlexQs, SchedFlex(t, q)
        PROVE  \E b \in BOOLEAN : FlexSched(t, q, b)
    <2>1. PICK b \in BOOLEAN : b = FALSE
      OBVIOUS
    <2> QED
      BY <1>5, <2>1, Zenon DEF SchedFlex
  <1> QED
    BY <1>1, <1>2, <1>3, <1>4, <1>5 DEF Next, Step

LEMMA PriorityChanged ==
    ASSUME TypeOK, FlexLinked, NEW q \in FlexQs, NEW p \in Pris, SetPriority(q, p)
    PROVE  /\ qpri' = [qpri EXCEPT ![q] = p]
           /\ ring' \in [Pris -> Seq(FlexQs)]
           /\ gpri' \in Pris \cup {Word - 1}
           /\ slip' \in BOOLEAN /\ overtaken' \in BOOLEAN
           /\ ~overtaken' => ~overtaken /\ qpri[q] <= p
           /\ IF Linked(q)
              THEN /\ RaiseHint(p)
                   /\ \A r \in Pris : \A x \in FlexQs :
                        Contains(ring'[r], x) <=> ((r = p /\ x = q) \/ (x # q /\ Contains(ring[r], x)))
              ELSE UNCHANGED <<ring, gpri, slip>>
           /\ \A r \in Pris : \A x \in FlexQs : Once(ring'[r], x)
  <1>1. /\ ring \in [Pris -> Seq(FlexQs)] /\ gpri \in Pris \cup {Word - 1}
        /\ slip \in BOOLEAN /\ overtaken \in BOOLEAN
        /\ \A r \in Pris : \A x \in FlexQs : Once(ring[r], x)
    BY DEF TypeOK, FlexLinked, Once
  <1>2. qpri' = [qpri EXCEPT ![q] = p]
    BY DEF SetPriority
  <1>3. overtaken' \in BOOLEAN /\ (~overtaken' => ~overtaken /\ qpri[q] <= p)
    <2>1. overtaken' \in BOOLEAN /\ (~overtaken' => ~overtaken /\ ~ (p < qpri[q]))
      BY Zenon DEF SetPriority
    <2>2. p \in Int /\ qpri[q] \in Int
      BY DEF TypeOK, Pris
    <2> QED
      BY <2>1, <2>2
  <1>4. CASE Linked(q)
    <2>1. ring' = Moved(ring, q, p) /\ RaiseHint(p)
      BY <1>4 DEF SetPriority
    <2>2. gpri' \in Pris \cup {Word - 1} /\ slip' \in BOOLEAN
      BY <2>1, RaisedHint
    <2>3. /\ Moved(ring, q, p) \in [Pris -> Seq(FlexQs)]
          /\ \A r \in Pris : \A x \in FlexQs :
                /\ Contains(Moved(ring, q, p)[r], x) <=>
                        ((r = p /\ x = q) \/ (x # q /\ Contains(ring[r], x)))
                /\ Once(Moved(ring, q, p)[r], x)
      BY MovedRings
    <2> QED
      BY <1>4, <1>2, <1>3, <2>1, <2>2, <2>3
  <1>5. CASE ~ Linked(q)
    <2>1. UNCHANGED <<ring, gpri, slip>>
      BY <1>5 DEF SetPriority
    <2> QED
      BY <1>1, <1>5, <1>2, <1>3, <2>1
  <1> QED
    BY <1>4, <1>5

LEMMA CallQueued ==
    ASSUME TypeOK, FlexLinked, NEW t \in Threads, NEW q \in FlexQs, NEW b \in BOOLEAN,
           FlexSched(t, q, b)
    PROVE  /\ jobs' = [jobs EXCEPT ![q] = Append(@, next)] /\ next' = next + 1
           /\ UNCHANGED <<qpri, subs, overtaken, tstate, local>>
           /\ ring' \in [Pris -> Seq(FlexQs)]
           /\ gpri' \in Pris \cup {Word - 1} /\ slip' \in BOOLEAN
           /\ RaiseHint(qpri[q]) \/ (UNCHANGED <<gpri, slip>> /\ Linked(q))
           /\ IF Linked(q)
              THEN UNCHANGED ring
              ELSE \A r \in Pris : \A x \in FlexQs :
                        Contains(ring'[r], x) <=> ((r = qpri[q] /\ x = q) \/ Contains(ring[r], x))
           /\ \A r \in Pris : \A x \in FlexQs : Once(ring'[r], x)
  <1>1. /\ ring \in [Pris -> Seq(FlexQs)] /\ gpri \in Pris \cup {Word - 1} /\ qpri[q] \in Pris
        /\ slip \in BOOLEAN
        /\ \A r \in Pris : \A x \in FlexQs : Once(ring[r], x)
    BY DEF TypeOK, FlexLinked, Once
  <1>2. /\ jobs' = [jobs EXCEPT ![q] = Append(@, next)] /\ next' = next + 1
        /\ UNCHANGED <<qpri, subs, overtaken, tstate, local>>
    BY DEF FlexSched
  <1>3. RaiseHint(qpri[q]) \/ (UNCHANGED <<gpri, slip>> /\ Linked(q))
    BY DEF FlexSched
  <1>4. gpri' \in Pris \cup {Word - 1} /\ slip' \in BOOLEAN
    <2>1. CASE RaiseHint(qpri[q])
      BY <1>1, <2>1, RaisedHint
    <2>2. CASE UNCHANGED <<gpri, slip>>
      BY <1>1, <2>2
    <2> QED
      BY <1>3, <2>1, <2>2
  <1>5. CASE Linked(q)
    <2>1. UNCHANGED ring
      BY <1>5 DEF FlexSched
    <2> QED
      BY <1>1, <1>2, <1>3, <1>4, <1>5, <2>1
  <1>6. CASE ~ Linked(q)
    <2>1. ring' = Linking(q)
      BY <1>6 DEF FlexSched, Linking
    <2>2. /\ Linking(q) \in [Pris -> Seq(FlexQs)]
          /\ \A r \in Pris : \A x \in FlexQs :
                /\ Contains(Linking(q)[r], x) <=> ((r = qpri[q] /\ x = q) \/ Contains(ring[r], x))
                /\ Once(Linking(q)[r], x)
      BY <1>6, LinkedRings
    <2> QED
      BY <1>2, <1>3, <1>4, <1>6, <2>1, <2>2
  <1> QED
    BY <1>5, <1>6

\* The call found by a scan, and what it does to the queues.
LEMMA CallTaken ==
    ASSUME TypeOK, NEW t \in Threads, Scan(t)
    PROVE  /\ ring' = Unlinked(gp[t], arg[t][2]) /\ gp' = [gp EXCEPT ![t] = 0]
           /\ UNCHANGED <<qpri, subs, next, overtaken>>
           /\ slip' \in BOOLEAN /\ (~slip' => ~slip /\ ~ (gp[t] < AsInt(gpri)))
           /\ \/ \E p \in Scanned(gp[t], arg[t][2]) :
                    /\ p \in Pris /\ HasWork(p) /\ gpri' = p
                    /\ Selected(p) \in Queues /\ jobs[Selected(p)] # << >>
                    /\ jobs' = [jobs EXCEPT ![Selected(p)] = Tail(@)]
                    /\ arg' = [arg EXCEPT ![t] = <<None, Head(jobs[Selected(p)])>>]
                    /\ tpri' = [tpri EXCEPT ![t] = p]
                    /\ entries' = [entries EXCEPT ![t] = <<Saved(t)>> \o @]
                    /\ tq' = [tq EXCEPT ![t] = IF Selected(p) = p THEN None ELSE Selected(p)]
                    /\ pc' = [pc EXCEPT ![t] = "run"]
              \/ /\ \A p \in Scanned(gp[t], arg[t][2]) : ~ HasWork(p)
                 /\ gpri' = (IF arg[t][2] <= gp[t] THEN arg[t][2] - 1 ELSE gp[t]) % Word
                 /\ arg' = [arg EXCEPT ![t] = <<None, 0>>]
                 /\ UNCHANGED <<jobs, tpri, entries, tq>>
                 /\ pc' = [pc EXCEPT ![t] = "idle"]
  <1>1. \A p \in Scanned(gp[t], arg[t][2]) : p \in Pris
    BY DEF Scanned
  <1>2. \A p \in Pris : Selected(p) \in Queues
    BY SelectedQueue
  <1>3. slip' \in BOOLEAN /\ (~slip' => ~slip /\ ~ (gp[t] < AsInt(gpri)))
    BY Zenon DEF Scan
  <1> QED
    BY <1>1, <1>2, <1>3 DEF Scan, HasWork, Popped, Goto

\* Clients name priorities and queues there are.
LEMMA QueuesTyped ==
    ASSUME TypeOK, AtHand, FlexLinked, Next
    PROVE  /\ jobs' \in [Queues -> Seq(Nat)]
           /\ ring' \in [Pris -> Seq(FlexQs)]
           /\ qpri' \in [FlexQs -> Pris]
           /\ gpri' \in Pris \cup {Word - 1}
           /\ next' \in Nat
           /\ slip' \in BOOLEAN /\ overtaken' \in BOOLEAN
  <1> DEFINE Typed == /\ jobs' \in [Queues -> Seq(Nat)]
                      /\ ring' \in [Pris -> Seq(FlexQs)]
                      /\ qpri' \in [FlexQs -> Pris]
                      /\ gpri' \in Pris \cup {Word - 1}
                      /\ next' \in Nat
                      /\ slip' \in BOOLEAN /\ overtaken' \in BOOLEAN
  <1>1. /\ slip \in BOOLEAN /\ overtaken \in BOOLEAN
        /\ jobs \in [Queues -> Seq(Nat)] /\ ring \in [Pris -> Seq(FlexQs)]
        /\ qpri \in [FlexQs -> Pris] /\ gpri \in Pris \cup {Word - 1} /\ next \in Nat
        /\ arg \in [Threads -> (FlexQs \cup {None}) \X Nat]
        /\ gp \in [Threads -> -1 .. PriMax] /\ tpri \in [Threads -> Pris]
        /\ tq \in [Threads -> FlexQs \cup {None}]
    BY DEF TypeOK
  <1>2. UNCHANGED vars => UNCHANGED <<jobs, ring, qpri, gpri, next, slip, overtaken>>
    BY DEF vars
  <1>3. ASSUME NEW q \in Queues
        PROVE  [jobs EXCEPT ![q] = Append(@, next)] \in [Queues -> Seq(Nat)]
    BY <1>1
  <1>4. ASSUME UNCHANGED <<jobs, ring, qpri, gpri, next, slip, overtaken>> PROVE Typed
    BY <1>1, <1>4
  <1>5. ASSUME NEW q \in FlexQs, NEW p \in Pris, SetPriority(q, p), UNCHANGED <<jobs, next>>
        PROVE  Typed
    <2>1. /\ qpri' = [qpri EXCEPT ![q] = p] /\ ring' \in [Pris -> Seq(FlexQs)]
          /\ gpri' \in Pris \cup {Word - 1}
          /\ slip' \in BOOLEAN /\ overtaken' \in BOOLEAN
      BY <1>5, PriorityChanged
    <2> QED
      BY <1>1, <1>5, <2>1
  <1>6. ASSUME NEW t \in Threads, NEW p \in Pris, SchedAt(t, p)
        PROVE  Typed
    BY <1>1, <1>3, <1>6, RaisedHint DEF SchedAt, Queues
  <1>7. ASSUME NEW t \in Threads, NEW q \in FlexQs, NEW b \in BOOLEAN, FlexSched(t, q, b)
        PROVE  Typed
    <2>2. /\ jobs' = [jobs EXCEPT ![q] = Append(@, next)] /\ next' = next + 1
          /\ ring' \in [Pris -> Seq(FlexQs)] /\ gpri' \in Pris \cup {Word - 1} /\ slip' \in BOOLEAN
          /\ UNCHANGED <<qpri, overtaken>>
      BY <1>7, CallQueued
    <2>3. q \in Queues
      BY DEF Queues
    <2> QED
      BY <1>1, <1>3, <2>2, <2>3
  <1>8. ASSUME NEW t \in Threads, Scan(t)
        PROVE  Typed
    <2>1. ring' = Unlinked(gp[t], arg[t][2]) /\ UNCHANGED <<qpri, next, overtaken>> /\ slip' \in BOOLEAN
      BY <1>8, CallTaken
    <2>2. PriMax \in Nat /\ 0 \in Pris
      BY GWorkqAssumption DEF Pris
    <2>3. ring' \in [Pris -> Seq(FlexQs)]
      BY <2>1, <2>2, UnlinkedRings
    <2>4. gpri' \in Pris \cup {Word - 1}
      <3>1. CASE \E p \in Pris : gpri' = p
        BY <3>1
      <3>2. CASE gpri' = (IF arg[t][2] <= gp[t] THEN arg[t][2] - 1 ELSE gp[t]) % Word
        <4>1. arg[t][2] \in Pris /\ gp[t] \in -1 .. PriMax
          BY <1>1, <1>8 DEF AtHand, Scan
        <4>2. (IF arg[t][2] <= gp[t] THEN arg[t][2] - 1 ELSE gp[t]) \in Pris \cup {-1}
          BY <2>2, <4>1 DEF Pris
        <4> QED
          BY <3>2, <4>2, Words
      <3> QED
        BY <1>8, <3>1, <3>2, CallTaken
    <2>5. jobs' \in [Queues -> Seq(Nat)]
      <3>1. CASE UNCHANGED jobs
        BY <1>1, <3>1
      <3>2. ASSUME NEW q \in Queues, jobs[q] # << >>, jobs' = [jobs EXCEPT ![q] = Tail(@)]
            PROVE  jobs' \in [Queues -> Seq(Nat)]
        BY <1>1, <3>2
      <3> QED
        BY <1>8, <3>1, <3>2, CallTaken
    <2> QED
      BY <1>1, <2>1, <2>3, <2>4, <2>5
  <1>9. ASSUME NEW t \in Threads, RaiseLocked(t)
        PROVE  \E q \in FlexQs : \E p \in Pris : SetPriority(q, p) /\ UNCHANGED <<jobs, next>>
    BY <1>9 DEF RaiseLocked, Raise, AtHand
  <1>10. ASSUME NEW t \in Threads, NEW q \in FlexQs, Enter(t, q)
         PROVE  \/ UNCHANGED <<jobs, ring, qpri, gpri, next, slip, overtaken>>
                \/ SetPriority(q, CurrentPriority(t)) /\ UNCHANGED <<jobs, next>>
    BY <1>10 DEF Enter, Raise
  <1>11. \A t \in Threads : CurrentPriority(t) \in Pris
    BY <1>1 DEF CurrentPriority
  <1>12. ASSUME NEW t \in Threads,
                \/ \E p \in Pris : SetStatic(t, p)
                \/ \E c \in Pris : YieldAt(t, c)
                \/ ReadHint(t) \/ RunEnd(t) \/ Leave(t)
                \/ \E q \in FlexQs : \E p \in Pris : RaisePriority(t, q, p)
         PROVE  UNCHANGED <<jobs, ring, qpri, gpri, next, slip, overtaken>>
    BY <1>12 DEF SetStatic, YieldAt, ReadHint, RunEnd, Leave, RaisePriority, queues
  <1>13. Typed
    <2> HIDE DEF Typed
    <2> QED
      BY <1>2, <1>4, <1>5, <1>6, <1>7, <1>8, <1>9, <1>10, <1>11, <1>12, Steps
  <1> QED
    BY <1>13

\* A step of one thread disturbs what is at hand for itself only.
LEMMA OwnHand ==
    ASSUME TypeOK, AtHand, NEW t \in Threads,
           \A u \in Threads : u # t =>
                /\ pc'[u] \in {pc[u], "absent", "wild"}
                /\ arg'[u] = arg[u] /\ entries'[u] = entries[u],
           /\ pc'[t] \in {"read", "scan"} => arg'[t][2] \in Pris
           /\ pc'[t] = "raise" => arg'[t] \in FlexQs \X Pris
           /\ pc'[t] = "run" => entries'[t] # << >> /\ arg'[t][1] = None
    PROVE  AtHand'
  BY DEF AtHand

LEMMA ThreadsTyped ==
    ASSUME TypeOK, AtHand, Next
    PROVE  /\ tpri' \in [Threads -> Pris]
           /\ tq' \in [Threads -> FlexQs \cup {None}]
           /\ entries' \in [Threads -> Seq(Entries)]
           /\ pc' \in [Threads -> {"absent", "idle", "read", "scan", "run", "raise", "wild"}]
           /\ arg' \in [Threads -> (FlexQs \cup {None}) \X Nat]
           /\ gp' \in [Threads -> -1 .. PriMax]
           /\ AtHand'
  <1> DEFINE PCs == {"absent", "idle", "read", "scan", "run", "raise", "wild"}
             Typed == /\ tpri' \in [Threads -> Pris]
                      /\ tq' \in [Threads -> FlexQs \cup {None}]
                      /\ entries' \in [Threads -> Seq(Entries)]
                      /\ pc' \in [Threads -> PCs]
                      /\ arg' \in [Threads -> (FlexQs \cup {None}) \X Nat]
                      /\ gp' \in [Threads -> -1 .. PriMax]
                      /\ AtHand'
  <1>1. /\ tpri \in [Threads -> Pris] /\ tq \in [Threads -> FlexQs \cup {None}]
        /\ entries \in [Threads -> Seq(Entries)] /\ pc \in [Threads -> PCs]
        /\ arg \in [Threads -> (FlexQs \cup {None}) \X Nat]
        /\ gp \in [Threads -> -1 .. PriMax]
        /\ jobs \in [Queues -> Seq(Nat)]
    BY DEF TypeOK
  <1>2. CASE UNCHANGED <<tpri, tq, entries, pc, arg, gp>>
    BY <1>1, <1>2 DEF AtHand
  <1>3. \A t \in Threads : Saved(t) \in Entries
    BY <1>1 DEF Saved, Entries
  <1>4. \A t \in Threads : <<Saved(t)>> \o entries[t] \in Seq(Entries) /\ <<Saved(t)>> \o entries[t] # << >>
    <2> SUFFICES ASSUME NEW t \in Threads
                 PROVE  <<Saved(t)>> \o entries[t] \in Seq(Entries) /\ <<Saved(t)>> \o entries[t] # << >>
      OBVIOUS
    <2>1. PICK e \in Seq(Entries) : e = entries[t]
      BY <1>1
    <2>2. PICK x \in Entries : x = Saved(t)
      BY <1>3
    <2>3. <<x>> \o e \in Seq(Entries) /\ Len(<<x>> \o e) = 1 + Len(e) /\ Len(e) \in Nat
      OBVIOUS
    <2>4. <<x>> \o e # << >>
      BY <2>3
    <2> QED
      BY <2>1, <2>2, <2>3, <2>4
  <1>5. Pris \subseteq Nat
    BY DEF Pris
  <1>6. ASSUME NEW t \in Threads, NEW p \in Pris, SetStatic(t, p) PROVE Typed
    BY <1>1, <1>6 DEF SetStatic, local, AtHand
  <1>7. ASSUME NEW t \in Threads, NEW c \in Pris, YieldAt(t, c) PROVE Typed
    <2>1. /\ UNCHANGED <<tpri, tq, entries, gp>>
          /\ arg' = [arg EXCEPT ![t] = <<None, c>>] /\ pc' = [pc EXCEPT ![t] = "read"]
      BY <1>7 DEF YieldAt, Goto, tstate
    <2>2. arg' \in [Threads -> (FlexQs \cup {None}) \X Nat] /\ pc' \in [Threads -> PCs]
      BY <1>1, <1>5, <2>1
    <2>3. AtHand'
      BY <1>1, <2>1, OwnHand
    <2> QED
      BY <1>1, <2>1, <2>2, <2>3
  <1>8. ASSUME NEW t \in Threads, ReadHint(t) PROVE Typed
    <2>1. /\ UNCHANGED <<tpri, tq, entries, arg>> /\ pc[t] = "read"
          /\ gp' = [gp EXCEPT ![t] = AsInt(gpri)] /\ pc' = [pc EXCEPT ![t] = "scan"]
      BY <1>8 DEF ReadHint, Goto, tstate
    <2>2. gp' \in [Threads -> -1 .. PriMax] /\ pc' \in [Threads -> PCs]
      BY <1>1, <2>1, Hints
    <2>3. AtHand'
      BY <1>1, <2>1 DEF AtHand
    <2> QED
      BY <1>1, <2>1, <2>2, <2>3
  <1>9. ASSUME NEW t \in Threads, Scan(t) PROVE Typed
    <2>1. gp' \in [Threads -> -1 .. PriMax]
      <3>1. gp' = [gp EXCEPT ![t] = 0] /\ PriMax \in Nat
        BY <1>9, CallTaken, GWorkqAssumption
      <3>2. 0 \in -1 .. PriMax
        BY <3>1
      <3> QED
        BY <1>1, <3>1, <3>2
    <2>2. CASE /\ arg' = [arg EXCEPT ![t] = <<None, 0>>] /\ UNCHANGED <<jobs, tpri, entries, tq>>
               /\ pc' = [pc EXCEPT ![t] = "idle"]
      <3>1. AtHand'
        BY <1>1, <2>2, OwnHand
      <3>2. arg' \in [Threads -> (FlexQs \cup {None}) \X Nat] /\ pc' \in [Threads -> PCs]
        BY <1>1, <2>2
      <3> QED
        BY <1>1, <2>1, <2>2, <3>1, <3>2
    <2>3. ASSUME NEW p \in Pris, NEW q \in Queues, jobs[q] # << >>, q = p \/ q \in FlexQs,
                 arg' = [arg EXCEPT ![t] = <<None, Head(jobs[q])>>],
                 tpri' = [tpri EXCEPT ![t] = p],
                 entries' = [entries EXCEPT ![t] = <<Saved(t)>> \o @],
                 tq' = [tq EXCEPT ![t] = IF q = p THEN None ELSE q],
                 pc' = [pc EXCEPT ![t] = "run"]
          PROVE  Typed
      <3>1. Head(jobs[q]) \in Nat
        BY <1>1, <2>3
      <3>2. <<None, Head(jobs[q])>> \in (FlexQs \cup {None}) \X Nat
        BY <3>1
      <3>3. arg' \in [Threads -> (FlexQs \cup {None}) \X Nat]
        BY <1>1, <2>3, <3>2
      <3>4. tpri' \in [Threads -> Pris] /\ pc' \in [Threads -> PCs] /\ tq' \in [Threads -> FlexQs \cup {None}]
        BY <1>1, <2>3
      <3>5. entries' \in [Threads -> Seq(Entries)]
        BY <1>1, <1>4, <2>3
      <3>6. entries'[t] # << >>
        BY <1>1, <1>4, <2>3
      <3>7. arg'[t][1] = None /\ pc'[t] = "run"
        BY <1>1, <2>3
      <3>8. AtHand'
        BY <1>1, <2>3, <3>6, <3>7, OwnHand
      <3> QED
        BY <1>1, <2>1, <3>3, <3>4, <3>5, <3>8
    <2>4. CASE \E p \in Pris : \E q \in Queues :
                    /\ jobs[q] # << >> /\ (q = p \/ q \in FlexQs)
                    /\ arg' = [arg EXCEPT ![t] = <<None, Head(jobs[q])>>]
                    /\ tpri' = [tpri EXCEPT ![t] = p]
                    /\ entries' = [entries EXCEPT ![t] = <<Saved(t)>> \o @]
                    /\ tq' = [tq EXCEPT ![t] = IF q = p THEN None ELSE q]
                    /\ pc' = [pc EXCEPT ![t] = "run"]
      BY <2>3, <2>4
    <2>5. ASSUME NEW p \in Pris PROVE Selected(p) = p \/ Selected(p) \in FlexQs
      BY SelectedQueue
    <2> QED
      BY <1>9, <2>2, <2>4, <2>5, CallTaken
  <1>10. ASSUME NEW t \in Threads, RunEnd(t) PROVE Typed
    <2>1. /\ UNCHANGED gp /\ pc[t] = "run" /\ pc' = [pc EXCEPT ![t] = "idle"]
          /\ arg' = [arg EXCEPT ![t] = <<None, 0>>]
          /\ tpri' = [tpri EXCEPT ![t] = Head(entries[t]).priority]
          /\ tq' = [tq EXCEPT ![t] = Head(entries[t]).gflexq]
          /\ entries' = [entries EXCEPT ![t] = Tail(@)]
      BY <1>10 DEF RunEnd, Goto
    <2>2. entries[t] # << >> /\ entries[t] \in Seq(Entries)
      BY <1>1, <2>1 DEF AtHand
    <2>3. Head(entries[t]) \in Entries /\ Tail(entries[t]) \in Seq(Entries)
      BY <2>2
    <2>4. Head(entries[t]).priority \in Pris /\ Head(entries[t]).gflexq \in FlexQs \cup {None}
      BY <2>3 DEF Entries
    <2>5. tpri' \in [Threads -> Pris] /\ tq' \in [Threads -> FlexQs \cup {None}]
      BY <1>1, <2>1, <2>4
    <2>6. /\ entries' \in [Threads -> Seq(Entries)] /\ pc' \in [Threads -> PCs]
          /\ arg' \in [Threads -> (FlexQs \cup {None}) \X Nat]
      BY <1>1, <2>1, <2>3
    <2>7. AtHand'
      BY <1>1, <2>1, OwnHand
    <2> QED
      BY <1>1, <2>1, <2>5, <2>6, <2>7
  <1>11. ASSUME NEW t \in Threads, RaiseLocked(t) PROVE Typed
    <2>1. /\ UNCHANGED <<tpri, tq, entries, gp>>
          /\ arg' = [arg EXCEPT ![t] = <<None, 0>>]
          /\ \/ pc' = [pc EXCEPT ![t] = "idle"]
             \/ pc' = [u \in Threads |-> IF pc[u] = "absent" THEN "absent" ELSE "wild"]
      BY <1>11 DEF RaiseLocked, Raise, Goto, tstate
    <2>2. pc' \in [Threads -> PCs] /\ arg' \in [Threads -> (FlexQs \cup {None}) \X Nat]
      BY <1>1, <2>1
    <2>3. AtHand'
      <3>1. /\ \A u \in Threads : u # t => /\ pc'[u] \in {pc[u], "absent", "wild"}
                                         /\ arg'[u] = arg[u] /\ entries'[u] = entries[u]
            /\ pc'[t] \in {"absent", "idle", "wild"}
        BY <1>1, <2>1
      <3> QED
        BY <3>1, OwnHand
    <2> QED
      BY <1>1, <2>1, <2>2, <2>3
  <1>12. ASSUME NEW t \in Threads, Leave(t) PROVE Typed
    <2>1. /\ UNCHANGED <<tpri, pc, arg, gp>> /\ pc[t] = "idle" /\ entries[t] # << >>
          /\ tq' = [tq EXCEPT ![t] = Head(entries[t]).gflexq]
          /\ entries' = [entries EXCEPT ![t] = Tail(@)]
      BY <1>12 DEF Leave, local
    <2>2. Head(entries[t]) \in Entries /\ Tail(entries[t]) \in Seq(Entries)
      BY <1>1, <2>1
    <2>3. Head(entries[t]).gflexq \in FlexQs \cup {None}
      BY <2>2 DEF Entries
    <2>4. tq' \in [Threads -> FlexQs \cup {None}] /\ entries' \in [Threads -> Seq(Entries)]
      BY <1>1, <2>1, <2>2, <2>3
    <2>5. AtHand'
      BY <1>1, <2>1, OwnHand
    <2> QED
      BY <1>1, <2>1, <2>4, <2>5
  <1>13. ASSUME NEW t \in Threads, NEW q \in FlexQs, Enter(t, q) PROVE Typed
    <2>1. /\ UNCHANGED <<tpri, gp>> /\ pc[t] = "idle"
          /\ entries' = [entries EXCEPT ![t] = <<Saved(t)>> \o @]
          /\ tq' = [tq EXCEPT ![t] = q]
          /\ \/ arg' = [arg EXCEPT ![t] = <<q, tpri[t]>>] /\ pc' = [pc EXCEPT ![t] = "raise"]
             \/ UNCHANGED arg /\ pc' = [pc EXCEPT ![t] = "idle"]
             \/ UNCHANGED arg /\ pc' = [u \in Threads |-> IF pc[u] = "absent" THEN "absent" ELSE "wild"]
             \/ UNCHANGED <<arg, pc>>
      BY <1>13 DEF Enter, Raise, Goto
    <2>2. entries' \in [Threads -> Seq(Entries)] /\ tq' \in [Threads -> FlexQs \cup {None}]
      BY <1>1, <1>4, <2>1
    <2>3. tpri[t] \in Pris /\ <<q, tpri[t]>> \in FlexQs \X Pris
          /\ <<q, tpri[t]>> \in (FlexQs \cup {None}) \X Nat
      BY <1>1, <1>5
    <2>4. \A u \in Threads : u # t => entries'[u] = entries[u]
      BY <1>1, <2>1
    <2>5. CASE arg' = [arg EXCEPT ![t] = <<q, tpri[t]>>] /\ pc' = [pc EXCEPT ![t] = "raise"]
      <3>1. arg' \in [Threads -> (FlexQs \cup {None}) \X Nat] /\ pc' \in [Threads -> PCs]
        BY <1>1, <2>3, <2>5
      <3>2. AtHand'
        BY <1>1, <2>3, <2>4, <2>5, OwnHand
      <3> QED
        BY <1>1, <2>1, <2>2, <3>1, <3>2
    <2>6. CASE UNCHANGED arg /\ pc' = [pc EXCEPT ![t] = "idle"]
      <3>1. AtHand'
        BY <1>1, <2>4, <2>6, OwnHand
      <3> QED
        BY <1>1, <2>1, <2>2, <2>6, <3>1
    <2>7. CASE UNCHANGED arg /\ pc' = [u \in Threads |-> IF pc[u] = "absent" THEN "absent" ELSE "wild"]
      <3>1. pc' \in [Threads -> PCs] /\ AtHand'
        BY <1>1, <2>7 DEF AtHand
      <3> QED
        BY <1>1, <2>1, <2>2, <2>7, <3>1
    <2>8. CASE UNCHANGED <<arg, pc>>
      <3>1. AtHand'
        BY <1>1, <2>1, <2>4, <2>8, OwnHand
      <3> QED
        BY <1>1, <2>1, <2>2, <2>8, <3>1
    <2> QED
      BY <2>1, <2>5, <2>6, <2>7, <2>8
  <1>14. ASSUME NEW t \in Threads, NEW q \in FlexQs, NEW p \in Pris, RaisePriority(t, q, p) PROVE Typed
    <2>1. /\ UNCHANGED <<tpri, tq, entries, gp>>
          /\ arg' = [arg EXCEPT ![t] = <<q, p>>] /\ pc' = [pc EXCEPT ![t] = "raise"]
      BY <1>14 DEF RaisePriority, Goto, tstate
    <2>2. <<q, p>> \in FlexQs \X Pris /\ <<q, p>> \in (FlexQs \cup {None}) \X Nat
      BY <1>5
    <2>3. arg' \in [Threads -> (FlexQs \cup {None}) \X Nat] /\ pc' \in [Threads -> PCs]
      BY <1>1, <2>1, <2>2
    <2>4. AtHand'
      BY <1>1, <2>1, <2>2, OwnHand
    <2> QED
      BY <1>1, <2>1, <2>3, <2>4
  <1>15. ASSUME NEW t \in Threads,
                \/ \E p \in Pris : SchedAt(t, p)
                \/ \E q \in FlexQs : \E b \in BOOLEAN : FlexSched(t, q, b)
         PROVE  UNCHANGED <<tpri, tq, entries, pc, arg, gp>>
    BY <1>15 DEF SchedAt, FlexSched, tstate, local
  <1>16. UNCHANGED vars => UNCHANGED <<tpri, tq, entries, pc, arg, gp>>
    BY DEF vars
  <1>17. CASE Typed
    BY <1>17
  <1> QED
    <2> HIDE DEF Typed
    <2>1. UNCHANGED <<tpri, tq, entries, pc, arg, gp>> => Typed
      BY <1>2 DEF Typed
    <2>2. Typed
      BY <2>1, <1>6, <1>7, <1>8, <1>9, <1>10, <1>11, <1>12, <1>13, <1>14, <1>15, <1>16, Steps
    <2> QED
      BY <2>2, <1>17

-----------------------------------------------------------------------------
(* Flexible queues stay linked where they are looked for.                  *)

LEMMA FlexLinkedNext ==
    ASSUME TypeOK, AtHand, FlexLinked, Next
    PROVE  FlexLinked'
  <1>1. /\ jobs \in [Queues -> Seq(Nat)] /\ ring \in [Pris -> Seq(FlexQs)]
        /\ qpri \in [FlexQs -> Pris] /\ FlexQs \cap Pris = {}
    BY GWorkqAssumption DEF TypeOK, Pris
  <1>2. \A q \in FlexQs :
            /\ jobs[q] # << >> => \E p \in Pris : Contains(ring[p], q)
            /\ \A p \in Pris : Contains(ring[p], q) => p = qpri[q]
            /\ \A p \in Pris : Once(ring[p], q)
    BY DEF FlexLinked, Linked, Once
  <1>3. ASSUME \A q \in FlexQs :
                    /\ jobs'[q] # << >> => \E p \in Pris : Contains(ring'[p], q)
                    /\ \A p \in Pris : Contains(ring'[p], q) => p = qpri'[q]
                    /\ \A p \in Pris : Once(ring'[p], q)
        PROVE  FlexLinked'
    BY <1>3 DEF FlexLinked, Linked, Once
  <1>4. ASSUME UNCHANGED <<ring, qpri>>, \A q \in FlexQs : jobs'[q] # << >> => jobs[q] # << >>
        PROVE  FlexLinked'
    BY <1>2, <1>3, <1>4
  <1>5. ASSUME NEW t \in Threads, NEW p \in Pris, SchedAt(t, p) PROVE FlexLinked'
    <2>1. UNCHANGED <<ring, qpri>> /\ jobs' = [jobs EXCEPT ![p] = Append(@, next)]
      BY <1>5 DEF SchedAt
    <2>2. \A q \in FlexQs : jobs'[q] = jobs[q]
      BY <1>1, <2>1 DEF Queues
    <2> QED
      BY <1>4, <2>1, <2>2
  <1>6. ASSUME NEW t \in Threads, NEW q \in FlexQs, NEW b \in BOOLEAN, FlexSched(t, q, b)
        PROVE  FlexLinked'
    <2>1. UNCHANGED qpri
      BY <1>6, CallQueued
    <2>2. /\ jobs' = [jobs EXCEPT ![q] = Append(@, next)]
          /\ \A r \in Pris : \A x \in FlexQs : Once(ring'[r], x)
      BY <1>6, CallQueued
    <2>3. \A x \in FlexQs : x # q => jobs'[x] = jobs[x]
      BY <1>1, <2>2 DEF Queues
    <2>4. CASE Linked(q)
      <3>1. UNCHANGED ring
        BY <1>6, <2>4, CallQueued
      <3>2. \E p \in Pris : Contains(ring[p], q)
        BY <2>4 DEF Linked
      <3> QED
        BY <1>2, <1>3, <2>1, <2>2, <2>3, <3>1, <3>2
    <2>5. CASE ~ Linked(q)
      <3>1. \A r \in Pris : \A x \in FlexQs :
                Contains(ring'[r], x) <=> ((r = qpri[q] /\ x = q) \/ Contains(ring[r], x))
        BY <1>6, <2>5, CallQueued
      <3>2. \A r \in Pris : ~ Contains(ring[r], q)
        BY <2>5 DEF Linked
      <3>3. qpri[q] \in Pris
        BY <1>1
      <3>4. ASSUME NEW x \in FlexQs, jobs'[x] # << >> PROVE \E p \in Pris : Contains(ring'[p], x)
        <4>1. CASE x = q
          BY <3>1, <3>3, <4>1
        <4>2. CASE x # q
          BY <1>2, <2>3, <3>1, <3>4, <4>2
        <4> QED
          BY <4>1, <4>2
      <3>5. \A x \in FlexQs : \A p \in Pris : Contains(ring'[p], x) => p = qpri'[x]
        BY <1>2, <2>1, <3>1
      <3> QED
        BY <1>3, <2>2, <3>4, <3>5
    <2> QED
      BY <2>4, <2>5
  <1>7. ASSUME NEW t \in Threads, Scan(t) PROVE FlexLinked'
    <2>1. ring' = Unlinked(gp[t], arg[t][2]) /\ UNCHANGED qpri
      BY <1>7, CallTaken
    <2>2. \A q \in FlexQs : jobs'[q] # << >> => jobs[q] # << >>
      <3>1. CASE UNCHANGED jobs
        BY <3>1
      <3>2. ASSUME NEW s \in Queues, jobs[s] # << >>, jobs' = [jobs EXCEPT ![s] = Tail(@)]
            PROVE  \A q \in FlexQs : jobs'[q] # << >> => jobs[q] # << >>
        BY <1>1, <3>2 DEF Queues
      <3> QED
        BY <1>7, <3>1, <3>2, CallTaken
    <2>3. ASSUME NEW p \in Pris
          PROVE  /\ \A q \in FlexQs : Contains(ring'[p], q) => Contains(ring[p], q)
                 /\ \A q \in FlexQs : Contains(ring[p], q) /\ jobs[q] # << >> => Contains(ring'[p], q)
                 /\ \A q \in FlexQs : Once(ring'[p], q)
      <3>0. \E k \in 1 .. Len(ring[p]) + 1 :
                /\ Unlinked(gp[t], arg[t][2])[p] = SubSeq(ring[p], k, Len(ring[p]))
                /\ \A i \in 1 .. k - 1 : jobs[ring[p][i]] = << >>
        BY UnlinkedRings
      <3>1. PICK k \in 1 .. Len(ring[p]) + 1 :
                /\ ring'[p] = SubSeq(ring[p], k, Len(ring[p]))
                /\ \A i \in 1 .. k - 1 : jobs[ring[p][i]] = << >>
        BY <2>1, <3>0
      <3>2. PICK w : w = SubSeq(ring[p], k, Len(ring[p]))
        OBVIOUS
      <3>3. PICK s \in Seq(FlexQs) : s = ring[p]
        BY <1>1
      <3>4. /\ w \in Seq(FlexQs) /\ Len(w) = Len(s) - k + 1 /\ Len(s) \in Nat
            /\ \A i \in 1 .. Len(s) - k + 1 : w[i] = s[i + k - 1]
        <4>1. k \in 1 .. Len(s) + 1
          BY <3>1, <3>3
        <4> QED
          BY <3>2, <3>3, <4>1, TailOf
      <3>5. DOMAIN w = 1 .. Len(s) - k + 1 /\ k \in Int /\ 1 <= k /\ k <= Len(s) + 1
        BY <3>1, <3>3, <3>4
      <3>6. \A i \in DOMAIN w : i + k - 1 \in DOMAIN s /\ i + k - 1 \in 1 .. Len(s)
        BY <3>3, <3>4, <3>5
      <3>7. \A q \in FlexQs : Contains(w, q) => Contains(s, q)
        <4> SUFFICES ASSUME NEW q \in FlexQs, NEW i \in 1 .. Len(w), w[i] = q PROVE Contains(s, q)
          BY DEF Contains
        <4>1. i + k - 1 \in 1 .. Len(s) /\ s[i + k - 1] = q
          BY <3>4, <3>5, <3>6
        <4> QED
          BY <4>1 DEF Contains
      <3>8. \A q \in FlexQs : Contains(s, q) /\ jobs[q] # << >> => Contains(w, q)
        <4> SUFFICES ASSUME NEW q \in FlexQs, NEW i \in 1 .. Len(s), s[i] = q, jobs[q] # << >>
                     PROVE  Contains(w, q)
          BY DEF Contains
        <4>1. ~ (i \in 1 .. k - 1)
          BY <3>1, <3>3
        <4>2. i - k + 1 \in 1 .. Len(w) /\ (i - k + 1) + k - 1 = i
          BY <3>4, <3>5, <4>1
        <4>3. w[i - k + 1] = q
          BY <3>4, <4>2
        <4> QED
          BY <4>2, <4>3 DEF Contains
      <3>9. \A q \in FlexQs : Once(w, q)
        <4> SUFFICES ASSUME NEW q \in FlexQs, NEW i \in DOMAIN w, NEW j \in DOMAIN w, w[i] = q, w[j] = q
                     PROVE  i = j
          BY DEF Once
        <4>1. s[i + k - 1] = q /\ s[j + k - 1] = q
          BY <3>4, <3>5
        <4>2. i + k - 1 = j + k - 1
          BY <1>2, <3>3, <3>6, <4>1 DEF Once
        <4> QED
          BY <3>5, <4>2
      <3> QED
        BY <3>1, <3>2, <3>3, <3>7, <3>8, <3>9
    <2> QED
      BY <1>2, <1>3, <2>1, <2>2, <2>3
  <1>8. ASSUME NEW q \in FlexQs, NEW p \in Pris, SetPriority(q, p), UNCHANGED jobs PROVE FlexLinked'
    <2>1. /\ qpri' = [qpri EXCEPT ![q] = p]
          /\ \A r \in Pris : \A x \in FlexQs : Once(ring'[r], x)
      BY <1>8, PriorityChanged
    <2>2. qpri'[q] = p /\ \A x \in FlexQs : x # q => qpri'[x] = qpri[x]
      BY <1>1, <2>1
    <2>3. CASE Linked(q)
      <3>1. \A r \in Pris : \A x \in FlexQs :
                Contains(ring'[r], x) <=> ((r = p /\ x = q) \/ (x # q /\ Contains(ring[r], x)))
        BY <1>8, <2>3, PriorityChanged
      <3>2. ASSUME NEW x \in FlexQs, jobs'[x] # << >> PROVE \E r \in Pris : Contains(ring'[r], x)
        BY <1>2, <1>8, <3>1, <3>2
      <3>3. \A x \in FlexQs : \A r \in Pris : Contains(ring'[r], x) => r = qpri'[x]
        BY <1>2, <2>2, <3>1
      <3> QED
        BY <1>3, <2>1, <3>2, <3>3
    <2>4. CASE ~ Linked(q)
      <3>1. UNCHANGED ring
        BY <1>8, <2>4, PriorityChanged
      <3>2. \A r \in Pris : ~ Contains(ring[r], q)
        BY <2>4 DEF Linked
      <3> QED
        BY <1>2, <1>3, <1>8, <2>1, <2>2, <3>1, <3>2
    <2> QED
      BY <2>3, <2>4
  <1>9. ASSUME NEW t \in Threads, RaiseLocked(t) PROVE FlexLinked'
    <2>1. PICK q \in FlexQs, p \in Pris : SetPriority(q, p) /\ UNCHANGED jobs
      BY <1>9 DEF RaiseLocked, Raise, AtHand
    <2> QED
      BY <1>8, <2>1
  <1>10. ASSUME NEW t \in Threads, NEW q \in FlexQs, Enter(t, q) PROVE FlexLinked'
    <2>1. \/ UNCHANGED <<jobs, ring, qpri>>
          \/ SetPriority(q, CurrentPriority(t)) /\ UNCHANGED jobs
      BY <1>10 DEF Enter, Raise
    <2>2. CurrentPriority(t) \in Pris
      BY DEF CurrentPriority, TypeOK
    <2> QED
      BY <1>4, <1>8, <2>1, <2>2
  <1>11. ASSUME NEW t \in Threads,
                \/ \E p \in Pris : SetStatic(t, p)
                \/ \E c \in Pris : YieldAt(t, c)
                \/ ReadHint(t) \/ RunEnd(t) \/ Leave(t)
                \/ \E q \in FlexQs : \E p \in Pris : RaisePriority(t, q, p)
         PROVE  UNCHANGED <<jobs, ring, qpri>>
    BY <1>11 DEF SetStatic, YieldAt, ReadHint, RunEnd, Leave, RaisePriority, queues
  <1>12. UNCHANGED vars => UNCHANGED <<jobs, ring, qpri>>
    BY DEF vars
  <1>13. UNCHANGED <<jobs, ring, qpri>> => FlexLinked'
    BY <1>4
  <1> QED
    BY <1>5, <1>6, <1>7, <1>9, <1>10, <1>11, <1>12, <1>13, Steps

-----------------------------------------------------------------------------
(* Calls are taken once.                                                   *)

\* A call is scheduled.
LEMMA CallAdded ==
    ASSUME TypeOK, CallsOnce, Numbered, NEW q \in Queues,
           jobs' = [jobs EXCEPT ![q] = Append(@, next)], next' = next + 1, UNCHANGED <<pc, arg>>
    PROVE  CallsOnce' /\ Numbered'
  <1>1. jobs \in [Queues -> Seq(Nat)] /\ next \in Nat
    BY DEF TypeOK
  <1>2. PICK s \in Seq(Nat) : s = jobs[q]
    BY <1>1
  <1>3. PICK w : w = Append(s, next)
    OBVIOUS
  <1>4. /\ DOMAIN w = 1 .. Len(s) + 1 /\ DOMAIN s = 1 .. Len(s) /\ Len(s) \in Nat
        /\ Len(w) = Len(s) + 1
        /\ \A i \in 1 .. Len(s) : w[i] = s[i]
        /\ w[Len(s) + 1] = next
    BY <1>1, <1>2, <1>3
  <1>5. jobs'[q] = w /\ \A r \in Queues : r # q => jobs'[r] = jobs[r]
    BY <1>1, <1>2, <1>3
  <1>6. \A i \in DOMAIN s : s[i] < next /\ s[i] \in Nat
    BY <1>2, <1>4 DEF Numbered
  <1>7. \A i \in DOMAIN w : w[i] = next \/ (i \in DOMAIN s /\ w[i] = s[i])
    <2> SUFFICES ASSUME NEW i \in DOMAIN w PROVE w[i] = next \/ (i \in DOMAIN s /\ w[i] = s[i])
      OBVIOUS
    <2>1. i = Len(s) + 1 \/ i \in 1 .. Len(s)
      BY <1>4
    <2> QED
      BY <1>4, <2>1
  <1>8. \A r \in Queues : \A i \in DOMAIN jobs[r] : jobs[r][i] < next /\ jobs[r][i] \in Nat /\ jobs[r][i] # next
    <2> SUFFICES ASSUME NEW r \in Queues, NEW i \in DOMAIN jobs[r]
                 PROVE  jobs[r][i] < next /\ jobs[r][i] \in Nat /\ jobs[r][i] # next
      OBVIOUS
    <2>1. jobs[r] \in Seq(Nat) /\ jobs[r][i] < next
      BY <1>1 DEF Numbered
    <2>2. jobs[r][i] \in Nat
      BY <2>1
    <2> QED
      BY <1>1, <2>1, <2>2
  <1>9. ASSUME NEW r \in Queues
        PROVE  \A i \in DOMAIN jobs'[r] :
                    /\ jobs'[r][i] < next'
                    /\ (jobs'[r][i] = next /\ r = q) \/ (i \in DOMAIN jobs[r] /\ jobs'[r][i] = jobs[r][i])
    <2>1. CASE r = q
      BY <1>1, <1>2, <1>5, <1>6, <1>7, <2>1
    <2>2. CASE r # q
      BY <1>1, <1>5, <1>8, <2>2
    <2> QED
      BY <2>1, <2>2
  <1>10. ASSUME NEW r \in Queues, NEW i \in DOMAIN jobs'[r], NEW j \in DOMAIN jobs'[r], i < j
         PROVE  jobs'[r][i] < jobs'[r][j]
    <2>1. \A k, l \in DOMAIN jobs[r] : k < l => jobs[r][k] < jobs[r][l]
      BY DEF CallsOnce
    <2>2. CASE r = q
      <3>1. i \in 1 .. Len(s) + 1 /\ j \in 1 .. Len(s) + 1
        BY <1>4, <1>5, <2>2, <1>10
      <3>2. CASE j = Len(s) + 1
        <4>1. i \in DOMAIN s
          BY <1>4, <1>10, <3>1, <3>2
        <4> QED
          BY <1>4, <1>5, <1>6, <2>2, <3>2, <4>1
      <3>3. CASE j # Len(s) + 1
        <4>1. i \in DOMAIN s /\ j \in DOMAIN s
          BY <1>4, <1>10, <3>1, <3>3
        <4> QED
          BY <1>2, <1>4, <1>5, <1>10, <2>1, <2>2, <4>1
      <3> QED
        BY <3>2, <3>3
    <2>3. CASE r # q
      BY <1>5, <1>10, <2>1, <2>3
    <2> QED
      BY <2>2, <2>3
  <1>11. ASSUME NEW r \in Queues, NEW u \in Queues, r # u,
                NEW i \in DOMAIN jobs'[r], NEW j \in DOMAIN jobs'[u]
         PROVE  jobs'[r][i] # jobs'[u][j]
    <2>1. \A k \in DOMAIN jobs[r] : \A l \in DOMAIN jobs[u] : jobs[r][k] # jobs[u][l]
      BY <1>11 DEF CallsOnce, ToSet
    <2> QED
      BY <1>8, <1>9, <1>11, <2>1
  <1>12. ASSUME NEW t \in Threads, NEW r \in Queues, pc'[t] = "run", NEW i \in 1 .. Len(jobs'[r])
         PROVE  jobs'[r][i] # arg'[t][2]
    <2>1. pc[t] = "run" /\ arg'[t] = arg[t] /\ arg[t] \in (FlexQs \cup {None}) \X Nat
      BY <1>12 DEF TypeOK
    <2>2. arg[t][2] < next /\ arg[t][2] \in Nat /\ arg[t][2] # next
      BY <1>1, <2>1 DEF Numbered
    <2>3. jobs[r] \in Seq(Nat) /\ \A k \in 1 .. Len(jobs[r]) : jobs[r][k] # arg[t][2]
      BY <1>1, <2>1 DEF CallsOnce, Contains
    <2>4. DOMAIN jobs[r] = 1 .. Len(jobs[r])
      BY <2>3
    <2>5. i \in DOMAIN jobs'[r]
      <3>1. jobs'[r] \in Seq(Nat)
        BY <1>1, <1>2, <1>3, <1>5, <2>3
      <3> QED
        BY <3>1
    <2> QED
      BY <1>9, <2>1, <2>2, <2>3, <2>4, <2>5
  <1>13. CallsOnce'
    <2>1. \A r, u \in Queues : r # u => ToSet(jobs'[r]) \cap ToSet(jobs'[u]) = {}
      BY <1>11 DEF ToSet
    <2>2. \A t \in Threads, r \in Queues : pc'[t] = "run" => ~ Contains(jobs'[r], arg'[t][2])
      BY <1>12 DEF Contains
    <2>3. \A t, u \in Threads : (pc'[t] = "run" /\ pc'[u] = "run" /\ t # u) => arg'[t] # arg'[u]
      BY DEF CallsOnce
    <2>4. \A r \in Queues : \A i, j \in DOMAIN jobs'[r] : i < j => jobs'[r][i] < jobs'[r][j]
      BY <1>10
    <2> QED
      BY <2>1, <2>2, <2>3, <2>4 DEF CallsOnce
  <1>14. Numbered'
    <2>1. \A t \in Threads : pc'[t] = "run" => arg'[t][2] < next'
      <3> SUFFICES ASSUME NEW t \in Threads, pc'[t] = "run" PROVE arg'[t][2] < next'
        OBVIOUS
      <3>1. arg'[t] = arg[t] /\ arg[t][2] \in Nat /\ arg[t][2] < next
        BY DEF Numbered, TypeOK
      <3> QED
        BY <1>1, <3>1
    <2> QED
      BY <1>9, <2>1 DEF Numbered
  <1> QED
    BY <1>13, <1>14

\* A call is taken off its queue and run.
LEMMA CallRun ==
    ASSUME TypeOK, AtHand, CallsOnce, Numbered, NEW q \in Queues, jobs[q] # << >>,
           NEW t \in Threads, pc[t] # "run",
           jobs' = [jobs EXCEPT ![q] = Tail(@)], UNCHANGED next,
           arg' = [arg EXCEPT ![t] = <<None, Head(jobs[q])>>], pc' = [pc EXCEPT ![t] = "run"]
    PROVE  CallsOnce' /\ Numbered'
  <1>1. /\ jobs \in [Queues -> Seq(Nat)] /\ next \in Nat
        /\ arg \in [Threads -> (FlexQs \cup {None}) \X Nat] /\ DOMAIN pc = Threads
    BY DEF TypeOK
  <1>2. PICK s \in Seq(Nat) : s = jobs[q]
    BY <1>1
  <1>3. PICK w : w = Tail(s)
    OBVIOUS
  <1>4. /\ w \in Seq(Nat) /\ Len(w) = Len(s) - 1 /\ DOMAIN w = 1 .. Len(s) - 1
        /\ DOMAIN s = 1 .. Len(s) /\ Len(s) \in Nat /\ Len(s) # 0 /\ Head(s) = s[1]
        /\ \A i \in 1 .. Len(s) - 1 : w[i] = s[i + 1]
    BY <1>2, <1>3
  <1>5. jobs'[q] = w /\ \A r \in Queues : r # q => jobs'[r] = jobs[r]
    BY <1>1, <1>2, <1>3
  <1>6. ASSUME NEW i \in DOMAIN w PROVE i + 1 \in DOMAIN s /\ w[i] = s[i + 1] /\ 1 < i + 1
    <2>1. i \in 1 .. Len(s) - 1 /\ Len(s) \in Nat
      BY ONLY <1>4, <1>6
    <2>2. i + 1 \in 1 .. Len(s) /\ 1 < i + 1
      BY ONLY <2>1
    <2> QED
      BY ONLY <1>4, <2>1, <2>2
  <1>7. /\ arg'[t] = <<None, s[1]>> /\ pc'[t] = "run" /\ 1 \in DOMAIN s
        /\ \A u \in Threads : u # t => arg'[u] = arg[u] /\ pc'[u] = pc[u]
    BY <1>1, <1>2, <1>4
  <1>8. \A r \in Queues : jobs[r] \in Seq(Nat) /\ DOMAIN jobs[r] = 1 .. Len(jobs[r])
    BY <1>1
  <1>9. \A r \in Queues : \A i \in DOMAIN jobs'[r] : \E j \in DOMAIN jobs[r] :
            jobs'[r][i] = jobs[r][j] /\ (r = q => j = i + 1)
    BY <1>2, <1>5, <1>6
  <1>10. \A r \in Queues : DOMAIN jobs'[r] = 1 .. Len(jobs'[r])
    BY <1>4, <1>5, <1>8
  <1>11. ASSUME NEW r \in Queues, NEW i \in DOMAIN jobs'[r], NEW j \in DOMAIN jobs'[r], i < j
         PROVE  jobs'[r][i] < jobs'[r][j]
    <2>1. \A k, l \in DOMAIN jobs[r] : k < l => jobs[r][k] < jobs[r][l]
      BY DEF CallsOnce
    <2>2. CASE r = q
      <3>0. i \in DOMAIN w /\ j \in DOMAIN w
        BY <1>5, <2>2
      <3>1. i \in DOMAIN w /\ j \in DOMAIN w /\ i + 1 < j + 1
        BY ONLY <1>4, <1>11, <3>0
      <3> QED
        BY <1>2, <1>5, <1>6, <2>1, <2>2, <3>1
    <2>3. CASE r # q
      BY <1>5, <1>11, <2>1, <2>3
    <2> QED
      BY <2>2, <2>3
  <1>12. ASSUME NEW r \in Queues, NEW u \in Queues, r # u,
                NEW i \in DOMAIN jobs'[r], NEW j \in DOMAIN jobs'[u]
         PROVE  jobs'[r][i] # jobs'[u][j]
    <2>1. \A k \in DOMAIN jobs[r] : \A l \in DOMAIN jobs[u] : jobs[r][k] # jobs[u][l]
      BY <1>12 DEF CallsOnce, ToSet
    <2> QED
      BY <1>9, <2>1
  <1>13. ASSUME NEW r \in Queues, NEW i \in DOMAIN jobs'[r] PROVE jobs'[r][i] # s[1]
    <2>1. CASE r = q
      <3>1. i \in DOMAIN w /\ s[1] < s[i + 1]
        BY <1>2, <1>5, <1>6, <1>7, <1>13, <2>1 DEF CallsOnce
      <3>2. s[1] \in Nat /\ s[i + 1] \in Nat
        BY <1>4, <1>6, <3>1
      <3> QED
        BY <1>5, <1>6, <2>1, <3>1, <3>2
    <2>2. CASE r # q
      <3>1. i \in DOMAIN jobs[r] /\ jobs'[r][i] = jobs[r][i]
        BY <1>5, <2>2
      <3>a. 1 \in DOMAIN jobs[q] /\ ToSet(jobs[q]) \cap ToSet(jobs[r]) = {}
        BY <1>2, <1>7, <2>2 DEF CallsOnce
      <3>2. jobs[r][i] # jobs[q][1]
        BY ONLY <3>a, <3>1 DEF ToSet
      <3> QED
        BY <1>2, <3>1, <3>2
    <2> QED
      BY <2>1, <2>2
  <1>14. ASSUME NEW u \in Threads, u # t, pc[u] = "run"
         PROVE  /\ arg[u][1] = None /\ arg[u][2] # s[1]
                /\ \A r \in Queues : \A i \in DOMAIN jobs'[r] : jobs'[r][i] # arg[u][2]
    <2>1. \A r \in Queues : \A i \in DOMAIN jobs[r] : jobs[r][i] # arg[u][2]
      BY <1>8, <1>14 DEF CallsOnce, Contains
    <2> QED
      <3>1. 1 \in DOMAIN jobs[q] /\ jobs[q][1] = s[1]
        BY <1>2, <1>7
      <3>2. arg[u][2] # s[1]
        BY <2>1, <3>1
      <3>3. arg[u][1] = None
        BY <1>14 DEF AtHand
      <3>4. \A r \in Queues : \A i \in DOMAIN jobs'[r] : jobs'[r][i] # arg[u][2]
        BY <1>9, <2>1
      <3> QED
        BY <3>2, <3>3, <3>4
  <1>15. CallsOnce'
    <2>1. \A r, u \in Queues : r # u => ToSet(jobs'[r]) \cap ToSet(jobs'[u]) = {}
      BY <1>12 DEF ToSet
    <2>2. \A u \in Threads, r \in Queues : pc'[u] = "run" => ~ Contains(jobs'[r], arg'[u][2])
      <3> SUFFICES ASSUME NEW u \in Threads, NEW r \in Queues, pc'[u] = "run", NEW i \in DOMAIN jobs'[r]
                   PROVE  jobs'[r][i] # arg'[u][2]
        BY <1>10 DEF Contains
      <3>1. CASE u = t
        BY <1>7, <1>13, <3>1
      <3>2. CASE u # t
        BY <1>7, <1>14, <3>2
      <3> QED
        BY <3>1, <3>2
    <2>3. ASSUME NEW u \in Threads, NEW v \in Threads, pc'[u] = "run", pc'[v] = "run", u # v
          PROVE  arg'[u] # arg'[v]
      <3>1. CASE u # t /\ v # t
        BY <1>7, <2>3, <3>1 DEF CallsOnce
      <3>2. CASE u = t
        BY <1>7, <1>14, <2>3, <3>2
      <3>3. CASE v = t
        BY <1>7, <1>14, <2>3, <3>3
      <3> QED
        BY <3>1, <3>2, <3>3
    <2>4. \A r \in Queues : \A i, j \in DOMAIN jobs'[r] : i < j => jobs'[r][i] < jobs'[r][j]
      BY <1>11
    <2> QED
      BY <2>1, <2>2, <2>3, <2>4 DEF CallsOnce
  <1>16. Numbered'
    <2>1. \A r \in Queues : \A i \in DOMAIN jobs'[r] : jobs'[r][i] < next'
      BY <1>9 DEF Numbered
    <2>2. s[1] < next
      BY <1>2, <1>7 DEF Numbered
    <2>3. \A u \in Threads : pc'[u] = "run" => arg'[u][2] < next'
      BY <1>7, <2>2 DEF Numbered
    <2> QED
      BY <2>1, <2>3 DEF Numbered
  <1> QED
    BY <1>15, <1>16

LEMMA CallsKept ==
    ASSUME TypeOK, CallsOnce, Numbered, UNCHANGED <<jobs, next>>,
           \A t \in Threads : pc'[t] = "run" => pc[t] = "run" /\ arg'[t] = arg[t]
    PROVE  CallsOnce' /\ Numbered'
  BY DEF CallsOnce, Numbered

LEMMA CallsOnceNext ==
    ASSUME TypeOK, AtHand, FlexLinked, CallsOnce, Numbered, Next
    PROVE  CallsOnce' /\ Numbered'
  <1>1. DOMAIN pc = Threads /\ DOMAIN arg = Threads
    BY DEF TypeOK
  <1>2. ASSUME NEW t \in Threads, NEW p \in Pris, SchedAt(t, p) PROVE CallsOnce' /\ Numbered'
    <2>1. jobs' = [jobs EXCEPT ![p] = Append(@, next)] /\ next' = next + 1 /\ UNCHANGED <<pc, arg>>
      BY <1>2 DEF SchedAt, local
    <2>2. p \in Queues
      BY DEF Queues
    <2> QED
      BY <2>1, <2>2, CallAdded
  <1>3. ASSUME NEW t \in Threads, NEW q \in FlexQs, NEW b \in BOOLEAN, FlexSched(t, q, b)
        PROVE  CallsOnce' /\ Numbered'
    <2>1. UNCHANGED <<pc, arg>>
      BY <1>3 DEF FlexSched, local
    <2>2. jobs' = [jobs EXCEPT ![q] = Append(@, next)] /\ next' = next + 1
      BY <1>3, CallQueued
    <2>3. q \in Queues
      BY DEF Queues
    <2> QED
      BY <2>1, <2>2, <2>3, CallAdded
  <1>4. ASSUME NEW t \in Threads, Scan(t) PROVE CallsOnce' /\ Numbered'
    <2>1. UNCHANGED next /\ pc[t] = "scan"
      BY <1>4, CallTaken DEF Scan
    <2>2. CASE /\ UNCHANGED jobs /\ arg' = [arg EXCEPT ![t] = <<None, 0>>]
               /\ pc' = [pc EXCEPT ![t] = "idle"]
      <3>1. \A u \in Threads : pc'[u] = "run" => pc[u] = "run" /\ arg'[u] = arg[u]
        BY <1>1, <2>2
      <3> QED
        BY <2>1, <2>2, <3>1, CallsKept
    <2>3. ASSUME NEW q \in Queues, jobs[q] # << >>, jobs' = [jobs EXCEPT ![q] = Tail(@)],
                 arg' = [arg EXCEPT ![t] = <<None, Head(jobs[q])>>], pc' = [pc EXCEPT ![t] = "run"]
          PROVE  CallsOnce' /\ Numbered'
      BY <2>1, <2>3, CallRun
    <2> QED
      BY <1>4, <2>2, <2>3, CallTaken
  <1>5. ASSUME NEW t \in Threads,
               \/ \E p \in Pris : SetStatic(t, p)
               \/ \E c \in Pris : YieldAt(t, c)
               \/ ReadHint(t) \/ RunEnd(t) \/ Leave(t) \/ RaiseLocked(t)
               \/ \E q \in FlexQs : Enter(t, q)
               \/ \E q \in FlexQs : \E p \in Pris : RaisePriority(t, q, p)
        PROVE  CallsOnce' /\ Numbered'
    <2>1. UNCHANGED <<jobs, next>>
      BY <1>5 DEF SetStatic, YieldAt, ReadHint, RunEnd, Leave, RaiseLocked, Enter, RaisePriority, queues
    <2>2. CASE \/ \E p \in Pris : SetStatic(t, p)
               \/ \E c \in Pris : YieldAt(t, c)
               \/ ReadHint(t) \/ RunEnd(t) \/ Leave(t)
               \/ \E q \in FlexQs : \E p \in Pris : RaisePriority(t, q, p)
      <3>1. \A u \in Threads : pc'[u] = "run" => pc[u] = "run" /\ arg'[u] = arg[u]
        BY <1>1, <2>2 DEF SetStatic, YieldAt, ReadHint, RunEnd, Leave, RaisePriority, Goto, local
      <3> QED
        BY <2>1, <3>1, CallsKept
    <2>3. CASE RaiseLocked(t)
      <3>1. \A u \in Threads : pc'[u] = "run" => pc[u] = "run" /\ arg'[u] = arg[u]
        BY <1>1, <2>3 DEF RaiseLocked, Raise, Goto
      <3> QED
        BY <2>1, <3>1, CallsKept
    <2>4. CASE \E q \in FlexQs : Enter(t, q)
      <3>1. PICK q \in FlexQs : Enter(t, q)
        BY <2>4
      <3>2. \/ UNCHANGED arg /\ Raise(t, q, CurrentPriority(t), "idle")
            \/ arg' = [arg EXCEPT ![t] = <<q, tpri[t]>>] /\ Goto(t, "raise")
            \/ UNCHANGED <<pc, arg>>
        BY <3>1 DEF Enter
      <3>3. \A u \in Threads : pc'[u] = "run" => pc[u] = "run" /\ arg'[u] = arg[u]
        BY <1>1, <3>2 DEF Raise, Goto
      <3> QED
        BY <2>1, <3>3, CallsKept
    <2> QED
      BY <1>5, <2>2, <2>3, <2>4
  <1>6. CASE UNCHANGED vars
    <2>1. UNCHANGED <<jobs, next, pc, arg>>
      BY <1>6 DEF vars
    <2> QED
      BY <2>1, CallsKept
  <1> QED
    BY <1>2, <1>3, <1>4, <1>5, <1>6, Steps

-----------------------------------------------------------------------------
(* The hint.                                                               *)

LEMMA NotEmpty ==
    ASSUME NEW S, NEW s \in Seq(S)
    PROVE  s # << >> <=> \E x \in S : Contains(s, x)
  <1>1. s # << >> => 1 \in 1 .. Len(s) /\ s[1] \in S
    OBVIOUS
  <1>2. s = << >> => 1 .. Len(s) = {}
    OBVIOUS
  <1> QED
    BY <1>1, <1>2 DEF Contains

\* The loop of a yield stops at the greatest priority with work.
LEMMA ScansAll ==
    ASSUME TypeOK, NEW from \in -1 .. PriMax, NEW cutoff \in Pris,
           \A p \in Scanned(from, cutoff) : ~ HasWork(p)
    PROVE  \A p \in Pris : cutoff <= p /\ p <= from => p \in Scanned(from, cutoff)
  <1> DEFINE Busy == {p \in Pris : cutoff <= p /\ p <= from /\ HasWork(p)}
             Below == {from - p : p \in Busy}
  <1>1. PriMax \in Nat
    BY GWorkqAssumption
  <1>2. Busy = {}
    <2> SUFFICES ASSUME Busy # {} PROVE FALSE
      OBVIOUS
    <2>1. Below \in SUBSET Nat
      BY <1>1 DEF Pris
    <2>2. Below # {}
      OBVIOUS
    <2>3. PICK m \in Below : \A n \in Below : m <= n
      <3> HIDE DEF Below
      <3> QED
        BY <2>1, <2>2, LeastNatural
    <2>4. PICK p \in Busy : m = from - p
      OBVIOUS
    <2>5. \A r \in p + 1 .. from : ~ HasWork(r)
      <3> SUFFICES ASSUME NEW r \in p + 1 .. from, HasWork(r) PROVE FALSE
        OBVIOUS
      <3>1. r \in Pris /\ cutoff <= r /\ r <= from
        BY <1>1 DEF Pris
      <3>2. r \in Busy
        BY <3>1
      <3>3. from - p <= from - r
        BY <2>3, <2>4, <3>2
      <3> QED
        BY <1>1, <3>3 DEF Pris
    <2>6. p \in Scanned(from, cutoff) /\ HasWork(p)
      BY <2>5 DEF Scanned
    <2> QED
      BY <2>6
  <1>3. ASSUME NEW p \in Pris, cutoff <= p, p <= from PROVE p \in Scanned(from, cutoff)
    <2>1. \A r \in p + 1 .. from : r \in Pris /\ cutoff <= r /\ r <= from
      BY <1>1, <1>3 DEF Pris
    <2>2. \A r \in p + 1 .. from : ~ HasWork(r)
      BY <1>2, <2>1
    <2> QED
      BY <1>3, <2>2 DEF Scanned
  <1> QED
    BY <1>3

LEMMA CoversScan ==
    ASSUME TypeOK, AtHand, Covers, NEW t \in Threads, Scan(t), ~slip'
    PROVE  \A p \in Pris : ring'[p] # << >> \/ jobs'[p] # << >> => p <= AsInt(gpri')
  <1>1. /\ PriMax \in Nat /\ FlexQs \cap Pris = {} /\ Pris \subseteq Nat
        /\ jobs \in [Queues -> Seq(Nat)]
    <2>1. PriMax \in Nat /\ FlexQs \cap Int = {}
      BY GWorkqAssumption
    <2>2. Pris \subseteq Nat /\ FlexQs \cap Pris = {}
      BY <2>1 DEF Pris
    <2>3. jobs \in [Queues -> Seq(Nat)]
      BY DEF TypeOK
    <2> QED
      BY <2>1, <2>2, <2>3
  <1>2. PICK from : from = gp[t]
    OBVIOUS
  <1>3. PICK c : c = arg[t][2]
    OBVIOUS
  <1>4. /\ c \in Pris /\ from \in -1 .. PriMax
        /\ \A r \in Pris : r > from => ring[r] = << >> /\ jobs[r] = << >>
    <2>1. c \in Pris /\ from \in -1 .. PriMax
      BY <1>2, <1>3 DEF Scan, AtHand, TypeOK
    <2>2. ~slip /\ ~ (from < AsInt(gpri))
      BY <1>2, CallTaken
    <2>3. AsInt(gpri) \in -1 .. PriMax
      BY Hints
    <2>4. \A r \in Pris : ring[r] # << >> \/ jobs[r] # << >> => r <= AsInt(gpri)
      BY <2>2 DEF Covers
    <2> QED
      BY <1>1, <2>1, <2>2, <2>3, <2>4
  <1>5. ring' = Unlinked(from, c)
    BY <1>2, <1>3, CallTaken
  <1>6. ASSUME NEW r \in Pris
        PROVE  /\ r \notin Scanned(from, c) => ring'[r] = ring[r]
               /\ r \in Scanned(from, c) /\ ~ HasWork(r) => ring'[r] = << >> /\ jobs[r] = << >>
    <2>1. /\ r \notin Scanned(from, c) => Unlinked(from, c)[r] = ring[r]
          /\ r \in Scanned(from, c) /\ ~ HasWork(r) => Unlinked(from, c)[r] = << >>
      BY UnlinkedRings
    <2>2. ~ HasWork(r) => jobs[r] = << >>
      BY SelectedQueue
    <2> QED
      BY <1>5, <2>1, <2>2
  <1>a. ASSUME NEW r \in Pris, r > from PROVE ring'[r] = << >> /\ jobs[r] = << >>
    <2>1. r \notin Scanned(from, c)
      BY <1>1, <1>4, <1>a DEF Scanned
    <2> QED
      BY <1>4, <1>6, <1>a, <2>1
  <1>7. CASE \E p \in Scanned(from, c) : HasWork(p) /\ gpri' = p
                    /\ jobs' = [jobs EXCEPT ![Selected(p)] = Tail(@)]
    <2>1. PICK p \in Scanned(from, c) : HasWork(p) /\ gpri' = p
                    /\ jobs' = [jobs EXCEPT ![Selected(p)] = Tail(@)]
      BY <1>7
    <2>2. p \in Pris /\ c <= p /\ p <= from /\ \A r \in p + 1 .. from : ~ HasWork(r)
      BY <2>1 DEF Scanned
    <2>3. AsInt(gpri') = p
      BY <2>1, <2>2, Words
    <2>4. ASSUME NEW r \in Pris, r > p PROVE ring'[r] = << >> /\ jobs'[r] = << >>
      <3>1. jobs'[r] = jobs[r]
        <4>1. Selected(p) = p \/ Selected(p) \in FlexQs
          BY <2>2, SelectedQueue
        <4>2. r # Selected(p) /\ r \in Queues
          BY <1>1, <2>2, <2>4, <4>1 DEF Queues
        <4> QED
          BY <1>1, <2>1, <4>2
      <3>2. CASE r <= from
        <4>1. r \in p + 1 .. from /\ c <= r
          BY <1>1, <1>4, <2>2, <2>4, <3>2
        <4>2. \A s \in r + 1 .. from : s \in p + 1 .. from
          BY <1>1, <1>4, <2>2, <2>4
        <4>3. r \in Scanned(from, c) /\ ~ HasWork(r)
          BY <2>2, <3>2, <4>1, <4>2 DEF Scanned
        <4> QED
          BY <1>6, <3>1, <4>3
      <3>3. CASE ~ (r <= from)
        <4>1. r > from
          BY <1>1, <1>4, <3>3
        <4> QED
          BY <1>a, <3>1, <4>1
      <3> QED
        BY <3>2, <3>3
    <2>5. \A r \in Pris : r > p \/ r <= p
      BY <1>1, <2>2
    <2> QED
      BY <2>3, <2>4, <2>5
  <1>8. CASE /\ \A p \in Scanned(from, c) : ~ HasWork(p)
             /\ gpri' = (IF c <= from THEN c - 1 ELSE from) % Word
             /\ UNCHANGED jobs
    <2>1. PICK h : h = IF c <= from THEN c - 1 ELSE from
      OBVIOUS
    <2>2. AsInt(gpri') = h
      <3>1. h \in Pris \/ h = -1
        BY <1>1, <1>4, <2>1 DEF Pris
      <3>2. gpri' = h % Word
        BY <1>8, <2>1
      <3>3. CASE h \in Pris
        <4>1. h % Word = h /\ AsInt(h) = h
          BY <3>3, Words
        <4> QED
          BY <3>2, <4>1
      <3>4. CASE h = -1
        <4>1. gpri' = Word - 1
          BY <3>2, <3>4, Words
        <4> QED
          BY <3>4, <4>1, Words
      <3> QED
        BY <3>1, <3>3, <3>4
    <2>3. ASSUME NEW r \in Pris, r > h PROVE ring'[r] = << >> /\ jobs[r] = << >>
      <3>1. CASE r > from
        BY <1>a, <3>1
      <3>2. CASE ~ (r > from)
        <4>1. c <= r /\ r <= from
          BY <1>1, <1>4, <2>1, <2>3, <3>2
        <4>2. r \in Scanned(from, c)
          BY <1>4, <1>8, <4>1, ScansAll
        <4> QED
          BY <1>6, <1>8, <4>2
      <3> QED
        BY <3>1, <3>2
    <2>4. h \in Int /\ \A r \in Pris : r > h \/ r <= h
      BY <1>1, <1>4, <2>1
    <2> QED
      BY <1>8, <2>2, <2>3, <2>4
  <1> QED
    BY <1>2, <1>3, <1>7, <1>8, CallTaken

LEMMA CoversNext ==
    ASSUME TypeOK, AtHand, FlexLinked, Covers, Next
    PROVE  Covers'
  <1>1. SUFFICES ASSUME ~slip'
                 PROVE  \A p \in Pris : ring'[p] # << >> \/ jobs'[p] # << >> => p <= AsInt(gpri')
    <2>1. AsInt(gpri)' = AsInt(gpri')
      BY DEF AsInt
    <2> QED
      BY <2>1 DEF Covers
  <1>2. /\ PriMax \in Nat /\ Pris \subseteq Nat /\ FlexQs \cap Pris = {}
    <2>1. PriMax \in Nat /\ FlexQs \cap Int = {}
      BY GWorkqAssumption
    <2>2. Pris \subseteq Nat /\ FlexQs \cap Pris = {}
      BY <2>1 DEF Pris
    <2> QED
      BY <2>1, <2>2
  <1>3. /\ jobs \in [Queues -> Seq(Nat)] /\ ring \in [Pris -> Seq(FlexQs)]
        /\ qpri \in [FlexQs -> Pris]
        /\ ~slip => \A p \in Pris : ring[p] # << >> \/ jobs[p] # << >> => p <= AsInt(gpri)
    BY DEF TypeOK, Covers
  \* What is above the hint stays empty where the hint is raised.
  <1>4. ASSUME NEW p \in Pris, RaiseHint(p)
        PROVE  \A x \in Pris : x = p \/ (ring[x] # << >> \/ jobs[x] # << >>) => x <= AsInt(gpri')
    <2>1. ~slip /\ gpri \in Pris /\ gpri' \in Pris /\ gpri' >= gpri /\ gpri' >= p
      BY <1>1, <1>4, RaisedHint
    <2>2. AsInt(gpri) = gpri /\ AsInt(gpri') = gpri'
      BY <2>1, Words
    <2>3. ASSUME NEW x \in Pris, ring[x] # << >> \/ jobs[x] # << >> PROVE x <= AsInt(gpri')
      <3>1. x <= gpri
        BY <1>3, <2>1, <2>2, <2>3
      <3> QED
        BY <1>2, <2>1, <2>2, <3>1
    <2> QED
      BY <2>1, <2>2, <2>3
  <1>5. CASE UNCHANGED <<jobs, ring, gpri, slip>>
    BY <1>1, <1>3, <1>5
  <1>6. ASSUME NEW t \in Threads, NEW p \in Pris, SchedAt(t, p)
        PROVE  \A x \in Pris : ring'[x] # << >> \/ jobs'[x] # << >> => x <= AsInt(gpri')
    <2>1. UNCHANGED ring /\ RaiseHint(p) /\ jobs' = [jobs EXCEPT ![p] = Append(@, next)]
      BY <1>6 DEF SchedAt
    <2>2. ASSUME NEW x \in Pris, x # p PROVE jobs'[x] = jobs[x]
      BY <1>3, <2>1, <2>2 DEF Queues
    <2> QED
      BY <1>4, <2>1, <2>2
  <1>7. ASSUME NEW t \in Threads, NEW q \in FlexQs, NEW b \in BOOLEAN, FlexSched(t, q, b)
        PROVE  \A x \in Pris : ring'[x] # << >> \/ jobs'[x] # << >> => x <= AsInt(gpri')
    <2>1. /\ jobs' = [jobs EXCEPT ![q] = Append(@, next)] /\ ring' \in [Pris -> Seq(FlexQs)]
          /\ RaiseHint(qpri[q]) \/ (UNCHANGED <<gpri, slip>> /\ Linked(q))
          /\ qpri[q] \in Pris
      BY <1>3, <1>7, CallQueued
    <2>2. \A x \in Pris : jobs'[x] = jobs[x]
      BY <1>2, <1>3, <2>1 DEF Queues
    <2>3. \A x \in Pris : x # qpri[q] /\ ring'[x] # << >> => ring[x] # << >>
      <3>1. CASE Linked(q)
        <4>1. UNCHANGED ring
          BY <1>7, <3>1, CallQueued
        <4> QED
          BY <4>1
      <3>2. CASE ~ Linked(q)
        <4>1. \A r \in Pris : \A x \in FlexQs :
                Contains(ring'[r], x) <=> ((r = qpri[q] /\ x = q) \/ Contains(ring[r], x))
          BY <1>7, <3>2, CallQueued
        <4>2. ASSUME NEW x \in Pris, x # qpri[q], ring'[x] # << >> PROVE ring[x] # << >>
          <5>1. ring'[x] \in Seq(FlexQs) /\ ring[x] \in Seq(FlexQs)
            BY <1>3, <2>1
          <5> QED
            BY <4>1, <4>2, <5>1, NotEmpty
        <4> QED
          BY <4>2
      <3> QED
        BY <3>1, <3>2
    <2>4. CASE RaiseHint(qpri[q])
      BY <1>4, <2>1, <2>2, <2>3, <2>4
    <2>5. CASE UNCHANGED <<gpri, slip>> /\ Linked(q)
      <3>1. UNCHANGED ring
        BY <1>7, <2>5, CallQueued
      <3> QED
        BY <1>1, <1>3, <2>2, <2>5, <3>1
    <2> QED
      BY <2>1, <2>4, <2>5
  <1>8. ASSUME NEW q \in FlexQs, NEW p \in Pris, SetPriority(q, p), UNCHANGED jobs
        PROVE  \A x \in Pris : ring'[x] # << >> \/ jobs'[x] # << >> => x <= AsInt(gpri')
    <2>1. ring' \in [Pris -> Seq(FlexQs)]
      BY <1>8, PriorityChanged
    <2>2. CASE Linked(q)
      <3>1. /\ RaiseHint(p)
            /\ \A r \in Pris : \A x \in FlexQs :
                Contains(ring'[r], x) <=> ((r = p /\ x = q) \/ (x # q /\ Contains(ring[r], x)))
        BY <1>8, <2>2, PriorityChanged
      <3>2. ASSUME NEW x \in Pris, x # p, ring'[x] # << >> PROVE ring[x] # << >>
        <4>1. ring'[x] \in Seq(FlexQs) /\ ring[x] \in Seq(FlexQs)
          BY <1>3, <2>1
        <4> QED
          BY <3>1, <3>2, <4>1, NotEmpty
      <3> QED
        BY <1>4, <1>8, <3>1, <3>2
    <2>3. CASE ~ Linked(q)
      <3>1. UNCHANGED <<ring, gpri, slip>>
        BY <1>8, <2>3, PriorityChanged
      <3> QED
        BY <1>1, <1>3, <1>8, <3>1
    <2> QED
      BY <2>2, <2>3
  <1>9. ASSUME NEW t \in Threads, Scan(t)
        PROVE  \A x \in Pris : ring'[x] # << >> \/ jobs'[x] # << >> => x <= AsInt(gpri')
    BY <1>1, <1>9, CoversScan
  <1>10. ASSUME NEW t \in Threads, RaiseLocked(t)
         PROVE  \E q \in FlexQs : \E p \in Pris : SetPriority(q, p) /\ UNCHANGED jobs
    BY <1>10 DEF RaiseLocked, Raise, AtHand
  <1>11. ASSUME NEW t \in Threads, NEW q \in FlexQs, Enter(t, q)
         PROVE  \/ UNCHANGED <<jobs, ring, gpri, slip>>
                \/ \E p \in Pris : SetPriority(q, p) /\ UNCHANGED jobs
    <2>1. CurrentPriority(t) \in Pris
      BY DEF CurrentPriority, TypeOK
    <2> QED
      BY <1>11, <2>1 DEF Enter, Raise
  <1>12. ASSUME NEW t \in Threads,
                \/ \E p \in Pris : SetStatic(t, p)
                \/ \E c \in Pris : YieldAt(t, c)
                \/ ReadHint(t) \/ RunEnd(t) \/ Leave(t)
                \/ \E q \in FlexQs : \E p \in Pris : RaisePriority(t, q, p)
         PROVE  UNCHANGED <<jobs, ring, gpri, slip>>
    BY <1>12 DEF SetStatic, YieldAt, ReadHint, RunEnd, Leave, RaisePriority, queues
  <1>13. UNCHANGED vars => UNCHANGED <<jobs, ring, gpri, slip>>
    BY DEF vars
  <1> QED
    BY <1>5, <1>6, <1>7, <1>8, <1>9, <1>10, <1>11, <1>12, <1>13, Steps

-----------------------------------------------------------------------------
(* Whoever has entered a queue is served.                                  *)

LEMMA PushedBase ==
    ASSUME NEW e \in Seq(Entries), NEW x \in Entries, AtBase(e, x.gflexq, x.priority)
    PROVE  LET w == <<x>> \o e
           IN  /\ Based(w) /\ \A r \in FlexQs : AtBase(w, r, x.priority)
               /\ \A i \in DOMAIN w : w[i] = x \/ \E j \in DOMAIN e : w[i] = e[j]
  <1>1. PICK w : w = <<x>> \o e
    OBVIOUS
  <1>2. PICK p, q : p = x.priority /\ q = x.gflexq
    OBVIOUS
  <1>3. /\ w \in Seq(Entries) /\ Len(w) = Len(e) + 1 /\ w[1] = x
        /\ Len(e) \in Nat /\ DOMAIN e = 1 .. Len(e) /\ DOMAIN w = 1 .. Len(e) + 1
        /\ \A i \in 2 .. Len(e) + 1 : w[i] = e[i - 1]
    BY <1>1
  <1>4. \A i \in DOMAIN w : i = 1 \/ (i \in 2 .. Len(e) + 1 /\ i - 1 \in DOMAIN e)
    BY <1>3
  <1>5. \A i \in DOMAIN w : w[i] = x \/ \E j \in DOMAIN e : w[i] = e[j]
    BY <1>3, <1>4
  <1>6. \A i \in DOMAIN w : w[i].priority = p
    BY <1>2, <1>5 DEF AtBase
  <1>7. \A i \in DOMAIN w : w[i].gflexq = None => i = Len(w)
    <2> SUFFICES ASSUME NEW i \in DOMAIN w, w[i].gflexq = None PROVE i = Len(w)
      OBVIOUS
    <2>1. CASE i = 1
      <3>1. e = << >>
        BY <1>2, <1>3, <2>1 DEF AtBase
      <3> QED
        BY <1>3, <2>1, <3>1
    <2>2. CASE i \in 2 .. Len(e) + 1 /\ i - 1 \in DOMAIN e
      <3>1. e[i - 1].gflexq = None
        BY <1>3, <2>2
      <3>2. i - 1 = Len(e)
        BY <2>2, <3>1 DEF AtBase, Based
      <3> QED
        BY <1>3, <2>2, <3>2
    <2> QED
      BY <1>4, <2>1, <2>2
  <1>8. 1 \in DOMAIN w
    BY <1>3
  <1>9. None \notin FlexQs
    BY GWorkqAssumption
  <1> QED
    BY <1>1, <1>2, <1>3, <1>5, <1>6, <1>7, <1>8, <1>9 DEF Based, AtBase

LEMMA PoppedBase ==
    ASSUME NEW e \in Seq(Entries), e # << >>, Based(e)
    PROVE  /\ AtBase(Tail(e), Head(e).gflexq, Head(e).priority)
           /\ Head(e) = e[1] /\ 1 \in DOMAIN e
           /\ \A i \in DOMAIN Tail(e) : i + 1 \in DOMAIN e /\ Tail(e)[i] = e[i + 1]
  <1>1. PICK w : w = Tail(e)
    OBVIOUS
  <1>2. /\ w \in Seq(Entries) /\ Len(w) = Len(e) - 1 /\ Head(e) = e[1]
        /\ Len(e) \in Nat /\ Len(e) # 0 /\ DOMAIN e = 1 .. Len(e) /\ DOMAIN w = 1 .. Len(e) - 1
        /\ \A i \in 1 .. Len(e) - 1 : w[i] = e[i + 1]
    BY <1>1
  <1>3. 1 \in DOMAIN e /\ \A i \in DOMAIN w : i + 1 \in DOMAIN e /\ w[i] = e[i + 1]
    BY <1>2
  <1>4. \A i \in DOMAIN w : w[i].priority = Head(e).priority
    BY <1>2, <1>3 DEF Based
  <1>5. \A i \in DOMAIN w : w[i].gflexq = None => i = Len(w)
    <2> SUFFICES ASSUME NEW i \in DOMAIN w, w[i].gflexq = None PROVE i = Len(w)
      OBVIOUS
    <2>1. i + 1 = Len(e)
      BY <1>3 DEF Based
    <2> QED
      BY <1>2, <2>1
  <1>6. Head(e).gflexq = None => w = << >>
    <2> SUFFICES ASSUME Head(e).gflexq = None PROVE w = << >>
      OBVIOUS
    <2>1. 1 = Len(e)
      BY <1>2, <1>3 DEF Based
    <2> QED
      BY <1>2, <2>1
  <1>7. \A i \in DOMAIN w : 1 \in DOMAIN w
    BY <1>2
  <1> QED
    BY <1>1, <1>2, <1>3, <1>4, <1>5, <1>6, <1>7 DEF AtBase, Based

\* How a thread is left by a step, if it is left well.
KeptBase(u) ==
    /\ Based(entries'[u])
    /\ pc'[u] \notin {"run", "wild"} => AtBase(entries'[u], tq'[u], tpri'[u])
KeptServed(u) ==
    /\ pc'[u] = "raise" /\ arg'[u][1] = tq'[u] => arg'[u][2] >= tpri'[u]
    /\ ~(pc'[u] \in {"raise", "wild"} /\ arg'[u][1] = tq'[u])
            => (tq'[u] # None => qpri'[tq'[u]] >= tpri'[u])
    /\ \A i \in DOMAIN entries'[u] :
            entries'[u][i].gflexq # None => qpri'[entries'[u][i].gflexq] >= entries'[u][i].priority
Kept(u) == KeptBase(u) /\ (~overtaken' => KeptServed(u))

LEMMA AllKept ==
    ASSUME \A u \in Threads : Kept(u)
    PROVE  Bases' /\ RaiseEnough' /\ RequestorsServed'
  <1>1. ASSUME NEW u \in Threads
        PROVE  /\ Based(entries[u])' <=> Based(entries'[u])
               /\ AtBase(entries[u], tq[u], tpri[u])' <=> AtBase(entries'[u], tq'[u], tpri'[u])
    BY DEF AtBase, Based
  <1>2. Bases'
    BY <1>1 DEF Bases, Away, Kept, KeptBase
  <1>3. RaiseEnough'
    BY DEF RaiseEnough, Kept, KeptServed
  <1>4. RequestorsServed'
    BY DEF RequestorsServed, Served, Kept, KeptServed
  <1> QED
    BY <1>2, <1>3, <1>4

\* Unless one is overtaken, no queue is lowered.
LEMMA NotLowered ==
    ASSUME TypeOK, AtHand, FlexLinked, Next, ~overtaken'
    PROVE  ~overtaken /\ \A q \in FlexQs : qpri'[q] \in Nat /\ qpri[q] \in Nat /\ qpri'[q] >= qpri[q]
  <1>1. qpri \in [FlexQs -> Pris] /\ Pris \subseteq Nat
    BY DEF TypeOK, Pris
  <1>2. \A q \in FlexQs : qpri[q] \in Nat
    BY <1>1
  <1>3. CASE UNCHANGED <<qpri, overtaken>>
    BY <1>2, <1>3
  <1>4. ASSUME NEW q \in FlexQs, NEW p \in Pris, SetPriority(q, p)
        PROVE  ~overtaken /\ \A x \in FlexQs : qpri'[x] \in Nat /\ qpri[x] \in Nat /\ qpri'[x] >= qpri[x]
    <2>1. qpri' = [qpri EXCEPT ![q] = p] /\ ~overtaken /\ qpri[q] <= p
      BY <1>4, PriorityChanged
    <2>2. qpri'[q] = p /\ p \in Nat /\ \A x \in FlexQs : x # q => qpri'[x] = qpri[x]
      BY <1>1, <2>1
    <2> QED
      BY <1>2, <2>1, <2>2
  <1>5. ASSUME NEW t \in Threads, RaiseLocked(t)
        PROVE  \E q \in FlexQs : \E p \in Pris : SetPriority(q, p)
    BY <1>5 DEF RaiseLocked, Raise, AtHand
  <1>6. ASSUME NEW t \in Threads, NEW q \in FlexQs, Enter(t, q)
        PROVE  UNCHANGED <<qpri, overtaken>> \/ \E p \in Pris : SetPriority(q, p)
    <2>1. CurrentPriority(t) \in Pris
      BY DEF CurrentPriority, TypeOK
    <2> QED
      BY <1>6, <2>1 DEF Enter, Raise
  <1>7. ASSUME NEW t \in Threads, NEW q \in FlexQs, NEW b \in BOOLEAN, FlexSched(t, q, b)
        PROVE  UNCHANGED <<qpri, overtaken>>
    BY <1>7 DEF FlexSched
  <1>8. ASSUME NEW t \in Threads,
               \/ \E p \in Pris : SchedAt(t, p)
               \/ \E p \in Pris : SetStatic(t, p)
               \/ \E c \in Pris : YieldAt(t, c)
               \/ ReadHint(t) \/ Scan(t) \/ RunEnd(t) \/ Leave(t)
               \/ \E q \in FlexQs : \E p \in Pris : RaisePriority(t, q, p)
        PROVE  UNCHANGED <<qpri, overtaken>>
    <2>1. Scan(t) => UNCHANGED <<qpri, overtaken>>
      BY CallTaken
    <2> QED
      BY <1>8, <2>1 DEF SchedAt, SetStatic, YieldAt, ReadHint, RunEnd, Leave, RaisePriority, queues
  <1>9. UNCHANGED vars => UNCHANGED <<qpri, overtaken>>
    BY DEF vars
  <1> QED
    BY <1>3, <1>4, <1>5, <1>6, <1>7, <1>8, <1>9, Steps

\* What was served is served still.
LEMMA StillServed ==
    ASSUME TypeOK, AtHand, FlexLinked, Next, RequestorsServed, RaiseEnough, ~overtaken', NEW u \in Threads
    PROVE  /\ ~(pc[u] \in {"raise", "wild"} /\ arg[u][1] = tq[u])
                => (tq[u] # None => qpri'[tq[u]] >= tpri[u] /\ qpri[tq[u]] >= tpri[u])
           /\ pc[u] = "raise" /\ arg[u][1] = tq[u] => arg[u][2] >= tpri[u]
           /\ \A i \in DOMAIN entries[u] :
                entries[u][i].gflexq # None => qpri'[entries[u][i].gflexq] >= entries[u][i].priority
  <1>1. ~overtaken /\ \A q \in FlexQs : qpri'[q] \in Nat /\ qpri[q] \in Nat /\ qpri'[q] >= qpri[q]
    BY NotLowered
  <1>2. tq[u] \in FlexQs \cup {None} /\ tpri[u] \in Nat /\ entries[u] \in Seq(Entries)
    BY DEF TypeOK, Pris
  <1>3. ASSUME NEW q \in FlexQs \cup {None}, NEW p \in Nat, Served(q, p)
        PROVE  q # None => qpri'[q] >= p
    <2> SUFFICES ASSUME q # None PROVE qpri'[q] >= p
      OBVIOUS
    <2>1. q \in FlexQs /\ qpri[q] >= p
      BY <1>3 DEF Served
    <2>2. qpri'[q] \in Nat /\ qpri[q] \in Nat /\ qpri'[q] >= qpri[q]
      BY <1>1, <2>1
    <2> QED
      BY <2>1, <2>2
  <1>4. \A i \in DOMAIN entries[u] :
            entries[u][i].gflexq \in FlexQs \cup {None} /\ entries[u][i].priority \in Nat
    <2> SUFFICES ASSUME NEW i \in DOMAIN entries[u]
                 PROVE  entries[u][i].gflexq \in FlexQs \cup {None} /\ entries[u][i].priority \in Nat
      OBVIOUS
    <2>1. PICK e \in Seq(Entries) : e = entries[u]
      BY <1>2
    <2>2. e[i] \in Entries
      BY <2>1
    <2> QED
      BY <2>1, <2>2 DEF Entries, Pris
  <1>5. /\ ~(pc[u] \in {"raise", "wild"} /\ arg[u][1] = tq[u]) => Served(tq[u], tpri[u])
        /\ \A i \in DOMAIN entries[u] : Served(entries[u][i].gflexq, entries[u][i].priority)
    BY <1>1 DEF RequestorsServed
  <1>6. pc[u] = "raise" /\ arg[u][1] = tq[u] => arg[u][2] >= tpri[u]
    BY <1>1 DEF RaiseEnough
  <1>7. ~(pc[u] \in {"raise", "wild"} /\ arg[u][1] = tq[u])
            => (tq[u] # None => qpri'[tq[u]] >= tpri[u] /\ qpri[tq[u]] >= tpri[u])
    BY <1>2, <1>3, <1>5 DEF Served
  <1> QED
    BY <1>3, <1>4, <1>5, <1>6, <1>7

LEMMA RequestorsNext ==
    ASSUME TypeOK, AtHand, FlexLinked, Bases, RaiseEnough, RequestorsServed, Next
    PROVE  Bases' /\ RaiseEnough' /\ RequestorsServed'
  <1>1. /\ tpri \in [Threads -> Pris] /\ tq \in [Threads -> FlexQs \cup {None}]
        /\ entries \in [Threads -> Seq(Entries)] /\ qpri \in [FlexQs -> Pris]
        /\ DOMAIN pc = Threads /\ DOMAIN arg = Threads /\ Pris \subseteq Nat
        /\ None \notin FlexQs
    BY GWorkqAssumption DEF TypeOK, Pris
  <1>2. \A u \in Threads : /\ Based(entries[u])
                           /\ pc[u] \notin {"run", "wild"} => AtBase(entries[u], tq[u], tpri[u])
    BY DEF Bases, Away
  \* A thread that is left alone, or taken into the weeds.
  <1>3. ASSUME NEW u \in Threads,
               tpri'[u] = tpri[u] /\ tq'[u] = tq[u] /\ entries'[u] = entries[u] /\ arg'[u] = arg[u],
               pc'[u] = pc[u] \/ pc'[u] = "wild"
        PROVE  Kept(u)
    <2>1. KeptBase(u)
      BY <1>2, <1>3 DEF KeptBase
    <2>2. ASSUME ~overtaken' PROVE KeptServed(u)
      BY <1>3, <2>2, StillServed DEF KeptServed
    <2> QED
      BY <2>1, <2>2 DEF Kept
  <1>4. ASSUME NEW t \in Threads, Kept(t),
               \A u \in Threads : u # t =>
                    /\ tpri'[u] = tpri[u] /\ tq'[u] = tq[u] /\ entries'[u] = entries[u] /\ arg'[u] = arg[u]
                    /\ pc'[u] = pc[u] \/ pc'[u] = "wild"
        PROVE  \A u \in Threads : Kept(u)
    BY <1>3, <1>4
  \* A thread that stays where it is, and is not about to raise less than it needs.
  <1>5. ASSUME NEW t \in Threads, pc[t] \notin {"run", "wild", "raise"}, pc'[t] \notin {"run", "wild"},
               tpri'[t] = tpri[t], tq'[t] = tq[t], entries'[t] = entries[t],
               pc'[t] = "raise" => /\ arg'[t][1] \in FlexQs /\ arg'[t][2] \in Pris
                                   /\ qpri[arg'[t][1]] < arg'[t][2]
        PROVE  Kept(t)
    <2>1. KeptBase(t)
      BY <1>2, <1>5 DEF KeptBase
    <2>2. ASSUME ~overtaken' PROVE KeptServed(t)
      <3>1. tq[t] # None => qpri'[tq[t]] >= tpri[t] /\ qpri[tq[t]] >= tpri[t]
        BY <1>5, <2>2, StillServed
      <3>2. \A i \in DOMAIN entries[t] :
                entries[t][i].gflexq # None => qpri'[entries[t][i].gflexq] >= entries[t][i].priority
        BY <2>2, StillServed
      <3>3. pc'[t] = "raise" /\ arg'[t][1] = tq'[t] => arg'[t][2] >= tpri'[t]
        <4> SUFFICES ASSUME pc'[t] = "raise", arg'[t][1] = tq'[t] PROVE arg'[t][2] >= tpri'[t]
          OBVIOUS
        <4>1. tq[t] \in FlexQs /\ qpri[tq[t]] < arg'[t][2] /\ arg'[t][2] \in Nat
          BY <1>1, <1>5
        <4>2. qpri[tq[t]] \in Nat /\ tpri[t] \in Nat /\ qpri[tq[t]] >= tpri[t]
          BY <1>1, <3>1, <4>1
        <4> QED
          BY <1>5, <4>1, <4>2
      <3> QED
        BY <1>5, <3>1, <3>2, <3>3 DEF KeptServed
    <2> QED
      BY <2>1, <2>2 DEF Kept
  <1>6. ASSUME UNCHANGED <<tpri, tq, entries, pc, arg>> PROVE \A u \in Threads : Kept(u)
    <2> SUFFICES ASSUME NEW u \in Threads PROVE Kept(u)
      OBVIOUS
    <2>1. /\ tpri'[u] = tpri[u] /\ tq'[u] = tq[u] /\ entries'[u] = entries[u] /\ arg'[u] = arg[u]
          /\ pc'[u] = pc[u] \/ pc'[u] = "wild"
      BY <1>6
    <2> QED
      BY <1>3, <2>1
  <1>7. ASSUME NEW t \in Threads,
               \/ \E p \in Pris : SchedAt(t, p)
               \/ \E q \in FlexQs : \E b \in BOOLEAN : FlexSched(t, q, b)
        PROVE  UNCHANGED <<tpri, tq, entries, pc, arg>>
    BY <1>7 DEF SchedAt, FlexSched, tstate, local
  <1>8. ASSUME NEW t \in Threads, NEW p \in Pris, SetStatic(t, p) PROVE \A u \in Threads : Kept(u)
    <2>1. /\ pc[t] = "idle" /\ tq[t] = None /\ tpri' = [tpri EXCEPT ![t] = p]
          /\ UNCHANGED <<tq, entries, pc, arg>>
      BY <1>8 DEF SetStatic, local
    <2>2. entries[t] = << >>
      BY <1>2, <2>1 DEF AtBase
    <2>3. entries'[t] = << >> /\ tq'[t] = None /\ pc'[t] = "idle"
      BY <2>1, <2>2
    <2>4. DOMAIN entries'[t] = {}
      BY <2>3
    <2>5. Kept(t)
      BY <2>3, <2>4 DEF Kept, KeptBase, KeptServed, AtBase, Based
    <2> QED
      BY <1>1, <1>4, <2>1, <2>5
  <1>9. ASSUME NEW t \in Threads, NEW c \in Pris, YieldAt(t, c) PROVE \A u \in Threads : Kept(u)
    <2>1. /\ pc[t] = "idle" /\ UNCHANGED <<tpri, tq, entries>>
          /\ arg' = [arg EXCEPT ![t] = <<None, c>>] /\ pc' = [pc EXCEPT ![t] = "read"]
      BY <1>9 DEF YieldAt, Goto, tstate
    <2>2. pc'[t] = "read"
      BY <1>1, <2>1
    <2>3. Kept(t)
      BY <1>5, <2>1, <2>2
    <2> QED
      BY <1>1, <1>4, <2>1, <2>3
  <1>10. ASSUME NEW t \in Threads, ReadHint(t) PROVE \A u \in Threads : Kept(u)
    <2>1. /\ pc[t] = "read" /\ UNCHANGED <<tpri, tq, entries, arg>> /\ pc' = [pc EXCEPT ![t] = "scan"]
      BY <1>10 DEF ReadHint, Goto, tstate
    <2>2. pc'[t] = "scan"
      BY <1>1, <2>1
    <2>3. Kept(t)
      BY <1>5, <2>1, <2>2
    <2> QED
      BY <1>1, <1>4, <2>1, <2>3
  <1>11. ASSUME NEW t \in Threads, NEW q \in FlexQs, NEW p \in Pris, RaisePriority(t, q, p)
         PROVE  \A u \in Threads : Kept(u)
    <2>1. /\ pc[t] = "idle" /\ UNCHANGED <<tpri, tq, entries>> /\ qpri[q] < p
          /\ arg' = [arg EXCEPT ![t] = <<q, p>>] /\ pc' = [pc EXCEPT ![t] = "raise"]
      BY <1>11 DEF RaisePriority, Goto, tstate
    <2>2. pc'[t] = "raise" /\ arg'[t][1] = q /\ arg'[t][2] = p
      BY <1>1, <2>1
    <2>3. Kept(t)
      BY <1>5, <2>1, <2>2
    <2> QED
      BY <1>1, <1>4, <2>1, <2>3
  <1>12. ASSUME NEW t \in Threads, Scan(t) PROVE \A u \in Threads : Kept(u)
    <2>0. pc[t] = "scan"
      BY <1>12 DEF Scan
    <2>1. CASE /\ arg' = [arg EXCEPT ![t] = <<None, 0>>] /\ UNCHANGED <<tpri, entries, tq>>
               /\ pc' = [pc EXCEPT ![t] = "idle"]
      <3>1. pc'[t] = "idle"
        BY <1>1, <2>1
      <3>2. Kept(t)
        BY <1>5, <2>0, <2>1, <3>1
      <3> QED
        BY <1>1, <1>4, <2>1, <3>2
    <2>2. ASSUME NEW p \in Pris, NEW x \in FlexQs \cup {None}, NEW k,
                 x # None => qpri[x] = p,
                 arg' = [arg EXCEPT ![t] = k], tpri' = [tpri EXCEPT ![t] = p],
                 entries' = [entries EXCEPT ![t] = <<Saved(t)>> \o @],
                 tq' = [tq EXCEPT ![t] = x], pc' = [pc EXCEPT ![t] = "run"]
          PROVE  \A u \in Threads : Kept(u)
      <3>1. tpri'[t] = p /\ tq'[t] = x /\ pc'[t] = "run" /\ entries'[t] = <<Saved(t)>> \o entries[t]
        BY <1>1, <2>2
      <3>2. /\ Based(entries'[t])
            /\ \A i \in DOMAIN entries'[t] : \/ entries'[t][i] = [priority |-> tpri[t], gflexq |-> tq[t]]
                                             \/ \E j \in DOMAIN entries[t] : entries'[t][i] = entries[t][j]
        <4>1. AtBase(entries[t], tq[t], tpri[t]) /\ entries[t] \in Seq(Entries)
              /\ tq[t] \in FlexQs \cup {None} /\ tpri[t] \in Pris
          BY <1>1, <1>2, <2>0
        <4>2. PICK e \in Seq(Entries), x0 \in Entries : e = entries[t] /\ x0 = Saved(t)
          BY <4>1 DEF Saved, Entries
        <4>3. x0.priority = tpri[t] /\ x0.gflexq = tq[t] /\ x0 = [priority |-> tpri[t], gflexq |-> tq[t]]
          BY <4>2 DEF Saved
        <4>4. entries'[t] = <<x0>> \o e /\ AtBase(e, x0.gflexq, x0.priority)
          BY <3>1, <4>1, <4>2, <4>3
        <4>5. LET w == <<x0>> \o e
              IN  /\ Based(w) /\ \A r \in FlexQs : AtBase(w, r, x0.priority)
                  /\ \A i \in DOMAIN w : w[i] = x0 \/ \E j \in DOMAIN e : w[i] = e[j]
          BY <4>4, PushedBase
        <4> QED
          BY <3>1, <4>2, <4>3, <4>4, <4>5
      <3>3. ASSUME ~overtaken' PROVE KeptServed(t)
        <4>1. x # None => qpri'[x] >= p
          <5>1. \A y \in FlexQs : qpri'[y] \in Nat /\ qpri[y] \in Nat /\ qpri'[y] >= qpri[y]
            BY <3>3, NotLowered
          <5> QED
            BY <1>1, <2>2, <5>1
        <4>2. /\ tq[t] # None => qpri'[tq[t]] >= tpri[t]
              /\ \A i \in DOMAIN entries[t] :
                    entries[t][i].gflexq # None => qpri'[entries[t][i].gflexq] >= entries[t][i].priority
          BY <2>0, <3>3, StillServed
        <4>3. \A i \in DOMAIN entries'[t] :
                    entries'[t][i].gflexq # None => qpri'[entries'[t][i].gflexq] >= entries'[t][i].priority
          BY <3>2, <4>2
        <4> QED
          BY <3>1, <4>1, <4>3 DEF KeptServed
      <3>4. Kept(t)
        BY <3>1, <3>2, <3>3 DEF Kept, KeptBase
      <3> QED
        BY <1>1, <1>4, <2>2, <3>4
    <2>3. ASSUME NEW p \in Pris PROVE Selected(p) # p => Selected(p) \in FlexQs /\ qpri[Selected(p)] = p
      <3> SUFFICES ASSUME Selected(p) # p PROVE Selected(p) \in FlexQs /\ qpri[Selected(p)] = p
        OBVIOUS
      <3>1. Selected(p) = ring[p][FirstBusy(p)] /\ FirstBusy(p) <= Len(ring[p])
        BY DEF Selected
      <3>2. FirstBusy(p) \in 1 .. Len(ring[p]) /\ ring[p] \in Seq(FlexQs)
        BY <3>1, FirstBusyQueue DEF TypeOK
      <3>3. Contains(ring[p], Selected(p))
        BY <3>1, <3>2 DEF Contains
      <3>4. Selected(p) \in FlexQs
        BY <3>1, <3>2
      <3> QED
        BY <3>3, <3>4 DEF FlexLinked
    <2>4. ASSUME NEW p \in Pris,
                 arg' = [arg EXCEPT ![t] = <<None, Head(jobs[Selected(p)])>>],
                 tpri' = [tpri EXCEPT ![t] = p],
                 entries' = [entries EXCEPT ![t] = <<Saved(t)>> \o @],
                 tq' = [tq EXCEPT ![t] = IF Selected(p) = p THEN None ELSE Selected(p)],
                 pc' = [pc EXCEPT ![t] = "run"]
          PROVE  \A u \in Threads : Kept(u)
      <3>1. PICK x : x = IF Selected(p) = p THEN None ELSE Selected(p)
        OBVIOUS
      <3>2. x \in FlexQs \cup {None} /\ (x # None => qpri[x] = p)
        BY <2>3, <3>1
      <3> QED
        BY <2>2, <2>4, <3>1, <3>2
    <2> QED
      BY <1>12, <2>1, <2>4, CallTaken
  <1>13. ASSUME NEW t \in Threads, RunEnd(t) PROVE \A u \in Threads : Kept(u)
    <2>1. /\ pc[t] = "run" /\ pc' = [pc EXCEPT ![t] = "idle"]
          /\ arg' = [arg EXCEPT ![t] = <<None, 0>>]
          /\ tpri' = [tpri EXCEPT ![t] = Head(entries[t]).priority]
          /\ tq' = [tq EXCEPT ![t] = Head(entries[t]).gflexq]
          /\ entries' = [entries EXCEPT ![t] = Tail(@)]
      BY <1>13 DEF RunEnd, Goto
    <2>2. PICK e \in Seq(Entries) : e = entries[t]
      BY <1>1
    <2>3. e # << >> /\ Based(e)
      BY <1>2, <2>1, <2>2 DEF AtHand
    <2>4. /\ pc'[t] = "idle" /\ tpri'[t] = Head(e).priority /\ tq'[t] = Head(e).gflexq
          /\ entries'[t] = Tail(e)
      BY <1>1, <2>1, <2>2
    <2>5. /\ AtBase(Tail(e), Head(e).gflexq, Head(e).priority)
          /\ Head(e) = e[1] /\ 1 \in DOMAIN e
          /\ \A i \in DOMAIN Tail(e) : i + 1 \in DOMAIN e /\ Tail(e)[i] = e[i + 1]
      BY <2>3, PoppedBase
    <2>6. ASSUME ~overtaken' PROVE KeptServed(t)
      <3>1. \A i \in DOMAIN e : e[i].gflexq # None => qpri'[e[i].gflexq] >= e[i].priority
        BY <2>2, <2>6, StillServed
      <3> QED
        BY <2>4, <2>5, <3>1 DEF KeptServed
    <2>7. Kept(t)
      BY <2>4, <2>5, <2>6 DEF Kept, KeptBase, AtBase
    <2> QED
      BY <1>1, <1>4, <2>1, <2>7
  <1>14. ASSUME NEW t \in Threads, Leave(t) PROVE \A u \in Threads : Kept(u)
    <2>1. /\ pc[t] = "idle" /\ UNCHANGED <<tpri, pc, arg>>
          /\ tq' = [tq EXCEPT ![t] = Head(entries[t]).gflexq]
          /\ entries' = [entries EXCEPT ![t] = Tail(@)]
      BY <1>14 DEF Leave, local
    <2>2. PICK e \in Seq(Entries) : e = entries[t]
      BY <1>1
    <2>3. e # << >> /\ Based(e) /\ AtBase(e, tq[t], tpri[t])
      BY <1>2, <1>14, <2>1, <2>2 DEF Leave
    <2>4. /\ pc'[t] = "idle" /\ tpri'[t] = tpri[t] /\ tq'[t] = Head(e).gflexq
          /\ entries'[t] = Tail(e)
      BY <1>1, <2>1, <2>2
    <2>5. /\ AtBase(Tail(e), Head(e).gflexq, Head(e).priority)
          /\ Head(e) = e[1] /\ 1 \in DOMAIN e
          /\ \A i \in DOMAIN Tail(e) : i + 1 \in DOMAIN e /\ Tail(e)[i] = e[i + 1]
      BY <2>3, PoppedBase
    <2>6. Head(e).priority = tpri'[t]
      BY <2>3, <2>4, <2>5 DEF AtBase
    <2>7. ASSUME ~overtaken' PROVE KeptServed(t)
      <3>1. \A i \in DOMAIN e : e[i].gflexq # None => qpri'[e[i].gflexq] >= e[i].priority
        BY <2>2, <2>7, StillServed
      <3> QED
        BY <2>4, <2>5, <2>6, <3>1 DEF KeptServed
    <2>8. Kept(t)
      BY <2>4, <2>5, <2>6, <2>7 DEF Kept, KeptBase, AtBase
    <2> QED
      BY <1>1, <1>4, <2>1, <2>8
  <1>15. ASSUME NEW t \in Threads, RaiseLocked(t) PROVE \A u \in Threads : Kept(u)
    <2>1. /\ pc[t] = "raise" /\ UNCHANGED <<tpri, tq, entries>>
          /\ SetPriority(arg[t][1], arg[t][2])
          /\ arg' = [arg EXCEPT ![t] = <<None, 0>>]
          /\ \/ pc' = [pc EXCEPT ![t] = "idle"]
             \/ pc' = [u \in Threads |-> IF pc[u] = "absent" THEN "absent" ELSE "wild"]
      BY <1>15 DEF RaiseLocked, Raise, Goto, tstate
    <2>2. /\ pc'[t] \in {"idle", "wild"} /\ arg'[t][1] = None
          /\ \A u \in Threads : u # t => /\ pc'[u] = pc[u] \/ pc'[u] = "wild"
                                         /\ arg'[u] = arg[u]
      BY <1>1, <2>1
    <2>3. KeptBase(t)
      BY <1>2, <2>1 DEF KeptBase
    <2>4. ASSUME ~overtaken' PROVE KeptServed(t)
      <3>1. tq[t] # None => qpri'[tq[t]] >= tpri[t]
        <4>1. CASE arg[t][1] = tq[t]
          <5>1. arg[t][1] \in FlexQs /\ arg[t][2] \in Pris
            BY <2>1 DEF AtHand
          <5>2. qpri' = [qpri EXCEPT ![arg[t][1]] = arg[t][2]]
            BY <2>1 DEF SetPriority
          <5>3. qpri'[tq[t]] = arg[t][2]
            BY <1>1, <4>1, <5>1, <5>2
          <5> QED
            BY <2>1, <2>4, <4>1, <5>3, StillServed
        <4>2. CASE arg[t][1] # tq[t]
          BY <2>4, <4>2, StillServed
        <4> QED
          BY <4>1, <4>2
      <3>2. \A i \in DOMAIN entries[t] :
                entries[t][i].gflexq # None => qpri'[entries[t][i].gflexq] >= entries[t][i].priority
        BY <2>4, StillServed
      <3>3. pc'[t] # "raise"
        BY <2>2
      <3> QED
        BY <2>1, <3>1, <3>2, <3>3 DEF KeptServed
    <2>5. Kept(t)
      BY <2>3, <2>4 DEF Kept
    <2> QED
      BY <1>4, <2>1, <2>2, <2>5
  <1>16. ASSUME NEW t \in Threads, NEW q \in FlexQs, Enter(t, q) PROVE \A u \in Threads : Kept(u)
    <2>1. /\ UNCHANGED tpri /\ pc[t] = "idle"
          /\ entries' = [entries EXCEPT ![t] = <<Saved(t)>> \o @]
          /\ tq' = [tq EXCEPT ![t] = q]
      BY <1>16 DEF Enter
    <2>2. /\ tpri'[t] = tpri[t] /\ tq'[t] = q /\ entries'[t] = <<Saved(t)>> \o entries[t]
          /\ \A u \in Threads : u # t => tpri'[u] = tpri[u] /\ tq'[u] = tq[u] /\ entries'[u] = entries[u]
      BY <1>1, <2>1
    <2>3. /\ Based(entries'[t]) /\ AtBase(entries'[t], tq'[t], tpri'[t])
          /\ \A i \in DOMAIN entries'[t] : \/ entries'[t][i] = [priority |-> tpri[t], gflexq |-> tq[t]]
                                           \/ \E j \in DOMAIN entries[t] : entries'[t][i] = entries[t][j]
      <3>1. AtBase(entries[t], tq[t], tpri[t]) /\ entries[t] \in Seq(Entries)
            /\ tq[t] \in FlexQs \cup {None} /\ tpri[t] \in Pris
        BY <1>1, <1>2, <2>1
      <3>2. PICK e \in Seq(Entries), x0 \in Entries : e = entries[t] /\ x0 = Saved(t)
        BY <3>1 DEF Saved, Entries
      <3>3. x0.priority = tpri[t] /\ x0.gflexq = tq[t] /\ x0 = [priority |-> tpri[t], gflexq |-> tq[t]]
        BY <3>2 DEF Saved
      <3>4. entries'[t] = <<x0>> \o e /\ AtBase(e, x0.gflexq, x0.priority)
        BY <2>2, <3>1, <3>2, <3>3
      <3>5. LET w == <<x0>> \o e
            IN  /\ Based(w) /\ \A r \in FlexQs : AtBase(w, r, x0.priority)
                /\ \A i \in DOMAIN w : w[i] = x0 \/ \E j \in DOMAIN e : w[i] = e[j]
        BY <3>4, PushedBase
      <3> QED
        BY <2>2, <3>2, <3>3, <3>4, <3>5
    <2>4. KeptBase(t)
      BY <2>3 DEF KeptBase
    <2>5. CASE /\ arg' = [arg EXCEPT ![t] = <<q, tpri[t]>>] /\ pc' = [pc EXCEPT ![t] = "raise"]
      <3>1. arg'[t][1] = q /\ arg'[t][2] = tpri[t] /\ pc'[t] = "raise"
        BY <1>1, <2>5
      <3>2. tpri[t] \in Nat
        BY <1>1
      <3>3. ASSUME ~overtaken' PROVE KeptServed(t)
        <4>1. \A i \in DOMAIN entries'[t] :
                    entries'[t][i].gflexq # None => qpri'[entries'[t][i].gflexq] >= entries'[t][i].priority
          BY <2>1, <2>3, <3>3, StillServed
        <4> QED
          BY <2>2, <3>1, <3>2, <4>1 DEF KeptServed
      <3>4. Kept(t)
        BY <2>4, <3>3 DEF Kept
      <3> QED
        BY <1>1, <1>4, <2>2, <2>5, <3>4
    <2>6. ASSUME UNCHANGED arg, pc'[t] \in {"idle", "wild"},
                 \A u \in Threads : u # t => pc'[u] = pc[u] \/ pc'[u] = "wild",
                 ~overtaken' => qpri'[q] >= tpri[t]
          PROVE  \A u \in Threads : Kept(u)
      <3>1. ASSUME ~overtaken' PROVE KeptServed(t)
        <4>1. \A i \in DOMAIN entries'[t] :
                    entries'[t][i].gflexq # None => qpri'[entries'[t][i].gflexq] >= entries'[t][i].priority
          BY <2>1, <2>3, <3>1, StillServed
        <4>2. pc'[t] # "raise" /\ qpri'[q] >= tpri[t]
          BY <2>6, <3>1
        <4> QED
          BY <2>2, <4>1, <4>2 DEF KeptServed
      <3>2. Kept(t)
        BY <2>4, <3>1 DEF Kept
      <3> QED
        BY <1>4, <2>2, <2>6, <3>2
    <2>7. ASSUME ~overtaken' PROVE CurrentPriority(t) >= tpri[t] /\ CurrentPriority(t) \in Nat /\ tpri[t] \in Nat
      <3>1. tpri[t] \in Nat
        BY <1>1
      <3>2. CASE tq[t] = None
        BY <3>1, <3>2 DEF CurrentPriority
      <3>3. CASE tq[t] # None
        <4>1. qpri[tq[t]] >= tpri[t]
          BY <2>1, <2>7, <3>3, StillServed
        <4>2. qpri[tq[t]] \in Nat
          BY <1>1, <3>3
        <4> QED
          BY <3>1, <3>3, <4>1, <4>2 DEF CurrentPriority
      <3> QED
        BY <3>2, <3>3
    <2>8. CASE Raise(t, q, CurrentPriority(t), "idle") /\ UNCHANGED arg
      <3>1. SetPriority(q, CurrentPriority(t))
            /\ \/ pc' = [pc EXCEPT ![t] = "idle"]
               \/ pc' = [u \in Threads |-> IF pc[u] = "absent" THEN "absent" ELSE "wild"]
        BY <2>8 DEF Raise, Goto
      <3>2. qpri'[q] = CurrentPriority(t)
        BY <1>1, <3>1 DEF SetPriority
      <3>3. pc'[t] \in {"idle", "wild"} /\ \A u \in Threads : u # t => pc'[u] = pc[u] \/ pc'[u] = "wild"
        BY <1>1, <2>1, <3>1
      <3> QED
        BY <2>6, <2>7, <2>8, <3>2, <3>3
    <2>9. CASE ~(CurrentPriority(t) > qpri[q]) /\ UNCHANGED <<qpri, pc, arg>>
      <3>1. ASSUME ~overtaken' PROVE qpri'[q] >= tpri[t]
        <4>1. qpri[q] \in Nat
          BY <1>1
        <4> QED
          BY <2>7, <2>9, <3>1, <4>1
      <3>2. pc'[t] = "idle"
        BY <2>1, <2>9
      <3> QED
        BY <2>6, <2>9, <3>1, <3>2
    <2> QED
      BY <1>16, <2>5, <2>8, <2>9 DEF Enter, Goto
  <1>17. UNCHANGED vars => UNCHANGED <<tpri, tq, entries, pc, arg>>
    BY DEF vars
  <1>18. \A u \in Threads : Kept(u)
    BY <1>6, <1>7, <1>8, <1>9, <1>10, <1>11, <1>12, <1>13, <1>14, <1>15, <1>16, <1>17, Steps
  <1> QED
    BY <1>18, AllKept

-----------------------------------------------------------------------------
(* The theorems.                                                           *)

LEMMA InvariantInit ==
    ASSUME Init
    PROVE  IInv
  <1>1. /\ PriMax \in Nat /\ 0 \in Pris /\ Pris \subseteq Nat
        /\ InitPri \in [FlexQs -> Pris] /\ TPris \subseteq Pris
    BY GWorkqAssumption DEF Pris
  <1>2. /\ jobs = [q \in Queues |-> << >>] /\ ring = [p \in Pris |-> << >>]
        /\ qpri = InitPri /\ gpri = 0 /\ next = 1
        /\ tpri \in [Threads -> TPris] /\ tq = [t \in Threads |-> None]
        /\ entries = [t \in Threads |-> << >>] /\ pc \in [Threads -> {"idle", "absent"}]
        /\ arg = [t \in Threads |-> <<None, 0>>] /\ gp = [t \in Threads |-> 0]
    BY DEF Init
  <1>3. << >> \in Seq(Nat) /\ << >> \in Seq(FlexQs) /\ << >> \in Seq(Entries)
    OBVIOUS
  <1>4. TypeOK
    <2>1. jobs \in [Queues -> Seq(Nat)] /\ ring \in [Pris -> Seq(FlexQs)]
      BY <1>2, <1>3
    <2>2. entries \in [Threads -> Seq(Entries)] /\ tq \in [Threads -> FlexQs \cup {None}]
      BY <1>2, <1>3
    <2>3. tpri \in [Threads -> Pris]
      BY <1>1, <1>2
    <2>4. pc \in [Threads -> {"absent", "idle", "read", "scan", "run", "raise", "wild"}]
      BY <1>2
    <2>5. arg \in [Threads -> (FlexQs \cup {None}) \X Nat] /\ gp \in [Threads -> -1 .. PriMax]
      BY <1>1, <1>2
    <2>6. slip \in BOOLEAN /\ overtaken \in BOOLEAN
      BY Zenon DEF Init
    <2> QED
      BY <1>1, <1>2, <2>1, <2>2, <2>3, <2>4, <2>5, <2>6 DEF TypeOK
  <1>5. \A t \in Threads : pc[t] \notin {"read", "scan", "run", "raise"}
    BY <1>2
  <1>6. /\ \A q \in Queues : jobs[q] = << >> /\ DOMAIN jobs[q] = {}
        /\ \A p \in Pris : ring[p] = << >> /\ DOMAIN ring[p] = {}
    BY <1>2
  <1>7. AtHand /\ RaiseEnough
    BY <1>5 DEF AtHand, RaiseEnough
  <1>8. FlexLinked
    <2>1. \A q \in FlexQs : jobs[q] = << >>
      BY <1>6 DEF Queues
    <2>2. \A p \in Pris : \A q \in FlexQs : ~ Contains(ring[p], q)
      BY <1>3, <1>6, NotEmpty
    <2> QED
      BY <1>6, <2>1, <2>2 DEF FlexLinked
  <1>9. CallsOnce
    <2>1. \A q \in Queues : ToSet(jobs[q]) = {}
      BY <1>6 DEF ToSet
    <2> QED
      BY <1>5, <1>6, <2>1 DEF CallsOnce
  <1>10. Numbered
    BY <1>5, <1>6 DEF Numbered
  <1>11. Covers
    BY <1>6 DEF Covers, Queues
  <1>12. \A t \in Threads : entries[t] = << >> /\ DOMAIN entries[t] = {} /\ tq[t] = None
    BY <1>2
  <1>13. Bases
    BY <1>12 DEF Bases, AtBase, Based
  <1>14. RequestorsServed
    BY <1>12 DEF RequestorsServed, Served
  <1> QED
    BY <1>4, <1>7, <1>8, <1>9, <1>10, <1>11, <1>13, <1>14 DEF IInv

LEMMA InvariantNext ==
    ASSUME IInv, [Next]_vars
    PROVE  IInv'
  <1>1. /\ TypeOK /\ AtHand /\ FlexLinked /\ CallsOnce /\ Numbered
        /\ Covers /\ Bases /\ RaiseEnough /\ RequestorsServed
    BY DEF IInv
  <1>2. CASE Next
    <2>1. TypeOK' /\ AtHand'
      BY <1>1, <1>2, QueuesTyped, ThreadsTyped DEF TypeOK
    <2>2. FlexLinked'
      BY <1>1, <1>2, FlexLinkedNext
    <2>3. CallsOnce' /\ Numbered'
      BY <1>1, <1>2, CallsOnceNext
    <2>4. Covers'
      BY <1>1, <1>2, CoversNext
    <2>5. Bases' /\ RaiseEnough' /\ RequestorsServed'
      BY <1>1, <1>2, RequestorsNext
    <2> QED
      BY <2>1, <2>2, <2>3, <2>4, <2>5 DEF IInv
  <1>3. CASE UNCHANGED vars
    <2>1. TypeOK' <=> TypeOK
      BY <1>3 DEF vars, TypeOK
    <2>2. AtHand' <=> AtHand
      BY <1>3 DEF vars, AtHand
    <2>3. FlexLinked' <=> FlexLinked
      BY <1>3 DEF vars, FlexLinked, Linked
    <2>4. CallsOnce' /\ Numbered'
      <3>1. UNCHANGED <<jobs, next, pc, arg>>
        BY <1>3 DEF vars
      <3> QED
        BY <1>1, <3>1, CallsKept
    <2>5. Covers' <=> Covers
      BY <1>3 DEF vars, Covers, AsInt
    <2>6. (Bases' <=> Bases) /\ (RaiseEnough' <=> RaiseEnough)
      BY <1>3 DEF vars, Bases, AtBase, Based, Away, RaiseEnough
    <2>7. RequestorsServed' <=> RequestorsServed
      BY <1>3 DEF vars, RequestorsServed, Served
    <2> QED
      BY <1>1, <2>1, <2>2, <2>3, <2>4, <2>5, <2>6, <2>7 DEF IInv
  <1> QED
    BY <1>2, <1>3

(* The inductive invariant holds in every state of every program: what is  *)
(* below about cuflow/gworkq.c and gflexq.c follows from it.               *)
THEOREM GWorkqInvariant == Spec => []IInv
  <1>1. Init => IInv
    BY InvariantInit
  <1>2. IInv /\ [Next]_vars => IInv'
    BY InvariantNext
  <1> QED
    BY <1>1, <1>2, PTL DEF Spec

(* Every variable keeps its type: in particular gworkq_priority, an        *)
(* unsigned word, is always a priority or -1, whatever is scheduled,       *)
(* yielded or raised at the same time.                                     *)
THEOREM TypeCorrect == Spec => []TypeOK
  <1>1. IInv => TypeOK
    BY DEF IInv
  <1> QED
    BY <1>1, GWorkqInvariant, PTL

(* A flexible queue with work is linked, once, at its own priority, for    *)
(* any number of threads, queues and priorities: the unlinking in          *)
(* gworkq_yield_at, the linking in cuflow_gflexq_sched_glck and the moving *)
(* in gflexq_set_priority_glck agree.                                      *)
THEOREM FlexQueuesFound == Spec => []FlexLinked
  <1>1. IInv => FlexLinked
    BY DEF IInv
  <1> QED
    BY <1>1, GWorkqInvariant, PTL

(* No call is on two queues, or queued while it is run, or run by two      *)
(* threads, and each queue keeps the order of scheduling.                  *)
THEOREM CallsTakenOnce == Spec => []CallsOnce
  <1>1. IInv => CallsOnce
    BY DEF IInv
  <1> QED
    BY <1>1, GWorkqInvariant, PTL

(* For any number of threads, no queue above the hint holds work, also     *)
(* when the hint is -1, so that cuflow_gworkq_yield_at may start there:    *)
(* until a yield writes back a copy of the hint that was raised since, or  *)
(* the hint is raised while it is -1.                                      *)
THEOREM HintIsUpperBound == Spec => []HintCovers
  <1>1. ASSUME IInv PROVE HintCovers
    <2>1. SUFFICES ASSUME ~slip, NEW p \in Pris, HasWork(p)
                   PROVE  p <= AsInt(gpri)
      BY DEF HintCovers
    <2>2. TypeOK /\ Covers
      BY <1>1 DEF IInv
    <2>3. jobs[p] # << >> \/ ring[p] # << >>
      BY <2>1, <2>2, SelectedQueue
    <2> QED
      BY <2>1, <2>2, <2>3 DEF Covers
  <1> QED
    BY <1>1, GWorkqInvariant, PTL

(* For any number of threads, a flexible queue has at least the priority   *)
(* of whoever has entered it, through any nesting of enters, raises and    *)
(* calls run, until a raise that was decided without the mutex lowers one. *)
THEOREM RequestorsAreServed == Spec => []RequestorsServed
  <1>1. IInv => RequestorsServed
    BY DEF IInv
  <1> QED
    BY <1>1, GWorkqInvariant, PTL
=============================================================================
