----------------------------- MODULE HsetProofs -----------------------------
(***************************************************************************)
(* Proofs about Hset, for any objects and hashes and any minimal capacity: *)
(* the chains, free lists and resizing of a hash-consing set implement     *)
(* HashSet, no node is leaked or used twice, and the load stays between    *)
(* its limits.                                                             *)
(***************************************************************************)
EXTENDS Hset, FiniteSetTheorems, SequenceTheorems, WellFoundedInduction, TLAPS

-----------------------------------------------------------------------------
(* Induction and recursion, stated with sets and functions for what may be *)
(* any predicate and any step.                                             *)

LEMMA Induction ==
    ASSUME NEW T, 0 \in T, \A n \in Nat : n \in T => n + 1 \in T
    PROVE  Nat \subseteq T
  <1>1. SUFFICES ASSUME Nat \ T # {} PROVE FALSE
    OBVIOUS
  <1>2. PICK n \in Nat \ T : \A y \in Nat \ T : ~(<<y, n>> \in OpToRel(<, Nat))
    BY <1>1, NatLessThanWellFounded, WFMin
  <1>3. n # 0 /\ n - 1 \in Nat /\ n - 1 < n /\ (n - 1) + 1 = n
    OBVIOUS
  <1>4. n - 1 \in T
    BY <1>2, <1>3 DEF OpToRel
  <1> QED
    BY <1>3, <1>4

\* b is a value in S, and G gives the step from each value in S to the next.
Steps(S, b, N, G) == b \in S /\ \A n \in 1 .. N : \A x \in S : G[n][x] \in S

\* f starts with b and takes these steps.
Follows(f, S, b, N, G) == f \in [0 .. N -> S] /\ f[0] = b /\ \A n \in 1 .. N : f[n] = G[n][f[n - 1]]

LEMMA Recursion ==
    ASSUME NEW S, NEW b, NEW N \in Nat, NEW G, Steps(S, b, N, G)
    PROVE  \E f : Follows(f, S, b, N, G)
  <1> DEFINE Starts(f, m) ==
               f \in [0 .. m -> S] /\ f[0] = b /\ \A n \in 1 .. m : f[n] = G[n][f[n - 1]]
             Upto(m) == \E f : Starts(f, m)
             T == {m \in Nat : m <= N => Upto(m)}
  <1>1. Upto(0)
    <2>1. Starts([n \in 0 .. 0 |-> b], 0)
      BY DEF Steps
    <2> QED
      BY <2>1
  <1>2. ASSUME NEW m \in Nat, m + 1 <= N, Upto(m) PROVE Upto(m + 1)
    <2>1. PICK f : Starts(f, m)
      BY <1>2
    <2>2. m + 1 \in 1 .. N /\ f[m] \in S
      BY <1>2, <2>1
    <2>3. G[m + 1][f[m]] \in S
      BY <2>2 DEF Steps
    <2>4. PICK g : g = [n \in 0 .. m + 1 |-> IF n = m + 1 THEN G[m + 1][f[m]] ELSE f[n]]
      OBVIOUS
    <2>5. g \in [0 .. m + 1 -> S] /\ g[0] = b
      BY <2>1, <2>3, <2>4
    <2>6. ASSUME NEW n \in 1 .. m + 1 PROVE g[n] = G[n][g[n - 1]]
      <3>1. n - 1 \in 0 .. m /\ n - 1 # m + 1 /\ g[n - 1] = f[n - 1]
        BY <2>4
      <3>2. CASE n = m + 1
        <4>1. g[n] = G[m + 1][f[m]] /\ n - 1 = m
          BY <2>4, <3>2
        <4> QED
          BY <3>1, <3>2, <4>1
      <3>3. CASE n # m + 1
        <4>1. n \in 1 .. m /\ g[n] = f[n]
          BY <2>4, <3>3
        <4> QED
          BY <2>1, <3>1, <4>1
      <3> QED
        BY <3>2, <3>3
    <2>7. Starts(g, m + 1)
      BY <2>5, <2>6
    <2> QED
      BY <2>7
  <1>3. Upto(N)
    <2> HIDE DEF Upto
    <2>1. 0 \in T
      BY <1>1
    <2>2. \A m \in Nat : m \in T => m + 1 \in T
      BY <1>2
    <2>3. Nat \subseteq T
      BY <2>1, <2>2, Induction
    <2> QED
      BY <2>3
  <1> QED
    BY <1>3 DEF Follows

\* The same for ever: the function on all of Nat.
LEMMA RecursionNat ==
    ASSUME NEW S, NEW b, NEW G, \A N \in Nat : Steps(S, b, N, G)
    PROVE  \E f : \A N \in Nat : Follows([n \in 0 .. N |-> f[n]], S, b, N, G)
  <1>1. \A N \in Nat : \E f : Follows(f, S, b, N, G)
    BY Recursion
  <1>2. PICK F : F = [N \in Nat |-> CHOOSE f : Follows(f, S, b, N, G)]
    OBVIOUS
  <1>3. \A N \in Nat : Follows(F[N], S, b, N, G)
    BY <1>1, <1>2
  <1>4. ASSUME NEW N \in Nat PROVE \A n \in Nat : n <= N => F[N][n] = F[n][n]
    <2> DEFINE T == {n \in Nat : n <= N => \A M \in Nat : n <= M => F[M][n] = F[N][n]}
    <2>1. 0 \in T
      BY <1>3 DEF Follows
    <2>2. ASSUME NEW n \in Nat, n \in T PROVE n + 1 \in T
      <3>1. SUFFICES ASSUME n + 1 <= N, NEW M \in Nat, n + 1 <= M PROVE F[M][n + 1] = F[N][n + 1]
        OBVIOUS
      <3>2. F[M][n] = F[N][n]
        BY <2>2, <3>1
      <3>3. n + 1 \in 1 .. M /\ n + 1 \in 1 .. N /\ (n + 1) - 1 = n
        BY <3>1
      <3>4. F[M][n + 1] = G[n + 1][F[M][n]]
        BY <1>3, <3>3 DEF Follows
      <3>5. F[N][n + 1] = G[n + 1][F[N][n]]
        BY <1>3, <3>3 DEF Follows
      <3> QED
        BY <3>2, <3>4, <3>5
    <2>3. Nat \subseteq T
      <3> HIDE DEF T
      <3> QED
        BY <2>1, <2>2, Induction
    <2> QED
      BY <2>3
  <1>5. PICK f : f = [n \in Nat |-> F[n][n]]
    OBVIOUS
  <1>6. ASSUME NEW N \in Nat PROVE [n \in 0 .. N |-> f[n]] = F[N]
    <2>1. F[N] \in [0 .. N -> S]
      BY <1>3 DEF Follows
    <2>2. \A n \in 0 .. N : f[n] = F[N][n]
      BY <1>4, <1>5
    <2> QED
      BY <2>1, <2>2
  <1>7. ASSUME NEW N \in Nat PROVE Follows([n \in 0 .. N |-> f[n]], S, b, N, G)
    <2>1. PICK g : g = [n \in 0 .. N |-> f[n]]
      OBVIOUS
    <2>2. Follows(g, S, b, N, G)
      BY <1>3, <1>6, <2>1
    <2> QED
      BY <2>1, <2>2
  <1> QED
    BY <1>7

-----------------------------------------------------------------------------
(* Sums.                                                                   *)

LEMMA SumsValue ==
    ASSUME NEW N \in Nat, NEW f \in [0 .. N - 1 -> Int]
    PROVE  /\ Sums(f) \in [0 .. N -> Int]
           /\ Sums(f)[0] = 0
           /\ \A n \in 1 .. N : Sums(f)[n] = Sums(f)[n - 1] + f[n - 1]
           /\ Total(f) = Sums(f)[N]
  <1>1. Cardinality(DOMAIN f) = N
    BY FS_Interval
  <1>2. PICK G : G = [n \in 1 .. N |-> [x \in Int |-> x + f[n - 1]]]
    OBVIOUS
  <1>3. Steps(Int, 0, N, G)
    BY <1>2 DEF Steps
  <1>4. PICK g : Follows(g, Int, 0, N, G)
    BY <1>3, Recursion
  <1>5. ASSUME NEW n \in 1 .. N PROVE g[n] = g[n - 1] + f[n - 1]
    <2>1. g[n - 1] \in Int
      BY <1>4 DEF Follows
    <2>2. G[n][g[n - 1]] = g[n - 1] + f[n - 1]
      BY <1>2, <2>1
    <2> QED
      BY <1>4, <2>2 DEF Follows
  <1>6. g = [n \in 0 .. N |-> IF n = 0 THEN 0 ELSE g[n - 1] + f[n - 1]]
    BY <1>4, <1>5 DEF Follows
  <1>7. Sums(f) = CHOOSE s : s = [n \in 0 .. N |-> IF n = 0 THEN 0 ELSE s[n - 1] + f[n - 1]]
    BY <1>1 DEF Sums
  <1>8. PICK s : s = Sums(f)
    OBVIOUS
  <1>9. s = [n \in 0 .. N |-> IF n = 0 THEN 0 ELSE s[n - 1] + f[n - 1]]
    BY <1>6, <1>7, <1>8
  <1>10. s[0] = 0 /\ \A n \in 1 .. N : s[n] = s[n - 1] + f[n - 1]
    BY <1>9
  <1> DEFINE T == {m \in Nat : m <= N => s[m] \in Int}
  <1>11. Nat \subseteq T
    <2>1. 0 \in T
      BY <1>10
    <2>2. \A m \in Nat : m \in T => m + 1 \in T
      BY <1>10
    <2> QED
      BY <2>1, <2>2, Induction
  <1>12. \A n \in 0 .. N : s[n] \in Int
    BY <1>11
  <1>13. s \in [0 .. N -> Int]
    BY <1>9, <1>12
  <1>14. Total(f) = s[N]
    BY <1>1, <1>8 DEF Total
  <1> QED
    BY <1>8, <1>10, <1>13, <1>14

\* Sums of functions which agree at first agree at first.
LEMMA SumsAgree ==
    ASSUME NEW M \in Nat, NEW N \in Nat, NEW f \in [0 .. M - 1 -> Int], NEW g \in [0 .. N - 1 -> Int],
           NEW c \in Nat, c <= M, c <= N, \A i \in 0 .. c - 1 : f[i] = g[i]
    PROVE  Sums(f)[c] = Sums(g)[c]
  <1> DEFINE T == {m \in Nat : m <= c => Sums(f)[m] = Sums(g)[m]}
  <1>1. Sums(f)[0] = 0 /\ \A n \in 1 .. M : Sums(f)[n] = Sums(f)[n - 1] + f[n - 1]
    BY SumsValue
  <1>2. Sums(g)[0] = 0 /\ \A n \in 1 .. N : Sums(g)[n] = Sums(g)[n - 1] + g[n - 1]
    BY SumsValue
  <1>3. 0 \in T
    BY <1>1, <1>2
  <1>4. \A m \in Nat : m \in T => m + 1 \in T
    BY <1>1, <1>2
  <1>5. Nat \subseteq T
    BY <1>3, <1>4, Induction
  <1> QED
    BY <1>5

\* What one value adds to a sum.
LEMMA SumsChange ==
    ASSUME NEW N \in Nat, NEW f \in [0 .. N - 1 -> Int], NEW g \in [0 .. N - 1 -> Int],
           NEW i \in 0 .. N - 1, \A j \in 0 .. N - 1 : j # i => f[j] = g[j]
    PROVE  \A m \in 0 .. N : Sums(g)[m] = Sums(f)[m] + IF m > i THEN g[i] - f[i] ELSE 0
  <1> DEFINE Moved(m) == Sums(g)[m] = Sums(f)[m] + IF m > i THEN g[i] - f[i] ELSE 0
             T == {m \in Nat : m <= N => Moved(m)}
  <1>1. /\ Sums(f)[0] = 0 /\ \A n \in 1 .. N : Sums(f)[n] = Sums(f)[n - 1] + f[n - 1]
        /\ \A n \in 0 .. N : Sums(f)[n] \in Int
        /\ Total(f) = Sums(f)[N]
    BY SumsValue
  <1>2. /\ Sums(g)[0] = 0 /\ \A n \in 1 .. N : Sums(g)[n] = Sums(g)[n - 1] + g[n - 1]
        /\ \A n \in 0 .. N : Sums(g)[n] \in Int
        /\ Total(g) = Sums(g)[N]
    BY SumsValue
  <1>3. Moved(0)
    BY <1>1, <1>2
  <1>4. ASSUME NEW m \in Nat, m + 1 <= N, Moved(m) PROVE Moved(m + 1)
    <2>1. m + 1 \in 1 .. N /\ m \in 0 .. N - 1 /\ m \in 0 .. N
      BY <1>4
    <2>2. Sums(g)[m + 1] = Sums(g)[m] + g[m] /\ Sums(f)[m + 1] = Sums(f)[m] + f[m]
      BY <1>1, <1>2, <2>1
    <2>3. Sums(f)[m] \in Int /\ f[m] \in Int /\ g[m] \in Int /\ f[i] \in Int /\ g[i] \in Int
      BY <1>1, <2>1
    <2>4. CASE m = i
      BY <1>4, <2>2, <2>3, <2>4
    <2>5. CASE m # i
      <3>1. f[m] = g[m]
        BY <2>1, <2>5
      <3> QED
        BY <1>4, <2>2, <2>3, <2>5, <3>1
    <2> QED
      BY <2>4, <2>5
  <1>5. \A m \in 0 .. N : Moved(m)
    <2> HIDE DEF Moved
    <2>1. 0 \in T
      BY <1>3
    <2>2. \A m \in Nat : m \in T => m + 1 \in T
      BY <1>4
    <2>3. Nat \subseteq T
      BY <2>1, <2>2, Induction
    <2> QED
      BY <2>3
  <1> QED
    BY <1>5

LEMMA SumsZero ==
    ASSUME NEW N \in Nat, NEW f \in [0 .. N - 1 -> Int], \A i \in 0 .. N - 1 : f[i] = 0
    PROVE  \A m \in 0 .. N : Sums(f)[m] = 0
  <1> DEFINE T == {m \in Nat : m <= N => Sums(f)[m] = 0}
  <1>1. /\ Sums(f)[0] = 0 /\ \A n \in 1 .. N : Sums(f)[n] = Sums(f)[n - 1] + f[n - 1]
    BY SumsValue
  <1>2. 0 \in T
    BY <1>1
  <1>3. \A m \in Nat : m \in T => m + 1 \in T
    BY <1>1
  <1>4. Nat \subseteq T
    BY <1>2, <1>3, Induction
  <1> QED
    BY <1>4

LEMMA SumsNatural ==
    ASSUME NEW N \in Nat, NEW f \in [0 .. N - 1 -> Nat]
    PROVE  \A m \in 0 .. N : Sums(f)[m] \in Nat
  <1> DEFINE T == {m \in Nat : m <= N => Sums(f)[m] \in Nat}
  <1>1. f \in [0 .. N - 1 -> Int]
    OBVIOUS
  <1>2. Sums(f)[0] = 0 /\ \A n \in 1 .. N : Sums(f)[n] = Sums(f)[n - 1] + f[n - 1]
    BY <1>1, SumsValue
  <1>3. 0 \in T
    BY <1>2
  <1>4. \A m \in Nat : m \in T => m + 1 \in T
    BY <1>2
  <1>5. Nat \subseteq T
    BY <1>3, <1>4, Induction
  <1> QED
    BY <1>5

-----------------------------------------------------------------------------
(* The powers of two.                                                      *)

LEMMA Exp2Value ==
    /\ Exp2[0] = 1
    /\ \A n \in Nat : Exp2[n] \in Nat /\ Exp2[n] > 0
    /\ \A n \in Nat : Exp2[n + 1] = 2 * Exp2[n]
  <1>1. PICK G : G = [n \in Nat |-> [x \in Nat |-> 2 * x]]
    OBVIOUS
  <1>2. ASSUME NEW N \in Nat PROVE Steps(Nat, 1, N, G)
    BY <1>1 DEF Steps
  <1>3. PICK f : \A N \in Nat : Follows([n \in 0 .. N |-> f[n]], Nat, 1, N, G)
    BY <1>2, RecursionNat
  <1>4. ASSUME NEW N \in Nat PROVE f[N] \in Nat /\ (N # 0 => f[N] = 2 * f[N - 1]) /\ (N = 0 => f[N] = 1)
    <2>1. PICK g : g = [n \in 0 .. N |-> f[n]]
      OBVIOUS
    <2>2. Follows(g, Nat, 1, N, G)
      BY <1>3, <2>1
    <2>3. g[N] = f[N] /\ (N # 0 => g[N - 1] = f[N - 1])
      BY <2>1
    <2>4. g[N] \in Nat /\ (N # 0 => g[N] = G[N][g[N - 1]] /\ g[N - 1] \in Nat) /\ (N = 0 => g[N] = 1)
      BY <2>2 DEF Follows
    <2> QED
      BY <1>1, <2>3, <2>4
  <1>5. [n \in Nat |-> f[n]] = [n \in Nat |-> IF n = 0 THEN 1 ELSE 2 * f[n - 1]]
    BY <1>4
  <1>6. PICK g : g = [n \in Nat |-> f[n]]
    OBVIOUS
  <1>7. g = [n \in Nat |-> IF n = 0 THEN 1 ELSE 2 * g[n - 1]]
    BY <1>5, <1>6
  <1>8. Exp2 = CHOOSE e : e = [n \in Nat |-> IF n = 0 THEN 1 ELSE 2 * e[n - 1]]
    BY DEF Exp2
  <1>9. PICK e : e = Exp2
    OBVIOUS
  <1>10. e = [n \in Nat |-> IF n = 0 THEN 1 ELSE 2 * e[n - 1]]
    BY <1>7, <1>8, <1>9
  <1>11. e[0] = 1 /\ \A n \in Nat : e[n + 1] = 2 * e[n]
    BY <1>10
  <1> DEFINE T == {n \in Nat : e[n] \in Nat /\ e[n] > 0}
  <1>12. Nat \subseteq T
    <2>1. 0 \in T
      BY <1>11
    <2>2. \A n \in Nat : n \in T => n + 1 \in T
      BY <1>11
    <2> QED
      BY <2>1, <2>2, Induction
  <1> QED
    BY <1>9, <1>11, <1>12

LEMMA Exp2Grows ==
    /\ \A n \in Nat : Exp2[n] > n
    /\ \A j, k \in Nat : j < k => 2 * Exp2[j] <= Exp2[k]
  <1>1. PICK e : e = Exp2
    OBVIOUS
  <1>2. e[0] = 1 /\ (\A n \in Nat : e[n] \in Nat /\ e[n] > 0) /\ \A n \in Nat : e[n + 1] = 2 * e[n]
    BY <1>1, Exp2Value
  <1> DEFINE T == {n \in Nat : e[n] > n}
  <1>3. Nat \subseteq T
    <2>1. 0 \in T
      BY <1>2
    <2>2. \A n \in Nat : n \in T => n + 1 \in T
      BY <1>2
    <2> QED
      BY <2>1, <2>2, Induction
  <1>4. ASSUME NEW j \in Nat PROVE \A k \in Nat : j < k => 2 * e[j] <= e[k]
    <2> DEFINE U == {k \in Nat : j < k => 2 * e[j] <= e[k]}
    <2>1. 0 \in U
      OBVIOUS
    <2>2. ASSUME NEW k \in Nat, k \in U PROVE k + 1 \in U
      <3>1. e[k + 1] = 2 * e[k] /\ e[k] \in Nat /\ e[j] \in Nat
        BY <1>2
      <3>2. CASE j = k
        BY <3>1, <3>2
      <3>3. CASE j # k
        BY <2>2, <3>1, <3>3
      <3> QED
        BY <3>2, <3>3
    <2>3. Nat \subseteq U
      <3> HIDE DEF U
      <3> QED
        BY <2>1, <2>2, Induction
    <2> QED
      BY <2>3
  <1> QED
    BY <1>1, <1>3, <1>4

LEMMA Exp2Divides ==
    ASSUME NEW j \in Nat, NEW k \in Nat, j <= k
    PROVE  \E q \in Nat : Exp2[k] = Exp2[j] * q
  <1>1. PICK e : e = Exp2
    OBVIOUS
  <1>2. (\A n \in Nat : e[n] \in Nat /\ e[n] > 0) /\ \A n \in Nat : e[n + 1] = 2 * e[n]
    BY <1>1, Exp2Value
  <1> DEFINE T == {n \in Nat : j <= n => \E q \in Nat : e[n] = e[j] * q}
  <1>3. 0 \in T
    BY <1>2
  <1>4. ASSUME NEW n \in Nat, n \in T PROVE n + 1 \in T
    <2>1. CASE j <= n
      <3>1. PICK q \in Nat : e[n] = e[j] * q
        BY <1>4, <2>1
      <3>2. e[n + 1] = e[j] * (2 * q)
        BY <1>2, <3>1
      <3> QED
        BY <3>2
    <2>2. CASE j = n + 1
      <3>1. e[n + 1] = e[j] * 1
        BY <1>2, <2>2
      <3> QED
        BY <3>1
    <2> QED
      BY <2>1, <2>2
  <1>5. Nat \subseteq T
    <2> HIDE DEF T
    <2> QED
      BY <1>3, <1>4, Induction
  <1> QED
    BY <1>1, <1>5

\* Exp2Ceil is the least power of two that is not below n.
LEMMA Exp2CeilValue ==
    ASSUME NEW n \in Nat, n > 0
    PROVE  \E k \in Nat : /\ Exp2Ceil(n) = Exp2[k]
                         /\ Exp2[k] >= n
                         /\ Exp2[k] < 2 * n
  <1>1. PICK e : e = Exp2
    OBVIOUS
  <1>2. e[0] = 1 /\ (\A i \in Nat : e[i] \in Nat /\ e[i] > i) /\ \A i \in Nat : e[i + 1] = 2 * e[i]
    BY <1>1, Exp2Value, Exp2Grows
  <1> DEFINE T == {i \in Nat : i > 0 => \E k \in 0 .. i : e[k] >= i /\ e[k] < 2 * i}
  <1>3. 0 \in T
    OBVIOUS
  <1>4. ASSUME NEW i \in Nat, i \in T PROVE i + 1 \in T
    <2>1. CASE i = 0
      BY <1>2, <2>1
    <2>2. CASE i > 0
      <3>1. PICK k \in 0 .. i : e[k] >= i /\ e[k] < 2 * i
        BY <1>4, <2>2
      <3>2. e[k] \in Nat /\ e[k + 1] = 2 * e[k] /\ k \in 0 .. i + 1 /\ k + 1 \in 0 .. i + 1
        BY <1>2
      <3>3. CASE e[k] > i
        BY <3>1, <3>2, <3>3
      <3>4. CASE e[k] = i
        BY <2>2, <3>1, <3>2, <3>4
      <3> QED
        BY <3>1, <3>2, <3>3, <3>4
    <2> QED
      BY <2>1, <2>2
  <1>5. PICK k \in 0 .. n : e[k] >= n /\ e[k] < 2 * n
    <2> HIDE DEF T
    <2>1. n \in T
      BY <1>3, <1>4, Induction
    <2> QED
      BY <2>1 DEF T
  <1>6. PICK P : P = {e[i] : i \in 0 .. n}
    OBVIOUS
  <1>7. PICK p \in P : Exp2Ceil(n) = p /\ p >= n /\ p < 2 * n
    BY <1>1, <1>5, <1>6 DEF Exp2Ceil
  <1> QED
    BY <1>1, <1>6, <1>7

-----------------------------------------------------------------------------
(* The sizing policy.                                                      *)

\* The numbers of buckets a set may have.
Capacity(c) == c >= MIN_CAPACITY /\ \E k \in Nat : c = Exp2[k]

LEMMA CapacityFacts ==
    /\ Capacity(MIN_CAPACITY)
    /\ \A c : Capacity(c) => c \in Nat /\ c >= 2 /\ \E q \in Nat : c = 2 * q
    /\ \A c : Capacity(c) => Capacity(2 * c)
  <1>1. PICK n \in 1 .. MIN_CAPACITY : MIN_CAPACITY = Exp2[n]
    BY CapacityAssumption
  <1>2. MIN_CAPACITY \in Nat /\ n \in Nat /\ n > 0
    BY <1>1, CapacityAssumption
  <1>3. MIN_CAPACITY >= 2
    BY <1>1, <1>2, Exp2Grows
  <1>4. Capacity(MIN_CAPACITY)
    BY <1>1, <1>2 DEF Capacity
  <1>5. ASSUME NEW c, Capacity(c) PROVE c \in Nat /\ c >= 2 /\ (\E q \in Nat : c = 2 * q) /\ Capacity(2 * c)
    <2>1. PICK k \in Nat : c = Exp2[k]
      BY <1>5 DEF Capacity
    <2>2. c \in Nat /\ c >= 2
      BY <1>2, <1>3, <1>5, <2>1, Exp2Value DEF Capacity
    <2>3. k # 0
      BY <2>1, <2>2, Exp2Value
    <2>4. k - 1 \in Nat /\ (k - 1) + 1 = k
      BY <2>3
    <2>5. Exp2[k - 1] \in Nat /\ c = 2 * Exp2[k - 1]
      BY <2>1, <2>4, Exp2Value
    <2>6. k + 1 \in Nat /\ 2 * c = Exp2[k + 1]
      BY <2>1, Exp2Value
    <2>7. 2 * c >= MIN_CAPACITY
      BY <1>2, <1>5, <2>2 DEF Capacity
    <2>8. Capacity(2 * c)
      BY <2>6, <2>7 DEF Capacity
    <2> QED
      BY <2>2, <2>5, <2>8
  <1> QED
    BY <1>4, <1>5

LEMMA CapacityOrder ==
    ASSUME NEW c, NEW d, Capacity(c), Capacity(d)
    PROVE  /\ c < d => 2 * c <= d
           /\ c <= d => \E q \in Nat : d = c * q
  <1>1. PICK j \in Nat : c = Exp2[j]
    BY DEF Capacity
  <1>2. PICK k \in Nat : d = Exp2[k]
    BY DEF Capacity
  <1>3. c \in Nat /\ d \in Nat /\ c > 0 /\ d > 0
    BY CapacityFacts
  <1>4. CASE j < k
    <2>1. 2 * c <= d
      BY <1>1, <1>2, <1>4, Exp2Grows
    <2>2. \E q \in Nat : d = c * q
      BY <1>1, <1>2, <1>4, Exp2Divides
    <2> QED
      BY <2>1, <2>2
  <1>5. CASE j = k
    <2>1. d = c * 1
      BY <1>1, <1>2, <1>3, <1>5
    <2> QED
      BY <2>1, <1>3
  <1>6. CASE k < j
    <2>1. 2 * d <= c
      BY <1>1, <1>2, <1>6, Exp2Grows
    <2> QED
      BY <2>1, <1>3
  <1> QED
    BY <1>4, <1>5, <1>6

\* The limits of the load of s objects in c buckets.
InLimits(s, c) == (s * 8 >= (c - 1) * 3 \/ c = MIN_CAPACITY) /\ s * 2 <= (c - 1) * 3 + 1

\* The number of buckets after an insertion has made s objects, and after an
\* erasure has left s.
CapAfterInsert(s, m) == IF Overloaded(s, m) THEN (m + 1) * 2 ELSE m + 1
CapAfterErase(s, m) == IF Underloaded(s, m) THEN ShrunkCap(s) ELSE m + 1

LEMMA GrowthInLimits ==
    ASSUME NEW s \in Nat, NEW c, Capacity(c), InLimits(s, c)
    PROVE  /\ CapAfterInsert(s + 1, c - 1) = IF Overloaded(s + 1, c - 1) THEN 2 * c ELSE c
           /\ Capacity(CapAfterInsert(s + 1, c - 1))
           /\ InLimits(s + 1, CapAfterInsert(s + 1, c - 1))
  <1>1. c \in Nat /\ c >= 2 /\ Capacity(2 * c)
    BY CapacityFacts
  <1>2. Overloaded(s + 1, c - 1) <=> (s + 1) * 2 > (c - 1) * 3
    BY DEF Overloaded, MAX_LOAD_DENOM, MAX_LOAD_NUMER
  <1>3. CapAfterInsert(s + 1, c - 1) = IF Overloaded(s + 1, c - 1) THEN 2 * c ELSE c
    BY <1>1 DEF CapAfterInsert
  <1>4. CASE Overloaded(s + 1, c - 1)
    <2>1. (s + 1) * 8 >= (2 * c - 1) * 3 /\ (s + 1) * 2 <= (2 * c - 1) * 3 + 1
      BY <1>1, <1>2, <1>4 DEF InLimits
    <2> QED
      BY <1>1, <1>3, <1>4, <2>1 DEF InLimits
  <1>5. CASE ~Overloaded(s + 1, c - 1)
    <2>1. InLimits(s + 1, c)
      BY <1>1, <1>2, <1>5 DEF InLimits
    <2> QED
      BY <1>3, <1>5, <2>1
  <1> QED
    BY <1>4, <1>5

\* Two thirds of the objects, rounded down, are still enough buckets: were
\* they one too few, there would be more than 4 and less than 8 times as many
\* buckets before, and both are powers of two.
LEMMA ShrinkingInLimits ==
    ASSUME NEW s \in Nat, NEW c, Capacity(c), InLimits(s + 1, c), Underloaded(s, c - 1)
    PROVE  /\ Capacity(ShrunkCap(s)) /\ ShrunkCap(s) < c
           /\ InLimits(s, ShrunkCap(s))
  <1>1. PICK n : n = (s * 2) \div 3
    OBVIOUS
  <1>2. n \in Nat /\ 3 * n <= 2 * s /\ 2 * s <= 3 * n + 2
    BY <1>1
  <1>3. PICK p : p = Exp2Ceil(n)
    OBVIOUS
  <1>4. ShrunkCap(s) = IF p < MIN_CAPACITY THEN MIN_CAPACITY ELSE p
    BY <1>1, <1>3 DEF ShrunkCap, MAX_LOAD_DENOM, MAX_LOAD_NUMER
  <1>5. s * 8 < (c - 1) * 3 /\ c - 1 > MIN_CAPACITY
    BY DEF Underloaded, MIN_LOAD_DENOM, MIN_LOAD_NUMER
  <1>6. c \in Nat /\ c >= 2 /\ MIN_CAPACITY \in Nat /\ MIN_CAPACITY >= 2 /\ Capacity(MIN_CAPACITY)
    BY CapacityFacts
  <1>7. 2 * MIN_CAPACITY <= c
    <2>1. MIN_CAPACITY < c
      BY <1>5, <1>6
    <2> QED
      BY <1>6, <2>1, CapacityOrder
  <1>8. (s + 1) * 8 >= (c - 1) * 3
    BY <1>5, <1>6 DEF InLimits
  <1>9. CASE n = 0
    <2>1. p = 0
      BY <1>3, <1>9 DEF Exp2Ceil
    <2>2. s <= 1
      BY <1>2, <1>9
    <2>3. s * 2 <= (MIN_CAPACITY - 1) * 3 + 1
      BY <1>6, <2>2
    <2>4. ShrunkCap(s) = MIN_CAPACITY
      BY <1>4, <1>6, <2>1
    <2>5. MIN_CAPACITY < c
      BY <1>6, <1>7
    <2> QED
      BY <1>6, <2>3, <2>4, <2>5 DEF InLimits
  <1>10. CASE n > 0
    <2>1. PICK k \in Nat : p = Exp2[k] /\ p >= n /\ p < 2 * n
      BY <1>2, <1>3, <1>10, Exp2CeilValue
    <2>2. p \in Nat
      BY <2>1, Exp2Value
    <2>3. p < c /\ MIN_CAPACITY < c
      BY <1>2, <1>5, <1>6, <1>7, <2>1, <2>2
    <2>4. p >= MIN_CAPACITY => Capacity(p)
      BY <2>1 DEF Capacity
    <2>5. Capacity(ShrunkCap(s)) /\ ShrunkCap(s) < c
      BY <1>4, <1>6, <2>2, <2>3, <2>4
    <2>6. p * 3 <= 8 * s
      BY <1>2, <2>1, <2>2
    <2>7. s * 2 <= (ShrunkCap(s) - 1) * 3 + 1
      <3>1. PICK b : b = ShrunkCap(s)
        OBVIOUS
      <3>2. b \in Nat /\ b >= 2 /\ b >= n /\ Capacity(4 * b)
        <4>1. b \in Nat /\ b >= 2 /\ b >= n /\ Capacity(2 * b)
          <5>1. b \in Nat /\ b >= 2 /\ Capacity(2 * b)
            BY <2>5, <3>1, CapacityFacts
          <5>2. b >= n
            BY <1>2, <1>4, <1>6, <2>1, <2>2, <3>1
          <5> QED
            BY <5>1, <5>2
        <4>2. Capacity(2 * (2 * b)) /\ 2 * (2 * b) = 4 * b
          BY <4>1, CapacityFacts
        <4> QED
          BY <4>1, <4>2
      <3>3. PICK r \in Nat : b = 2 * r
        BY <2>5, <3>1, CapacityFacts
      <3>4. SUFFICES ASSUME s * 2 > (b - 1) * 3 + 1 PROVE FALSE
        BY <3>1, <3>2
      <3>5. s >= 3 * r /\ s <= 3 * r + 1
        BY <1>2, <3>2, <3>3, <3>4
      <3>6. 4 * b < c /\ c <= 4 * b + 6
        BY <1>5, <1>6, <1>8, <3>3, <3>5
      <3>7. 2 * (4 * b) <= c
        BY <3>2, <3>6, CapacityOrder
      <3> QED
        BY <1>6, <3>2, <3>6, <3>7
    <2> QED
      BY <1>4, <1>6, <2>2, <2>5, <2>6, <2>7 DEF InLimits
  <1> QED
    BY <1>2, <1>9, <1>10

-----------------------------------------------------------------------------
(* Slots after shrinking.                                                  *)

LEMMA RemainderIs ==
    ASSUME NEW x \in Nat, NEW c \in Nat, c > 0
    PROVE  x % c \in 0 .. c - 1 /\ \E k \in Nat : x = k * c + (x % c)
  <1>1. x % c \in 0 .. c - 1
    OBVIOUS
  <1>2. x \div c \in Nat /\ x = (x \div c) * c + (x % c)
    OBVIOUS
  <1> QED
    BY <1>1, <1>2

LEMMA RemainderUnique ==
    ASSUME NEW c \in Nat, c > 0, NEW r \in 0 .. c - 1, NEW s \in 0 .. c - 1,
           NEW k \in Nat, NEW l \in Nat, k * c + r = l * c + s
    PROVE  r = s
  <1>1. (k - l) * c = s - r
    OBVIOUS
  <1>2. CASE k > l
    <2>1. (k - l) * c >= c
      BY <1>2
    <2> QED
      BY <1>1, <2>1
  <1>3. CASE k < l
    <2>1. (l - k) * c >= c
      BY <1>3
    <2> QED
      BY <1>1, <2>1
  <1>4. CASE k = l
    BY <1>4
  <1> QED
    BY <1>2, <1>3, <1>4

LEMMA RemainderTwice ==
    ASSUME NEW x \in Nat, NEW c \in Nat, c > 0, NEW q \in Nat, q > 0
    PROVE  (x % (c * q)) % c = x % c
  <1>1. PICK d \in Nat : d = c * q /\ d > 0
    OBVIOUS
  <1>2. PICK k \in Nat : x = k * d + (x % d)
    BY <1>1, RemainderIs
  <1>3. PICK y \in Nat : y = x % d
    BY <1>1
  <1>4. PICK l \in Nat : y = l * c + (y % c)
    BY RemainderIs
  <1>5. PICK j \in Nat : x = j * c + (x % c)
    BY RemainderIs
  <1>6. x % c \in 0 .. c - 1 /\ y % c \in 0 .. c - 1
    BY RemainderIs
  <1>7. x = ((k * q + l) * c) + (y % c)
    <2>1. PICK u \in Nat : u = k * q
      OBVIOUS
    <2>2. k * d = u * c
      BY <1>1, <2>1
    <2>3. (u + l) * c = (u * c) + (l * c)
      OBVIOUS
    <2>4. x = (u * c) + y
      BY <1>2, <1>3, <2>2
    <2>5. x = (u * c) + ((l * c) + (y % c))
      BY <1>4, <2>4
    <2>6. u * c \in Nat /\ l * c \in Nat /\ y % c \in Nat
      BY <1>6
    <2>7. x = ((u + l) * c) + (y % c)
      BY <2>3, <2>5, <2>6
    <2> QED
      BY <2>1, <2>7
  <1>8. x % c = y % c
    BY <1>5, <1>6, <1>7, RemainderUnique
  <1> QED
    BY <1>1, <1>3, <1>8

-----------------------------------------------------------------------------
(* Chains.                                                                 *)

\* The objects of s are distinct.
Distinct(s) == \A p, q \in DOMAIN s : s[p] = s[q] => p = q

LEMMA ToSetFinite ==
    ASSUME NEW s \in Seq(Objs)
    PROVE  /\ ToSet(s) \subseteq Objs /\ IsFiniteSet(ToSet(s)) /\ Cardinality(ToSet(s)) \in Nat
           /\ Distinct(s) <=> Cardinality(ToSet(s)) = Len(s)
  <1>1. ToSet(s) \subseteq Objs
    BY DEF ToSet
  <1>2. IsFiniteSet(ToSet(s))
    BY <1>1, FS_Subset, HsetAssumption
  <1>3. Cardinality(ToSet(s)) \in Nat
    BY <1>2, FS_CardinalityType
  <1>4. IsFiniteSet(1 .. Len(s)) /\ Cardinality(1 .. Len(s)) = Len(s)
    <2>1. Len(s) \in Nat
      OBVIOUS
    <2> QED
      BY <2>1, FS_Interval
  <1>5. s \in Surjection(1 .. Len(s), ToSet(s))
    BY DEF Surjection, ToSet
  <1>6. Cardinality(ToSet(s)) = Len(s) <=> s \in Injection(1 .. Len(s), ToSet(s))
    BY <1>4, <1>5, FS_Surjection
  <1>7. s \in Injection(1 .. Len(s), ToSet(s)) <=> Distinct(s)
    BY <1>5 DEF Injection, Surjection, IsInjective, Distinct
  <1> QED
    BY <1>1, <1>2, <1>3, <1>6, <1>7

LEMMA ToSetConcat ==
    ASSUME NEW s \in Seq(Objs), NEW t \in Seq(Objs)
    PROVE  s \o t \in Seq(Objs) /\ Len(s \o t) = Len(s) + Len(t) /\ ToSet(s \o t) = ToSet(s) \cup ToSet(t)
  <1>1. PICK r : r = s \o t
    OBVIOUS
  <1>2. r \in Seq(Objs) /\ Len(r) = Len(s) + Len(t)
    BY <1>1
  <1>3. ASSUME NEW i \in 1 .. Len(s) PROVE r[i] = s[i] /\ i \in 1 .. Len(r)
    BY <1>1
  <1>4. ASSUME NEW i \in 1 .. Len(t) PROVE r[Len(s) + i] = t[i] /\ Len(s) + i \in 1 .. Len(r)
    BY <1>1
  <1>5. ASSUME NEW i \in 1 .. Len(r) PROVE r[i] \in ToSet(s) \cup ToSet(t)
    <2>1. CASE i <= Len(s)
      BY <1>3, <2>1 DEF ToSet
    <2>2. CASE i > Len(s)
      <3>1. PICK j \in 1 .. Len(t) : i = Len(s) + j
        <4>1. Len(s) \in Nat /\ Len(t) \in Nat
          OBVIOUS
        <4>2. i - Len(s) \in 1 .. Len(t) /\ i = Len(s) + (i - Len(s))
          BY <1>2, <2>2, <4>1
        <4> QED
          BY <4>2
      <3>2. r[i] = t[j]
        BY <1>4, <3>1
      <3> QED
        BY <3>2 DEF ToSet
    <2> QED
      BY <2>1, <2>2
  <1>6. ToSet(r) = ToSet(s) \cup ToSet(t)
    <2>1. ToSet(r) \subseteq ToSet(s) \cup ToSet(t)
      BY <1>2, <1>5 DEF ToSet
    <2>2. ToSet(s) \subseteq ToSet(r)
      BY <1>2, <1>3 DEF ToSet
    <2>3. ToSet(t) \subseteq ToSet(r)
      <3>1. ASSUME NEW i \in 1 .. Len(t) PROVE t[i] \in ToSet(r)
        <4>1. PICK j \in 1 .. Len(r) : r[j] = t[i]
          BY <1>4
        <4>2. j \in DOMAIN r
          BY <1>2
        <4>3. r[j] \in ToSet(r)
          BY <4>2 DEF ToSet
        <4> QED
          BY <4>1, <4>3
      <3> QED
        BY <3>1 DEF ToSet
    <2> QED
      BY <2>1, <2>2, <2>3
  <1> QED
    BY <1>1, <1>2, <1>6

LEMMA ConcatAt ==
    ASSUME NEW s \in Seq(Objs), NEW t \in Seq(Objs)
    PROVE  /\ \A i \in 1 .. Len(s) : (s \o t)[i] = s[i]
           /\ \A i \in 1 .. Len(t) : (s \o t)[Len(s) + i] = t[i]
  OBVIOUS

\* r has the objects of s and of t, in whatever order.
Joins(r, s, t) == r \in Seq(Objs) /\ Len(r) = Len(s) + Len(t) /\ ToSet(r) = ToSet(s) \cup ToSet(t)

LEMMA JoinDistinct ==
    ASSUME NEW r, NEW s \in Seq(Objs), NEW t \in Seq(Objs), Joins(r, s, t),
           Distinct(s), Distinct(t), ToSet(s) \cap ToSet(t) = {}
    PROVE  Distinct(r)
  <1>1. r \in Seq(Objs) /\ Len(r) = Len(s) + Len(t) /\ ToSet(r) = ToSet(s) \cup ToSet(t)
    BY DEF Joins
  <1>2. Cardinality(ToSet(s)) = Len(s) /\ Cardinality(ToSet(t)) = Len(t)
    BY ToSetFinite
  <1>3. IsFiniteSet(ToSet(s)) /\ IsFiniteSet(ToSet(t))
    BY ToSetFinite
  <1>4. Cardinality(ToSet(s) \cup ToSet(t)) = Len(s) + Len(t) - Cardinality(ToSet(s) \cap ToSet(t))
    BY <1>2, <1>3, FS_Union
  <1>5. Cardinality(ToSet(s) \cap ToSet(t)) = 0
    BY FS_EmptySet
  <1>6. Cardinality(ToSet(r)) = Len(r)
    BY <1>1, <1>4, <1>5
  <1> QED
    BY <1>1, <1>6, ToSetFinite

\* The full quads of a chain and its last link.
LEMMA Links ==
    ASSUME NEW s \in Seq(Objs)
    PROVE  Quads(s) \in Seq(Objs) /\ LastLink(s) \in Seq(Objs) /\ Joins(s, Quads(s), LastLink(s))
  <1>1. PICK n : n = Len(s) - TailLen(s)
    OBVIOUS
  <1>2. n \in 0 .. Len(s)
    BY <1>1 DEF TailLen
  <1>3. PICK a, b : a = SubSeq(s, 1, n) /\ b = SubSeq(s, n + 1, Len(s))
    OBVIOUS
  <1>4. a \in Seq(Objs) /\ Len(a) = n /\ \A i \in 1 .. n : a[i] = s[i]
    BY <1>2, <1>3
  <1>5. b \in Seq(Objs) /\ Len(b) = Len(s) - n /\ \A i \in 1 .. Len(s) - n : b[i] = s[n + i]
    BY <1>2, <1>3
  <1>6. ToSet(s) = ToSet(a) \cup ToSet(b)
    <2>1. ASSUME NEW i \in 1 .. Len(s) PROVE s[i] \in ToSet(a) \cup ToSet(b)
      <3>1. CASE i <= n
        BY <1>2, <1>4, <3>1 DEF ToSet
      <3>2. CASE i > n
        <4>1. PICK j \in 1 .. Len(s) - n : i = n + j
          BY <1>2, <3>2
        <4>2. s[i] = b[j]
          BY <1>5, <4>1
        <4> QED
          BY <1>5, <4>2 DEF ToSet
      <3> QED
        BY <1>2, <3>1, <3>2
    <2>2. ASSUME NEW i \in 1 .. n PROVE a[i] \in ToSet(s)
      BY <1>2, <1>4 DEF ToSet
    <2>3. ASSUME NEW i \in 1 .. Len(s) - n PROVE b[i] \in ToSet(s)
      <3>1. n + i \in 1 .. Len(s)
        BY <1>2
      <3> QED
        BY <1>5, <3>1 DEF ToSet
    <2>4. ToSet(s) \subseteq ToSet(a) \cup ToSet(b)
      BY <2>1 DEF ToSet
    <2>5. ToSet(a) \subseteq ToSet(s)
      BY <1>4, <2>2 DEF ToSet
    <2>6. ToSet(b) \subseteq ToSet(s)
      BY <1>5, <2>3 DEF ToSet
    <2> QED
      BY <2>4, <2>5, <2>6
  <1>7. Quads(s) = a /\ LastLink(s) = b
    BY <1>1, <1>3 DEF Quads, LastLink
  <1> QED
    BY <1>2, <1>4, <1>5, <1>6, <1>7 DEF Joins

LEMMA MergePairJoins ==
    ASSUME NEW s \in Seq(Objs), NEW t \in Seq(Objs)
    PROVE  Joins(MergePair(s, t), s, t)
  <1>1. Quads(s) \in Seq(Objs) /\ LastLink(s) \in Seq(Objs) /\ Joins(s, Quads(s), LastLink(s))
    BY Links
  <1>2. Joins(Quads(s) \o t, Quads(s), t)
    BY <1>1, ToSetConcat DEF Joins
  <1>3. Joins((Quads(s) \o t) \o LastLink(s), Quads(s) \o t, LastLink(s))
    BY <1>1, <1>2, ToSetConcat DEF Joins
  <1> QED
    BY <1>1, <1>2, <1>3 DEF Joins, MergePair

LEMMA MergeQuadJoins ==
    ASSUME NEW s \in Seq(Objs), NEW t \in Seq(Objs)
    PROVE  Joins(MergeQuad(s, t), s, t)
  <1>1. Quads(s) \in Seq(Objs) /\ LastLink(s) \in Seq(Objs) /\ Joins(s, Quads(s), LastLink(s))
    BY Links
  <1>2. Joins(s \o t, s, t) /\ Joins(t \o s, t, s)
    BY ToSetConcat DEF Joins
  <1>3. Joins((Quads(s) \o t) \o LastLink(s), s, t)
    BY MergePairJoins DEF MergePair
  <1>4. Joins(Quads(s) \o MergePair(t, LastLink(s)), s, t)
    <2>1. Joins(MergePair(t, LastLink(s)), t, LastLink(s))
      BY <1>1, MergePairJoins
    <2>2. Joins(Quads(s) \o MergePair(t, LastLink(s)), Quads(s), MergePair(t, LastLink(s)))
      BY <1>1, <2>1, ToSetConcat DEF Joins
    <2> QED
      BY <1>1, <2>1, <2>2 DEF Joins
  <1>5. Joins(t \o s, s, t)
    BY <1>2 DEF Joins
  <1>6. TailLen(s) \in {0, 1, 2}
    BY DEF TailLen
  <1> QED
    BY <1>2, <1>3, <1>4, <1>5, <1>6 DEF MergeQuad

\* t is s without its object at p, in whatever order.
Drops(t, s, p) == t \in Seq(Objs) /\ Len(t) = Len(s) - 1 /\ ToSet(t) = ToSet(s) \ {s[p]}

LEMMA DropsWhen ==
    ASSUME NEW s \in Seq(Objs), Distinct(s), NEW p \in 1 .. Len(s),
           NEW t \in Seq(Objs), Len(t) = Len(s) - 1,
           \A i \in 1 .. Len(s) - 1 : \E j \in 1 .. Len(s) : j # p /\ t[i] = s[j],
           \A j \in 1 .. Len(s) : j # p => \E i \in 1 .. Len(s) - 1 : t[i] = s[j]
    PROVE  Drops(t, s, p)
  <1>1. DOMAIN t = 1 .. Len(s) - 1 /\ DOMAIN s = 1 .. Len(s)
    OBVIOUS
  <1>2. ASSUME NEW i \in DOMAIN t PROVE t[i] \in ToSet(s) \ {s[p]}
    <2>1. PICK j \in DOMAIN s : j # p /\ t[i] = s[j]
      BY <1>1
    <2>2. s[j] # s[p]
      BY <2>1 DEF Distinct
    <2> QED
      BY <2>1, <2>2 DEF ToSet
  <1>3. \A j \in DOMAIN s : s[j] # s[p] => s[j] \in ToSet(t)
    BY <1>1 DEF ToSet
  <1>4. ToSet(t) \subseteq ToSet(s) \ {s[p]}
    BY <1>2 DEF ToSet
  <1>5. ToSet(s) \ {s[p]} \subseteq ToSet(t)
    BY <1>3 DEF ToSet
  <1> QED
    BY <1>4, <1>5 DEF Drops

\* A chain without one of its objects.
LEMMA UnchainDrops ==
    ASSUME NEW h, NEW s \in Seq(Objs), Distinct(s), NEW p \in 1 .. Len(s)
    PROVE  Drops(Unchain(h, s, p)[1], s, p)
  <1>1. PICK n \in Nat : n = Len(s) /\ DOMAIN s = 1 .. n
    OBVIOUS
  <1>2. PICK t : t = Unchain(h, s, p)[1]
    OBVIOUS
  <1>3. p \in 1 .. n /\ \A i \in 1 .. n : s[i] \in Objs
    BY <1>1
  <1>4. CASE p > n - TailLen(s)
    <2>1. t = RemoveAt(s, p)
      BY <1>1, <1>2, <1>4 DEF Unchain
    <2>2. t = SubSeq(s, 1, p - 1) \o SubSeq(s, p + 1, n)
      BY <1>1, <2>1 DEF RemoveAt
    <2>3. PICK a, b : a = SubSeq(s, 1, p - 1) /\ b = SubSeq(s, p + 1, n)
      OBVIOUS
    <2>4. a \in Seq(Objs) /\ Len(a) = p - 1 /\ \A i \in 1 .. p - 1 : a[i] = s[i]
      BY <1>1, <1>3, <2>3
    <2>5. b \in Seq(Objs) /\ Len(b) = n - p /\ \A i \in 1 .. n - p : b[i] = s[p + i]
      BY <1>1, <1>3, <2>3
    <2>6. t = a \o b
      BY <2>2, <2>3
    <2>7. t \in Seq(Objs) /\ Len(t) = n - 1
      <3>1. t \in Seq(Objs) /\ Len(t) = Len(a) + Len(b)
        BY <2>4, <2>5, <2>6, ToSetConcat
      <3> QED
        BY <1>3, <2>4, <2>5, <3>1
    <2>8. \A i \in 1 .. p - 1 : t[i] = s[i]
      BY <1>3, <2>4, <2>5, <2>6
    <2>9. \A i \in p .. n - 1 : t[i] = s[i + 1]
      <3>1. ASSUME NEW i \in p .. n - 1 PROVE t[i] = s[i + 1]
        <4>1. PICK j \in 1 .. n - p : i = (p - 1) + j
          <5>1. i - (p - 1) \in 1 .. n - p /\ i = (p - 1) + (i - (p - 1))
            BY <1>3
          <5> QED
            BY <5>1
        <4>2. t[i] = b[j]
          <5>1. j \in 1 .. Len(b)
            BY <2>5
          <5>2. t[Len(a) + j] = b[j]
            BY <2>4, <2>5, <2>6, <5>1, ConcatAt
          <5> QED
            BY <2>4, <4>1, <5>2
        <4>3. p + j = i + 1
          BY <1>3, <4>1
        <4> QED
          BY <2>5, <4>2, <4>3
      <3> QED
        BY <3>1
    <2>10. ASSUME NEW i \in 1 .. n - 1 PROVE \E j \in 1 .. n : j # p /\ t[i] = s[j]
      BY <1>3, <2>8, <2>9
    <2>11. ASSUME NEW j \in 1 .. n, j # p PROVE \E i \in 1 .. n - 1 : t[i] = s[j]
      <3>1. CASE j < p
        BY <1>3, <2>8, <3>1
      <3>2. CASE j > p
        <4>1. j - 1 \in p .. n - 1 /\ j - 1 \in 1 .. n - 1 /\ (j - 1) + 1 = j
          BY <1>3, <3>2
        <4> QED
          BY <2>9, <4>1
      <3> QED
        BY <1>3, <2>11, <3>1, <3>2
    <2> QED
      BY <1>1, <1>2, <2>7, <2>10, <2>11, DropsWhen
  <1>5. CASE p <= n - TailLen(s) /\ TailLen(s) = 0 /\ p > n - 3
    <2> DEFINE rest(k) == s[n - 2 + ((p - n + 2 + k) % 3)]
    <2>1. t = SubSeq(s, 1, n - 3) \o <<rest(1), rest(2)>>
      <3>1. ~(p > Len(s) - TailLen(s)) /\ TailLen(s) = 0 /\ p > Len(s) - 3
        BY <1>1, <1>3, <1>5
      <3>2. Unchain(h, s, p) = <<SubSeq(s, 1, Len(s) - 3)
                                   \o <<s[Len(s) - 2 + ((p - Len(s) + 2 + 1) % 3)],
                                        s[Len(s) - 2 + ((p - Len(s) + 2 + 2) % 3)]>>, FreeQuad(AllocPair(h))>>
        BY <3>1 DEF Unchain
      <3> QED
        BY <1>1, <1>2, <3>2
    <2>2. n >= 3
      BY <1>1, <1>3, <1>5 DEF TailLen
    <2>3. \/ p = n - 2 /\ rest(1) = s[n - 1] /\ rest(2) = s[n]
          \/ p = n - 1 /\ rest(1) = s[n] /\ rest(2) = s[n - 2]
          \/ p = n /\ rest(1) = s[n - 2] /\ rest(2) = s[n - 1]
      <3>1. CASE p = n - 2
        <4>1. p - n + 2 = 0
          BY <3>1
        <4> QED
          BY <3>1, <4>1
      <3>2. CASE p = n - 1
        <4>1. p - n + 2 = 1
          BY <3>2
        <4> QED
          BY <3>2, <4>1
      <3>3. CASE p = n
        <4>1. p - n + 2 = 2
          BY <3>3
        <4> QED
          BY <3>3, <4>1
      <3> QED
        BY <1>3, <1>5, <3>1, <3>2, <3>3
    <2>4. PICK a, x, y : a = SubSeq(s, 1, n - 3) /\ x = rest(1) /\ y = rest(2)
      OBVIOUS
    <2>5. x \in Objs /\ y \in Objs
      BY <1>3, <2>2, <2>3, <2>4
    <2>6. a \in Seq(Objs) /\ Len(a) = n - 3 /\ \A i \in 1 .. n - 3 : a[i] = s[i]
      <3>1. PICK m : m = n - 3
        OBVIOUS
      <3>2. m \in 0 .. n
        BY <2>2, <3>1
      <3>3. a = SubSeq(s, 1, m)
        BY <2>4, <3>1
      <3>4. a \in Seq(Objs) /\ Len(a) = m /\ \A i \in 1 .. m : a[i] = s[i]
        BY <1>1, <3>2, <3>3
      <3> QED
        BY <3>1, <3>4
    <2>7. t = a \o <<x, y>>
      BY <2>1, <2>4
    <2>8. t \in Seq(Objs) /\ Len(t) = n - 1
      BY <2>2, <2>5, <2>6, <2>7
    <2>9. (\A i \in 1 .. n - 3 : t[i] = s[i]) /\ t[n - 2] = x /\ t[n - 1] = y
      <3>1. PICK b : b = <<x, y>>
        OBVIOUS
      <3>2. b \in Seq(Objs) /\ Len(b) = 2 /\ b[1] = x /\ b[2] = y
        BY <2>5, <3>1
      <3>3. t[Len(a) + 1] = b[1] /\ t[Len(a) + 2] = b[2] /\ \A i \in 1 .. Len(a) : t[i] = a[i]
        <4>1. t = a \o b /\ 1 \in 1 .. Len(b) /\ 2 \in 1 .. Len(b)
          BY <2>7, <3>1, <3>2
        <4>2. \A i \in 1 .. Len(b) : t[Len(a) + i] = b[i]
          BY <2>6, <3>2, <4>1, ConcatAt
        <4>3. \A i \in 1 .. Len(a) : t[i] = a[i]
          BY <2>6, <3>2, <4>1, ConcatAt
        <4> QED
          BY <4>1, <4>2, <4>3
      <3>4. Len(a) + 1 = n - 2 /\ Len(a) + 2 = n - 1
        BY <2>2, <2>6
      <3> QED
        BY <2>6, <3>2, <3>3, <3>4
    <2>10. ASSUME NEW i \in 1 .. n - 1 PROVE \E j \in 1 .. n : j # p /\ t[i] = s[j]
      <3>1. CASE i <= n - 3
        <4>1. i \in 1 .. n /\ i # p /\ t[i] = s[i]
          BY <1>5, <2>2, <2>9, <3>1
        <4> QED
          BY <4>1
      <3>2. n \in 1 .. n /\ n - 1 \in 1 .. n /\ n - 2 \in 1 .. n
        BY <2>2
      <3>3. CASE i = n - 2
        <4>1. t[i] = x
          BY <2>9, <3>3
        <4> QED
          BY <2>3, <2>4, <3>2, <4>1
      <3>4. CASE i = n - 1
        <4>1. t[i] = y
          BY <2>9, <3>4
        <4> QED
          BY <2>3, <2>4, <3>2, <4>1
      <3> QED
        BY <2>2, <3>1, <3>3, <3>4
    <2>11. ASSUME NEW j \in 1 .. n, j # p PROVE \E i \in 1 .. n - 1 : t[i] = s[j]
      <3>1. n - 2 \in 1 .. n - 1 /\ n - 1 \in 1 .. n - 1
        BY <2>2
      <3>2. CASE j <= n - 3
        <4>1. j \in 1 .. n - 3 /\ j \in 1 .. n - 1
          BY <2>2, <3>2
        <4> QED
          BY <2>9, <4>1
      <3>3. CASE j > n - 3
        <4>1. s[j] = x \/ s[j] = y
          <5>1. j \in {n - 2, n - 1, n}
            BY <3>3
          <5> QED
            BY <2>2, <2>3, <2>4, <2>11, <5>1
        <4> QED
          BY <2>9, <3>1, <4>1
      <3> QED
        BY <2>2, <3>2, <3>3
    <2> QED
      BY <1>1, <1>2, <2>8, <2>10, <2>11, DropsWhen
  <1>6. CASE p <= n - TailLen(s) /\ ~(TailLen(s) = 0 /\ p > n - 3)
    <2>1. t = [Front(s) EXCEPT ![p] = Last(s)]
      BY <1>1, <1>2, <1>3, <1>6 DEF Unchain, TailLen
    <2>2. p < n
      BY <1>1, <1>3, <1>6 DEF TailLen
    <2>3. PICK f : f = Front(s)
      OBVIOUS
    <2>4. f \in Seq(Objs) /\ Len(f) = n - 1 /\ \A i \in 1 .. n - 1 : f[i] = s[i]
      BY <1>1, <2>2, <2>3 DEF Front
    <2>5. t = [f EXCEPT ![p] = s[n]]
      BY <1>1, <2>1, <2>3 DEF Last
    <2>6. t \in Seq(Objs) /\ Len(t) = n - 1
      BY <1>3, <2>2, <2>4, <2>5
    <2>7. t[p] = s[n] /\ \A i \in 1 .. n - 1 : i # p => t[i] = s[i]
      BY <1>3, <2>2, <2>4, <2>5
    <2>8. ASSUME NEW i \in 1 .. n - 1 PROVE \E j \in 1 .. n : j # p /\ t[i] = s[j]
      <3>1. i \in 1 .. n /\ n \in 1 .. n /\ n # p
        BY <2>2
      <3> QED
        BY <2>7, <3>1
    <2>9. ASSUME NEW j \in 1 .. n, j # p PROVE \E i \in 1 .. n - 1 : t[i] = s[j]
      <3>1. CASE j = n
        <4>1. p \in 1 .. n - 1
          BY <1>3, <2>2
        <4> QED
          BY <2>7, <3>1, <4>1
      <3>2. CASE j < n
        <4>1. j \in 1 .. n - 1
          BY <3>2
        <4> QED
          BY <2>7, <2>9, <4>1
      <3> QED
        BY <3>1, <3>2
    <2> QED
      BY <1>1, <1>2, <2>6, <2>8, <2>9, DropsWhen
  <1>7. n - TailLen(s) \in Int
    BY <1>1 DEF TailLen
  <1> QED
    BY <1>3, <1>4, <1>5, <1>6, <1>7

-----------------------------------------------------------------------------
(* Nodes.                                                                  *)

\* The sets of n buckets.
Table(n) == [arr : [0 .. n - 1 -> Seq(Objs)], size : Nat, free_pairs : Nat, free_quads : Nat,
             pairs : Int, quads : Int]

\* g is h with p more pairs in its chains, and q more quads.
Takes(g, h, p, q) ==
    /\ g.arr = h.arr /\ g.size = h.size
    /\ g.pairs - g.free_pairs = (h.pairs - h.free_pairs) + p
    /\ g.quads - g.free_quads = (h.quads - h.free_quads) + q

LEMMA TakesMore ==
    ASSUME NEW n, NEW f \in Table(n), NEW g \in Table(n), NEW h \in Table(n),
           NEW p \in Int, NEW q \in Int, NEW r \in Int, NEW s \in Int, Takes(g, h, p, q), Takes(f, g, r, s)
    PROVE  Takes(f, h, p + r, q + s)
  <1>1. /\ h.pairs \in Int /\ h.free_pairs \in Int /\ h.quads \in Int /\ h.free_quads \in Int
        /\ g.pairs \in Int /\ g.free_pairs \in Int /\ g.quads \in Int /\ g.free_quads \in Int
        /\ f.pairs \in Int /\ f.free_pairs \in Int /\ f.quads \in Int /\ f.free_quads \in Int
    BY DEF Table
  <1>2. f.pairs - f.free_pairs = (h.pairs - h.free_pairs) + (p + r)
    BY <1>1 DEF Takes
  <1>3. f.quads - f.free_quads = (h.quads - h.free_quads) + (q + s)
    BY <1>1 DEF Takes
  <1> QED
    BY <1>2, <1>3 DEF Takes

\* What each operation on nodes takes, or returns.
LEMMA NodesTaken ==
    ASSUME NEW n, NEW h \in Table(n)
    PROVE  /\ AllocPair(h) \in Table(n) /\ Takes(AllocPair(h), h, 1, 0)
           /\ AllocQuad(h) \in Table(n) /\ Takes(AllocQuad(h), h, 0, 1)
           /\ StashPair(h) \in Table(n) /\ Takes(StashPair(h), h, -1, 0)
           /\ StashQuad(h) \in Table(n) /\ Takes(StashQuad(h), h, 0, -1)
           /\ FreePair(h) \in Table(n) /\ Takes(FreePair(h), h, -1, 0)
           /\ FreeQuad(h) \in Table(n) /\ Takes(FreeQuad(h), h, 0, -1)
           /\ Prune(h) \in Table(n) /\ Takes(Prune(h), h, 0, 0)
  <1>1. /\ h.arr \in [0 .. n - 1 -> Seq(Objs)] /\ h.size \in Nat /\ h.free_pairs \in Nat /\ h.free_quads \in Nat
        /\ h.pairs \in Int /\ h.quads \in Int
    BY DEF Table
  <1>2. AllocPair(h) \in Table(n) /\ AllocQuad(h) \in Table(n) /\ StashPair(h) \in Table(n) /\ StashQuad(h) \in Table(n)
    <2>1. AllocPair(h) \in Table(n)
      BY <1>1 DEF AllocPair, Table
    <2>2. AllocQuad(h) \in Table(n)
      BY <1>1 DEF AllocQuad, Table
    <2>3. StashPair(h) \in Table(n)
      BY <1>1 DEF StashPair, Table
    <2>4. StashQuad(h) \in Table(n)
      BY <1>1 DEF StashQuad, Table
    <2> QED
      BY <2>1, <2>2, <2>3, <2>4
  <1>3. Takes(AllocPair(h), h, 1, 0)
    BY <1>1 DEF AllocPair, Takes, Table
  <1>4. Takes(AllocQuad(h), h, 0, 1)
    BY <1>1 DEF AllocQuad, Takes, Table
  <1>5. Takes(StashPair(h), h, -1, 0)
    BY <1>1 DEF StashPair, Takes, Table
  <1>6. Takes(StashQuad(h), h, 0, -1)
    BY <1>1 DEF StashQuad, Takes, Table
  <1>7. FreePair(h) \in Table(n) /\ Takes(FreePair(h), h, -1, 0)
    <2>1. CASE h.free_pairs < MAX_FREE
      BY <1>2, <1>5, <2>1 DEF FreePair
    <2>2. CASE ~(h.free_pairs < MAX_FREE)
      <3>1. PICK g : g = [h EXCEPT !.pairs = @ - 1]
        OBVIOUS
      <3>2. g \in Table(n)
        BY <3>1 DEF Table
      <3>3. Takes(g, h, -1, 0)
        BY <1>1, <3>1 DEF Takes, Table
      <3> QED
        BY <2>2, <3>1, <3>2, <3>3 DEF FreePair
    <2> QED
      BY <2>1, <2>2
  <1>8. FreeQuad(h) \in Table(n) /\ Takes(FreeQuad(h), h, 0, -1)
    <2>1. CASE h.free_quads < MAX_FREE
      BY <1>2, <1>6, <2>1 DEF FreeQuad
    <2>2. CASE ~(h.free_quads < MAX_FREE)
      <3>1. PICK g : g = [h EXCEPT !.quads = @ - 1]
        OBVIOUS
      <3>2. g \in Table(n)
        BY <3>1 DEF Table
      <3>3. Takes(g, h, 0, -1)
        BY <1>1, <3>1 DEF Takes, Table
      <3> QED
        BY <2>2, <3>1, <3>2, <3>3 DEF FreeQuad
    <2> QED
      BY <2>1, <2>2
  <1>9. Prune(h) \in Table(n) /\ Takes(Prune(h), h, 0, 0)
    <2> DEFINE excess(k) == IF k > MAX_FREE THEN k - MAX_FREE ELSE 0
    <2>1. PICK a, b : a = excess(h.free_pairs) /\ b = excess(h.free_quads)
      OBVIOUS
    <2>2. a \in Nat /\ b \in Nat /\ a <= h.free_pairs /\ b <= h.free_quads
      BY <1>1, <2>1, HsetAssumption
    <2>3. Prune(h) = [h EXCEPT !.free_pairs = h.free_pairs - a, !.pairs = h.pairs - a,
                               !.free_quads = h.free_quads - b, !.quads = h.quads - b]
      BY <2>1 DEF Prune, Table
    <2>4. PICK g : g = Prune(h)
      OBVIOUS
    <2>5. /\ g.arr = h.arr /\ g.size = h.size /\ g.free_pairs = h.free_pairs - a /\ g.pairs = h.pairs - a
          /\ g.free_quads = h.free_quads - b /\ g.quads = h.quads - b
      BY <2>3, <2>4 DEF Table
    <2>6. g \in Table(n)
      <3>1. h.free_pairs - a \in Nat /\ h.pairs - a \in Int /\ h.free_quads - b \in Nat /\ h.quads - b \in Int
        BY <1>1, <2>2
      <3> QED
        BY <2>3, <2>4, <3>1 DEF Table
    <2>7. Takes(g, h, 0, 0)
      BY <1>1, <2>2, <2>5 DEF Takes
    <2> QED
      BY <2>4, <2>6, <2>7
  <1> QED
    BY <1>2, <1>3, <1>4, <1>5, <1>6, <1>7, <1>8, <1>9

\* The pairs and the quads of a chain of n objects.
PairsOf(n) == IF n % 3 = 2 THEN 1 ELSE 0
QuadsOf(n) == n \div 3

LEMMA LinkNodes ==
    /\ \A s \in Seq(Objs) : PairsIn(s) = PairsOf(Len(s)) /\ QuadsIn(s) = QuadsOf(Len(s))
    /\ \A n \in Nat : PairsOf(n) \in Nat /\ QuadsOf(n) \in Nat
  BY DEF PairsIn, QuadsIn, PairsOf, QuadsOf, TailLen

LEMMA LinkNodesType ==
    ASSUME NEW s \in Seq(Objs)
    PROVE  PairsIn(s) \in Int /\ QuadsIn(s) \in Int /\ PairsIn(s) >= 0 /\ QuadsIn(s) >= 0
  BY DEF PairsIn, QuadsIn, TailLen

\* The nodes that a chain of n objects takes when it becomes one of k more.
LEMMA MergeObjTakes ==
    ASSUME NEW n, NEW h \in Table(n), NEW s \in Seq(Objs)
    PROVE  /\ MergeObjNodes(h, s) \in Table(n)
           /\ Takes(MergeObjNodes(h, s), h, PairsOf(Len(s) + 1) - PairsOf(Len(s)),
                                           QuadsOf(Len(s) + 1) - QuadsOf(Len(s)))
  <1>1. PICK k \in Nat : k = Len(s)
    OBVIOUS
  <1>2. CASE k % 3 = 0
    <2>1. PairsOf(k + 1) - PairsOf(k) = 0 /\ QuadsOf(k + 1) - QuadsOf(k) = 0
      BY <1>2 DEF PairsOf, QuadsOf
    <2>2. MergeObjNodes(h, s) = h
      BY <1>1, <1>2 DEF MergeObjNodes, TailLen
    <2>3. Takes(h, h, 0, 0)
      BY DEF Takes, Table
    <2> QED
      BY <1>1, <2>1, <2>2, <2>3
  <1>3. CASE k % 3 = 1
    <2>1. PairsOf(k + 1) - PairsOf(k) = 1 /\ QuadsOf(k + 1) - QuadsOf(k) = 0
      BY <1>3 DEF PairsOf, QuadsOf
    <2>2. MergeObjNodes(h, s) = AllocPair(h)
      BY <1>1, <1>3 DEF MergeObjNodes, TailLen
    <2> QED
      BY <1>1, <2>1, <2>2, NodesTaken
  <1>4. CASE k % 3 = 2
    <2>1. PairsOf(k + 1) - PairsOf(k) = -1 /\ QuadsOf(k + 1) - QuadsOf(k) = 1
      BY <1>4 DEF PairsOf, QuadsOf
    <2>2. MergeObjNodes(h, s) = StashPair(AllocQuad(h))
      BY <1>1, <1>4 DEF MergeObjNodes, TailLen
    <2>3. AllocQuad(h) \in Table(n) /\ Takes(AllocQuad(h), h, 0, 1)
      BY NodesTaken
    <2>4. StashPair(AllocQuad(h)) \in Table(n) /\ Takes(StashPair(AllocQuad(h)), AllocQuad(h), -1, 0)
      BY <2>3, NodesTaken
    <2>5. Takes(StashPair(AllocQuad(h)), h, 0 + (-1), 1 + 0)
      BY <2>3, <2>4, TakesMore
    <2> QED
      BY <1>1, <2>1, <2>2, <2>4, <2>5
  <1> QED
    BY <1>1, <1>2, <1>3, <1>4

LEMMA MergePairTakes ==
    ASSUME NEW n, NEW h \in Table(n), NEW s \in Seq(Objs)
    PROVE  /\ MergePairNodes(h, s) \in Table(n)
           /\ Takes(MergePairNodes(h, s), h, PairsOf(Len(s) + 2) - PairsOf(Len(s)) - 1,
                                            QuadsOf(Len(s) + 2) - QuadsOf(Len(s)))
  <1>1. PICK k \in Nat : k = Len(s)
    OBVIOUS
  <1>2. AllocQuad(h) \in Table(n) /\ Takes(AllocQuad(h), h, 0, 1)
    BY NodesTaken
  <1>3. StashPair(AllocQuad(h)) \in Table(n) /\ Takes(StashPair(AllocQuad(h)), AllocQuad(h), -1, 0)
    BY <1>2, NodesTaken
  <1>4. Takes(StashPair(AllocQuad(h)), h, 0 + (-1), 1 + 0)
    BY <1>2, <1>3, TakesMore
  <1>5. CASE k % 3 = 0
    <2>1. PairsOf(k + 2) - PairsOf(k) - 1 = 0 /\ QuadsOf(k + 2) - QuadsOf(k) = 0
      BY <1>5 DEF PairsOf, QuadsOf
    <2>2. MergePairNodes(h, s) = h
      BY <1>1, <1>5 DEF MergePairNodes, TailLen
    <2>3. Takes(h, h, 0, 0)
      BY DEF Takes, Table
    <2> QED
      BY <1>1, <2>1, <2>2, <2>3
  <1>6. CASE k % 3 = 1
    <2>1. PairsOf(k + 2) - PairsOf(k) - 1 = -1 /\ QuadsOf(k + 2) - QuadsOf(k) = 1
      BY <1>6 DEF PairsOf, QuadsOf
    <2>2. MergePairNodes(h, s) = StashPair(AllocQuad(h))
      BY <1>1, <1>6 DEF MergePairNodes, TailLen
    <2> QED
      BY <1>1, <1>3, <1>4, <2>1, <2>2
  <1>7. CASE k % 3 = 2
    <2>1. PairsOf(k + 2) - PairsOf(k) - 1 = -2 /\ QuadsOf(k + 2) - QuadsOf(k) = 1
      BY <1>7 DEF PairsOf, QuadsOf
    <2>2. MergePairNodes(h, s) = StashPair(StashPair(AllocQuad(h)))
      BY <1>1, <1>7 DEF MergePairNodes, TailLen
    <2>3. PICK g : g = StashPair(AllocQuad(h))
      OBVIOUS
    <2>4. g \in Table(n) /\ Takes(g, h, -1, 1)
      BY <1>3, <1>4, <2>3
    <2>5. StashPair(g) \in Table(n) /\ Takes(StashPair(g), g, -1, 0)
      BY <2>4, NodesTaken
    <2>6. Takes(StashPair(g), h, -1 + (-1), 1 + 0)
      BY <2>4, <2>5, TakesMore
    <2> QED
      BY <1>1, <2>1, <2>2, <2>3, <2>5, <2>6
  <1> QED
    BY <1>1, <1>5, <1>6, <1>7

LEMMA MergeQuadTakes ==
    ASSUME NEW n, NEW h \in Table(n), NEW s \in Seq(Objs), NEW t \in Seq(Objs)
    PROVE  /\ MergeQuadNodes(h, s, t) \in Table(n)
           /\ Takes(MergeQuadNodes(h, s, t), h,
                    PairsOf(Len(s) + Len(t)) - PairsOf(Len(s)) - PairsOf(Len(t)),
                    QuadsOf(Len(s) + Len(t)) - QuadsOf(Len(s)) - QuadsOf(Len(t)))
  <1>1. PICK k \in Nat, l \in Nat : k = Len(s) /\ l = Len(t)
    OBVIOUS
  <1>2. CASE l = 3 \/ k % 3 = 0
    <2>1. PairsOf(k + l) - PairsOf(k) - PairsOf(l) = 0 /\ QuadsOf(k + l) - QuadsOf(k) - QuadsOf(l) = 0
      BY <1>2 DEF PairsOf, QuadsOf
    <2>2. MergeQuadNodes(h, s, t) = h
      BY <1>1, <1>2 DEF MergeQuadNodes, TailLen
    <2>3. Takes(h, h, 0, 0)
      BY DEF Takes, Table
    <2> QED
      BY <1>1, <2>1, <2>2, <2>3
  <1>3. CASE l # 3 /\ k % 3 = 1
    <2>1. PairsOf(k + l) - PairsOf(k) - PairsOf(l) = PairsOf(l + 1) - PairsOf(l)
      BY <1>3 DEF PairsOf
    <2>2. QuadsOf(k + l) - QuadsOf(k) - QuadsOf(l) = QuadsOf(l + 1) - QuadsOf(l)
      BY <1>3 DEF QuadsOf
    <2>3. MergeQuadNodes(h, s, t) = MergeObjNodes(h, t)
      BY <1>1, <1>3 DEF MergeQuadNodes, TailLen
    <2> QED
      BY <1>1, <2>1, <2>2, <2>3, MergeObjTakes
  <1>4. CASE l # 3 /\ k % 3 = 2
    <2>1. PairsOf(k + l) - PairsOf(k) - PairsOf(l) = PairsOf(l + 2) - PairsOf(l) - 1
      BY <1>4 DEF PairsOf
    <2>2. QuadsOf(k + l) - QuadsOf(k) - QuadsOf(l) = QuadsOf(l + 2) - QuadsOf(l)
      BY <1>4 DEF QuadsOf
    <2>3. MergeQuadNodes(h, s, t) = MergePairNodes(h, t)
      BY <1>1, <1>4 DEF MergeQuadNodes, TailLen
    <2> QED
      BY <1>1, <2>1, <2>2, <2>3, MergePairTakes
  <1> QED
    BY <1>1, <1>2, <1>3, <1>4

-----------------------------------------------------------------------------
(* Buckets.                                                                *)

PairSums(h) == Sums([i \in DOMAIN h.arr |-> PairsIn(h.arr[i])])
QuadSums(h) == Sums([i \in DOMAIN h.arr |-> QuadsIn(h.arr[i])])

\* The pairs, and the quads, that are neither on the free list nor in the
\* first c buckets.
PairSlack(h, c) == (h.pairs - h.free_pairs) - PairSums(h)[c]
QuadSlack(h, c) == (h.quads - h.free_quads) - QuadSums(h)[c]

\* The objects in the first c buckets.
Within(h, c) == UNION {ToSet(h.arr[i]) : i \in 0 .. c - 1}

LEMMA SumsType ==
    ASSUME NEW n \in Nat, NEW h \in Table(n)
    PROVE  /\ DOMAIN h.arr = 0 .. n - 1
           /\ [i \in DOMAIN h.arr |-> PairsIn(h.arr[i])] \in [0 .. n - 1 -> Int]
           /\ [i \in DOMAIN h.arr |-> QuadsIn(h.arr[i])] \in [0 .. n - 1 -> Int]
           /\ \A c \in 0 .. n : PairSums(h)[c] \in Int /\ QuadSums(h)[c] \in Int
           /\ PairSums(h)[0] = 0 /\ QuadSums(h)[0] = 0
           /\ \A c \in 1 .. n : /\ PairSums(h)[c] = PairSums(h)[c - 1] + PairsIn(h.arr[c - 1])
                               /\ QuadSums(h)[c] = QuadSums(h)[c - 1] + QuadsIn(h.arr[c - 1])
  <1>1. h.arr \in [0 .. n - 1 -> Seq(Objs)] /\ DOMAIN h.arr = 0 .. n - 1
    BY DEF Table
  <1>2. \A i \in 0 .. n - 1 : PairsIn(h.arr[i]) \in Int /\ QuadsIn(h.arr[i]) \in Int
    <2>1. \A i \in 0 .. n - 1 : h.arr[i] \in Seq(Objs)
      BY <1>1
    <2> QED
      BY <2>1, LinkNodesType
  <1>3. PICK f : f = [i \in DOMAIN h.arr |-> PairsIn(h.arr[i])]
    OBVIOUS
  <1>4. PICK g : g = [i \in DOMAIN h.arr |-> QuadsIn(h.arr[i])]
    OBVIOUS
  <1>5. f \in [0 .. n - 1 -> Int] /\ g \in [0 .. n - 1 -> Int]
    BY <1>1, <1>2, <1>3, <1>4
  <1>6. /\ Sums(f) \in [0 .. n -> Int] /\ Sums(f)[0] = 0
        /\ \A c \in 1 .. n : Sums(f)[c] = Sums(f)[c - 1] + f[c - 1]
    BY <1>5, SumsValue
  <1>7. /\ Sums(g) \in [0 .. n -> Int] /\ Sums(g)[0] = 0
        /\ \A c \in 1 .. n : Sums(g)[c] = Sums(g)[c - 1] + g[c - 1]
    BY <1>5, SumsValue
  <1>8. \A c \in 1 .. n : f[c - 1] = PairsIn(h.arr[c - 1]) /\ g[c - 1] = QuadsIn(h.arr[c - 1])
    BY <1>1, <1>3, <1>4
  <1>9. PairSums(h) = Sums(f) /\ QuadSums(h) = Sums(g)
    BY <1>3, <1>4 DEF PairSums, QuadSums
  <1> QED
    BY <1>1, <1>3, <1>4, <1>5, <1>6, <1>7, <1>8, <1>9

\* g is h with the chain t in bucket i, and p pairs and q quads returned.
Rebuckets(g, h, n, i, t, p, q) ==
    /\ g \in Table(n) /\ g.arr = [h.arr EXCEPT ![i] = t]
    /\ g.pairs - g.free_pairs = (h.pairs - h.free_pairs) + PairsIn(t) - PairsIn(h.arr[i]) - p
    /\ g.quads - g.free_quads = (h.quads - h.free_quads) + QuadsIn(t) - QuadsIn(h.arr[i]) - q

LEMMA RebucketsSlack ==
    ASSUME NEW n \in Nat, NEW h \in Table(n), NEW i \in 0 .. n - 1, NEW t \in Seq(Objs),
           NEW p \in Int, NEW q \in Int, NEW g, Rebuckets(g, h, n, i, t, p, q)
    PROVE  \A c \in 0 .. n : c > i => /\ PairSlack(g, c) = PairSlack(h, c) - p
                                     /\ QuadSlack(g, c) = QuadSlack(h, c) - q
  <1>1. g \in Table(n) /\ g.arr = [h.arr EXCEPT ![i] = t]
    BY DEF Rebuckets
  <1>2. DOMAIN h.arr = 0 .. n - 1 /\ DOMAIN g.arr = 0 .. n - 1
    BY <1>1, SumsType
  <1>3. g.arr[i] = t /\ \A j \in 0 .. n - 1 : j # i => g.arr[j] = h.arr[j]
    BY <1>1, <1>2
  <1>4. PICK f : f = [j \in DOMAIN h.arr |-> PairsIn(h.arr[j])]
    OBVIOUS
  <1>5. PICK e : e = [j \in DOMAIN g.arr |-> PairsIn(g.arr[j])]
    OBVIOUS
  <1>6. f \in [0 .. n - 1 -> Int] /\ e \in [0 .. n - 1 -> Int]
    BY <1>1, <1>4, <1>5, SumsType
  <1>7. \A j \in 0 .. n - 1 : j # i => f[j] = e[j]
    BY <1>2, <1>3, <1>4, <1>5
  <1>8. e[i] = PairsIn(t) /\ f[i] = PairsIn(h.arr[i])
    BY <1>2, <1>3, <1>4, <1>5
  <1>9. \A c \in 0 .. n : Sums(e)[c] = Sums(f)[c] + IF c > i THEN e[i] - f[i] ELSE 0
    BY <1>6, <1>7, SumsChange
  <1>10. PICK v : v = [j \in DOMAIN h.arr |-> QuadsIn(h.arr[j])]
    OBVIOUS
  <1>11. PICK u : u = [j \in DOMAIN g.arr |-> QuadsIn(g.arr[j])]
    OBVIOUS
  <1>12. v \in [0 .. n - 1 -> Int] /\ u \in [0 .. n - 1 -> Int]
    BY <1>1, <1>10, <1>11, SumsType
  <1>13. \A j \in 0 .. n - 1 : j # i => v[j] = u[j]
    BY <1>2, <1>3, <1>10, <1>11
  <1>14. u[i] = QuadsIn(t) /\ v[i] = QuadsIn(h.arr[i])
    BY <1>2, <1>3, <1>10, <1>11
  <1>15. \A c \in 0 .. n : Sums(u)[c] = Sums(v)[c] + IF c > i THEN u[i] - v[i] ELSE 0
    BY <1>12, <1>13, SumsChange
  <1>16. PairSums(h) = Sums(f) /\ PairSums(g) = Sums(e) /\ QuadSums(h) = Sums(v) /\ QuadSums(g) = Sums(u)
    BY <1>4, <1>5, <1>10, <1>11 DEF PairSums, QuadSums
  <1>17. ASSUME NEW c \in 0 .. n, c > i
         PROVE  PairSlack(g, c) = PairSlack(h, c) - p /\ QuadSlack(g, c) = QuadSlack(h, c) - q
    <2>1. /\ PairSums(g)[c] = PairSums(h)[c] + (PairsIn(t) - PairsIn(h.arr[i]))
          /\ QuadSums(g)[c] = QuadSums(h)[c] + (QuadsIn(t) - QuadsIn(h.arr[i]))
      BY <1>8, <1>9, <1>14, <1>15, <1>16, <1>17
    <2>2. /\ PairSums(h)[c] \in Int /\ QuadSums(h)[c] \in Int
          /\ PairsIn(t) \in Int /\ QuadsIn(t) \in Int /\ PairsIn(h.arr[i]) \in Int /\ QuadsIn(h.arr[i]) \in Int
      BY <1>6, <1>8, <1>12, <1>14, SumsType
    <2>3. h.pairs - h.free_pairs \in Int /\ h.quads - h.free_quads \in Int
      BY DEF Table
    <2>4. PairSlack(g, c) = PairSlack(h, c) - p
      <3>1. g.pairs - g.free_pairs = (h.pairs - h.free_pairs) + PairsIn(t) - PairsIn(h.arr[i]) - p
        BY DEF Rebuckets
      <3> QED
        BY ONLY <2>1, <2>2, <2>3, <3>1, p \in Int, q \in Int DEF PairSlack
    <2>5. QuadSlack(g, c) = QuadSlack(h, c) - q
      <3>1. g.quads - g.free_quads = (h.quads - h.free_quads) + QuadsIn(t) - QuadsIn(h.arr[i]) - q
        BY DEF Rebuckets
      <3> QED
        BY ONLY <2>1, <2>2, <2>3, <3>1, p \in Int, q \in Int DEF QuadSlack
    <2> QED
      BY <2>4, <2>5
  <1> QED
    BY <1>17

LEMMA TakesSlack ==
    ASSUME NEW n \in Nat, NEW h \in Table(n), NEW g \in Table(n), NEW p \in Int, NEW q \in Int,
           Takes(g, h, p, q), NEW c \in 0 .. n
    PROVE  PairSlack(g, c) = PairSlack(h, c) + p /\ QuadSlack(g, c) = QuadSlack(h, c) + q
  <1>1. PairSums(g) = PairSums(h) /\ QuadSums(g) = QuadSums(h)
    BY DEF PairSums, QuadSums, Takes
  <1>2. PairSums(h)[c] \in Int /\ QuadSums(h)[c] \in Int
    BY SumsType
  <1>3. h.pairs - h.free_pairs \in Int /\ h.quads - h.free_quads \in Int
    BY DEF Table
  <1>4. PairSlack(g, c) = PairSlack(h, c) + p
    BY <1>1, <1>2, <1>3 DEF PairSlack, Takes
  <1>5. QuadSlack(g, c) = QuadSlack(h, c) + q
    BY <1>1, <1>2, <1>3 DEF QuadSlack, Takes
  <1> QED
    BY <1>4, <1>5

\* A chain put into bucket i after nodes have been taken for it.
LEMMA TakesRebuckets ==
    ASSUME NEW n \in Nat, NEW h \in Table(n), NEW g \in Table(n), NEW i \in 0 .. n - 1,
           NEW t \in Seq(Objs), NEW p \in Int, NEW q \in Int,
           Takes(g, h, PairsIn(t) - PairsIn(h.arr[i]) - p, QuadsIn(t) - QuadsIn(h.arr[i]) - q)
    PROVE  Rebuckets([g EXCEPT !.arr[i] = t], h, n, i, t, p, q) /\ [g EXCEPT !.arr[i] = t].size = h.size
  <1>1. PICK f : f = [g EXCEPT !.arr[i] = t]
    OBVIOUS
  <1>2. g.arr = h.arr /\ g.size = h.size /\ h.arr \in [0 .. n - 1 -> Seq(Objs)]
    BY DEF Takes, Table
  <1>3. /\ f.arr = [h.arr EXCEPT ![i] = t] /\ f.size = g.size /\ f.pairs = g.pairs /\ f.quads = g.quads
        /\ f.free_pairs = g.free_pairs /\ f.free_quads = g.free_quads
    BY <1>1, <1>2 DEF Table
  <1>4. [h.arr EXCEPT ![i] = t] \in [0 .. n - 1 -> Seq(Objs)]
    BY <1>2
  <1>5. f \in Table(n)
    BY <1>1, <1>2, <1>4 DEF Table
  <1>6. h.arr[i] \in Seq(Objs)
    BY <1>2
  <1>7. /\ PairsIn(t) \in Int /\ PairsIn(h.arr[i]) \in Int /\ QuadsIn(t) \in Int /\ QuadsIn(h.arr[i]) \in Int
        /\ h.pairs - h.free_pairs \in Int /\ h.quads - h.free_quads \in Int
    <2>1. h.pairs - h.free_pairs \in Int /\ h.quads - h.free_quads \in Int
      BY DEF Table
    <2> QED
      BY <1>6, <2>1, LinkNodesType
  <1>8. f.pairs - f.free_pairs = (h.pairs - h.free_pairs) + PairsIn(t) - PairsIn(h.arr[i]) - p
    BY <1>3, <1>7 DEF Takes
  <1>9. f.quads - f.free_quads = (h.quads - h.free_quads) + QuadsIn(t) - QuadsIn(h.arr[i]) - q
    BY <1>3, <1>7 DEF Takes
  <1> QED
    BY <1>1, <1>2, <1>3, <1>5, <1>8, <1>9 DEF Rebuckets

\* One slot of _hset_shrink.
LEMMA MergeSlotMoves ==
    ASSUME NEW n \in Nat, NEW h \in Table(n), NEW i \in 0 .. n - 1, NEW src \in Seq(Objs)
    PROVE  \E t \in Seq(Objs) :
              /\ Rebuckets(MergeSlot(h, i, src), h, n, i, t, PairsIn(src), QuadsIn(src))
              /\ MergeSlot(h, i, src).size = h.size
              /\ Joins(t, h.arr[i], src)
  <1>1. PICK s : s = h.arr[i]
    OBVIOUS
  <1>2. h.arr \in [0 .. n - 1 -> Seq(Objs)] /\ s \in Seq(Objs)
    BY <1>1 DEF Table
  <1>3. /\ PairsIn(s) \in Int /\ QuadsIn(s) \in Int /\ PairsIn(src) \in Int /\ QuadsIn(src) \in Int
        /\ h.pairs - h.free_pairs \in Int /\ h.quads - h.free_quads \in Int
    <2>1. h.pairs - h.free_pairs \in Int /\ h.quads - h.free_quads \in Int
      BY DEF Table
    <2> QED
      BY <1>2, <2>1, LinkNodesType
  <1>4. CASE src = <<>>
    <2>1. MergeSlot(h, i, src) = h
      BY <1>4 DEF MergeSlot
    <2>2. PairsIn(src) = 0 /\ QuadsIn(src) = 0 /\ ToSet(src) = {} /\ Len(src) = 0
      BY <1>4 DEF PairsIn, QuadsIn, TailLen, ToSet
    <2>3. h.arr = [h.arr EXCEPT ![i] = s]
      BY <1>1, <1>2
    <2>4. Rebuckets(h, h, n, i, s, PairsIn(src), QuadsIn(src))
      BY <1>1, <1>3, <2>2, <2>3 DEF Rebuckets
    <2>5. Joins(s, s, src)
      BY <1>2, <2>2 DEF Joins
    <2> QED
      BY <1>1, <1>2, <2>1, <2>4, <2>5
  <1>5. ASSUME NEW g \in Table(n), NEW t, Joins(t, s, src),
               Takes(g, h, PairsIn(t) - PairsIn(s) - PairsIn(src), QuadsIn(t) - QuadsIn(s) - QuadsIn(src)),
               MergeSlot(h, i, src) = [g EXCEPT !.arr[i] = t]
        PROVE  \E u \in Seq(Objs) :
                  /\ Rebuckets(MergeSlot(h, i, src), h, n, i, u, PairsIn(src), QuadsIn(src))
                  /\ MergeSlot(h, i, src).size = h.size
                  /\ Joins(u, h.arr[i], src)
    <2>1. t \in Seq(Objs)
      BY <1>5 DEF Joins
    <2>2. /\ Rebuckets([g EXCEPT !.arr[i] = t], h, n, i, t, PairsIn(src), QuadsIn(src))
          /\ [g EXCEPT !.arr[i] = t].size = h.size
      <3>1. PICK p \in Int, q \in Int : p = PairsIn(src) /\ q = QuadsIn(src)
        BY <1>3
      <3>2. Takes(g, h, PairsIn(t) - PairsIn(h.arr[i]) - p, QuadsIn(t) - QuadsIn(h.arr[i]) - q)
        BY <1>1, <1>5, <3>1
      <3>3. g \in Table(n)
        BY <1>5
      <3>4. Rebuckets([g EXCEPT !.arr[i] = t], h, n, i, t, p, q) /\ [g EXCEPT !.arr[i] = t].size = h.size
        BY <2>1, <3>2, <3>3, TakesRebuckets
      <3> QED
        BY <3>1, <3>4
    <2> QED
      BY <1>1, <1>5, <2>1, <2>2
  <1>6. CASE src # <<>> /\ s = <<>>
    <2>1. MergeSlot(h, i, src) = [h EXCEPT !.arr[i] = src]
      BY <1>1, <1>6 DEF MergeSlot
    <2>2. PairsIn(s) = 0 /\ QuadsIn(s) = 0 /\ ToSet(s) = {} /\ Len(s) = 0
      BY <1>6 DEF PairsIn, QuadsIn, TailLen, ToSet
    <2>3. Joins(src, s, src)
      BY <2>2 DEF Joins
    <2>4. Takes(h, h, PairsIn(src) - PairsIn(s) - PairsIn(src), QuadsIn(src) - QuadsIn(s) - QuadsIn(src))
      BY <1>3, <2>2 DEF Takes
    <2> QED
      BY <1>5, <2>1, <2>3, <2>4
  <1>7. ASSUME NEW t, Joins(t, s, src)
        PROVE  /\ PairsIn(t) = PairsOf(Len(s) + Len(src)) /\ QuadsIn(t) = QuadsOf(Len(s) + Len(src))
               /\ PairsIn(s) = PairsOf(Len(s)) /\ QuadsIn(s) = QuadsOf(Len(s))
               /\ PairsIn(src) = PairsOf(Len(src)) /\ QuadsIn(src) = QuadsOf(Len(src))
    BY <1>2, <1>7, LinkNodes DEF Joins
  <1>8. CASE src # <<>> /\ s # <<>> /\ Len(src) = 1
    <2>1. MergeSlot(h, i, src) = [MergeObjNodes(h, s) EXCEPT !.arr[i] = s \o src]
      BY <1>1, <1>8 DEF MergeSlot
    <2>2. Joins(s \o src, s, src)
      BY <1>2, ToSetConcat DEF Joins
    <2>3. PairsOf(Len(src)) = 0 /\ QuadsOf(Len(src)) = 0
      BY <1>8 DEF PairsOf, QuadsOf
    <2>4. MergeObjNodes(h, s) \in Table(n)
      BY <1>2, MergeObjTakes
    <2>5. Takes(MergeObjNodes(h, s), h, PairsOf(Len(s) + 1) - PairsOf(Len(s)), QuadsOf(Len(s) + 1) - QuadsOf(Len(s)))
      BY <1>2, MergeObjTakes
    <2>6. PICK t : t = s \o src
      OBVIOUS
    <2>7. /\ PairsIn(t) - PairsIn(s) - PairsIn(src) = PairsOf(Len(s) + 1) - PairsOf(Len(s))
          /\ QuadsIn(t) - QuadsIn(s) - QuadsIn(src) = QuadsOf(Len(s) + 1) - QuadsOf(Len(s))
      <3>1. /\ PairsIn(t) = PairsOf(Len(s) + 1) /\ QuadsIn(t) = QuadsOf(Len(s) + 1)
            /\ PairsIn(s) = PairsOf(Len(s)) /\ QuadsIn(s) = QuadsOf(Len(s)) /\ PairsIn(src) = 0 /\ QuadsIn(src) = 0
        BY <1>7, <1>8, <2>2, <2>3, <2>6
      <3>2. PairsIn(t) \in Int /\ QuadsIn(t) \in Int
        BY <2>2, <2>6, LinkNodesType DEF Joins
      <3> QED
        BY <1>3, <3>1, <3>2
    <2> QED
      BY <1>5, <2>1, <2>2, <2>4, <2>5, <2>6, <2>7
  <1>9. CASE src # <<>> /\ s # <<>> /\ Len(src) = 2
    <2>1. MergeSlot(h, i, src) = [MergePairNodes(h, s) EXCEPT !.arr[i] = MergePair(s, src)]
      BY <1>1, <1>9 DEF MergeSlot
    <2>2. Joins(MergePair(s, src), s, src)
      BY <1>2, MergePairJoins
    <2>3. PairsOf(Len(src)) = 1 /\ QuadsOf(Len(src)) = 0
      BY <1>9 DEF PairsOf, QuadsOf
    <2>4. MergePairNodes(h, s) \in Table(n)
      BY <1>2, MergePairTakes
    <2>5. Takes(MergePairNodes(h, s), h, PairsOf(Len(s) + 2) - PairsOf(Len(s)) - 1, QuadsOf(Len(s) + 2) - QuadsOf(Len(s)))
      BY <1>2, MergePairTakes
    <2>6. PICK t : t = MergePair(s, src)
      OBVIOUS
    <2>7. /\ PairsIn(t) - PairsIn(s) - PairsIn(src) = PairsOf(Len(s) + 2) - PairsOf(Len(s)) - 1
          /\ QuadsIn(t) - QuadsIn(s) - QuadsIn(src) = QuadsOf(Len(s) + 2) - QuadsOf(Len(s))
      <3>1. /\ PairsIn(t) = PairsOf(Len(s) + 2) /\ QuadsIn(t) = QuadsOf(Len(s) + 2)
            /\ PairsIn(s) = PairsOf(Len(s)) /\ QuadsIn(s) = QuadsOf(Len(s)) /\ PairsIn(src) = 1 /\ QuadsIn(src) = 0
        BY <1>7, <1>9, <2>2, <2>3, <2>6
      <3>2. PairsIn(t) \in Int /\ QuadsIn(t) \in Int
        BY <2>2, <2>6, LinkNodesType DEF Joins
      <3> QED
        BY <1>3, <3>1, <3>2
    <2> QED
      BY <1>5, <2>1, <2>2, <2>4, <2>5, <2>6, <2>7
  <1>10. CASE src # <<>> /\ s # <<>> /\ Len(src) # 1 /\ Len(src) # 2
    <2>1. MergeSlot(h, i, src) = [MergeQuadNodes(h, s, src) EXCEPT !.arr[i] = MergeQuad(s, src)]
      BY <1>1, <1>10 DEF MergeSlot
    <2>2. Joins(MergeQuad(s, src), s, src)
      BY <1>2, MergeQuadJoins
    <2>3. MergeQuadNodes(h, s, src) \in Table(n)
      BY <1>2, MergeQuadTakes
    <2>4. Takes(MergeQuadNodes(h, s, src), h,
                PairsOf(Len(s) + Len(src)) - PairsOf(Len(s)) - PairsOf(Len(src)),
                QuadsOf(Len(s) + Len(src)) - QuadsOf(Len(s)) - QuadsOf(Len(src)))
      BY <1>2, MergeQuadTakes
    <2>5. PICK t : t = MergeQuad(s, src)
      OBVIOUS
    <2> QED
      BY <1>5, <1>7, <2>1, <2>2, <2>3, <2>4, <2>5
  <1> QED
    BY <1>4, <1>6, <1>8, <1>9, <1>10

\* The chains of the first c buckets are those of a set of c buckets.
Chained(h, c) == \A i \in 0 .. c - 1 : Distinct(h.arr[i]) /\ \A x \in ToSet(h.arr[i]) : Hash[x] % c = i

LEMMA WithinNext ==
    /\ \A h : Within(h, 0) = {}
    /\ \A h : \A c \in Nat : Within(h, c + 1) = Within(h, c) \cup ToSet(h.arr[c])
  <1>1. ASSUME NEW h PROVE Within(h, 0) = {}
    BY DEF Within
  <1>2. ASSUME NEW h, NEW c \in Nat PROVE Within(h, c + 1) = Within(h, c) \cup ToSet(h.arr[c])
    <2>1. 0 .. (c + 1) - 1 = (0 .. c - 1) \cup {c}
      OBVIOUS
    <2> QED
      BY <2>1 DEF Within
  <1> QED
    BY <1>1, <1>2

\* The chain src is of bucket i, and has none of the objects of h.
Joinable(src, h, c, i) ==
    src \in Seq(Objs) /\ Distinct(src) /\ \A x \in ToSet(src) : Hash[x] % c = i /\ x \notin Within(h, c)

\* g is h with the objects in X as well, and p pairs and q quads returned.
Gains(g, h, c, X, p, q) ==
    /\ Chained(g, c) /\ Within(g, c) = Within(h, c) \cup X
    /\ PairSlack(g, c) = PairSlack(h, c) - p /\ QuadSlack(g, c) = QuadSlack(h, c) - q

\* Such a chain joins the one of its bucket.
LEMMA JoinSlot ==
    ASSUME NEW n \in Nat, NEW c \in 1 .. n, NEW h \in Table(n), NEW i \in 0 .. c - 1, Chained(h, c),
           NEW src, Joinable(src, h, c, i), NEW t, Joins(t, h.arr[i], src),
           NEW p \in Int, NEW q \in Int, NEW g, Rebuckets(g, h, n, i, t, p, q)
    PROVE  Gains(g, h, c, ToSet(src), p, q)
  <1>0. src \in Seq(Objs) /\ Distinct(src) /\ \A x \in ToSet(src) : Hash[x] % c = i /\ x \notin Within(h, c)
    BY DEF Joinable
  <1>1. /\ h.arr \in [0 .. n - 1 -> Seq(Objs)] /\ h.arr[i] \in Seq(Objs) /\ i \in 0 .. n - 1
        /\ t \in Seq(Objs) /\ ToSet(t) = ToSet(h.arr[i]) \cup ToSet(src)
    BY DEF Table, Joins
  <1>2. g.arr[i] = t /\ \A j \in 0 .. n - 1 : j # i => g.arr[j] = h.arr[j]
    BY <1>1 DEF Rebuckets
  <1>3. ToSet(h.arr[i]) \subseteq Within(h, c)
    BY DEF Within
  <1>4. Distinct(t)
    <2>1. ToSet(h.arr[i]) \cap ToSet(src) = {}
      BY <1>0, <1>3
    <2>2. Distinct(h.arr[i])
      BY DEF Chained
    <2> QED
      BY <1>0, <1>1, <2>1, <2>2, JoinDistinct
  <1>5. Chained(g, c)
    <2>1. ASSUME NEW j \in 0 .. c - 1
          PROVE  Distinct(g.arr[j]) /\ \A x \in ToSet(g.arr[j]) : Hash[x] % c = j
      <3>1. CASE j = i
        BY <1>0, <1>1, <1>2, <1>4, <3>1 DEF Chained
      <3>2. CASE j # i
        <4>1. j \in 0 .. n - 1
          OBVIOUS
        <4> QED
          BY <1>2, <3>2, <4>1 DEF Chained
      <3> QED
        BY <3>1, <3>2
    <2> QED
      BY <2>1 DEF Chained
  <1>6. Within(g, c) = Within(h, c) \cup ToSet(src)
    <2>1. \A j \in 0 .. c - 1 : j \in 0 .. n - 1
      OBVIOUS
    <2>2. ASSUME NEW x \in Within(g, c) PROVE x \in Within(h, c) \cup ToSet(src)
      <3>1. PICK j \in 0 .. c - 1 : x \in ToSet(g.arr[j])
        BY <2>2 DEF Within
      <3>2. CASE j = i
        BY <1>1, <1>2, <1>3, <3>1, <3>2
      <3>3. CASE j # i
        BY <1>2, <2>1, <3>1, <3>3 DEF Within
      <3> QED
        BY <3>2, <3>3
    <2>3. ASSUME NEW x \in Within(h, c) PROVE x \in Within(g, c)
      <3>1. PICK j \in 0 .. c - 1 : x \in ToSet(h.arr[j])
        BY <2>3 DEF Within
      <3>2. x \in ToSet(g.arr[j])
        BY <1>1, <1>2, <2>1, <3>1
      <3> QED
        BY <3>2 DEF Within
    <2>4. ToSet(src) \subseteq Within(g, c)
      BY <1>1, <1>2 DEF Within
    <2> QED
      BY <2>2, <2>3, <2>4
  <1>7. PairSlack(g, c) = PairSlack(h, c) - p /\ QuadSlack(g, c) = QuadSlack(h, c) - q
    <2>1. c \in 0 .. n /\ c > i
      OBVIOUS
    <2> QED
      BY <1>1, <2>1, RebucketsSlack
  <1> QED
    BY <1>5, <1>6, <1>7 DEF Gains

LEMMA SlackType ==
    ASSUME NEW n \in Nat, NEW h \in Table(n), NEW c \in 0 .. n
    PROVE  PairSlack(h, c) \in Int /\ QuadSlack(h, c) \in Int
  <1>1. PairSums(h)[c] \in Int /\ QuadSums(h)[c] \in Int
    BY SumsType
  <1>2. h.pairs - h.free_pairs \in Int /\ h.quads - h.free_quads \in Int
    BY DEF Table
  <1> QED
    BY <1>1, <1>2 DEF PairSlack, QuadSlack

LEMMA GainsMore ==
    ASSUME NEW n \in Nat, NEW h \in Table(n), NEW c \in 0 .. n, NEW g, NEW f, NEW X, NEW Y,
           NEW p \in Int, NEW q \in Int, NEW r \in Int, NEW s \in Int,
           Gains(g, h, c, X, p, q), Gains(f, g, c, Y, r, s)
    PROVE  Gains(f, h, c, X \cup Y, p + r, q + s)
  <1>1. PairSlack(h, c) \in Int /\ QuadSlack(h, c) \in Int
    BY SlackType
  <1>2. Chained(f, c) /\ Within(f, c) = Within(h, c) \cup (X \cup Y)
    BY DEF Gains
  <1>3. PairSlack(f, c) = PairSlack(h, c) - (p + r)
    BY <1>1 DEF Gains
  <1>4. QuadSlack(f, c) = QuadSlack(h, c) - (q + s)
    BY <1>1 DEF Gains
  <1> QED
    BY <1>2, <1>3, <1>4 DEF Gains

LEMMA TakesGains ==
    ASSUME NEW n \in Nat, NEW h \in Table(n), NEW g \in Table(n), NEW c \in 0 .. n, Chained(h, c),
           NEW p \in Int, NEW q \in Int, Takes(g, h, p, q)
    PROVE  Gains(g, h, c, {}, -p, -q)
  <1>1. PairSlack(h, c) \in Int /\ QuadSlack(h, c) \in Int
    BY SlackType
  <1>2. PairSlack(g, c) = PairSlack(h, c) + p /\ QuadSlack(g, c) = QuadSlack(h, c) + q
    BY TakesSlack
  <1>3. Chained(g, c)
    BY DEF Chained, Takes
  <1>4. Within(g, c) = Within(h, c)
    BY DEF Within, Takes
  <1>5. PairSlack(g, c) = PairSlack(h, c) - (-p) /\ QuadSlack(g, c) = QuadSlack(h, c) - (-q)
    BY <1>1, <1>2
  <1> QED
    BY <1>3, <1>4, <1>5 DEF Gains

LEMMA MaskValue ==
    ASSUME NEW n \in Nat, NEW h \in Table(n)
    PROVE  Mask(h) = n - 1 /\ DOMAIN h.arr = 0 .. n - 1
  <1>1. DOMAIN h.arr = 0 .. n - 1
    BY DEF Table
  <1>2. Cardinality(0 .. n - 1) = n
    BY FS_Interval
  <1> QED
    BY <1>1, <1>2 DEF Mask

LEMMA Single ==
    ASSUME NEW o \in Objs
    PROVE  <<o>> \in Seq(Objs) /\ ToSet(<<o>>) = {o} /\ Distinct(<<o>>) /\ PairsIn(<<o>>) = 0 /\ QuadsIn(<<o>>) = 0
  <1>1. PICK src : src = <<o>>
    OBVIOUS
  <1>2. src \in Seq(Objs) /\ Len(src) = 1 /\ src[1] = o /\ DOMAIN src = {1}
    BY <1>1
  <1>3. ToSet(src) = {o} /\ Distinct(src)
    BY <1>2 DEF ToSet, Distinct
  <1>4. PairsIn(src) = 0 /\ QuadsIn(src) = 0
    BY <1>2 DEF PairsIn, QuadsIn, TailLen
  <1> QED
    BY <1>1, <1>2, <1>3, <1>4

LEMMA SlotValue ==
    ASSUME NEW c \in Nat, c > 0, NEW h \in Table(c), NEW o \in Objs
    PROVE  /\ Slot(h, o) = Hash[o] % c /\ Slot(h, o) \in 0 .. c - 1
           /\ Bucket(h, o) = h.arr[Slot(h, o)] /\ Bucket(h, o) \in Seq(Objs)
  <1>1. Hash[o] \in Nat
    BY HsetAssumption
  <1>2. Slot(h, o) = Hash[o] % c
    BY MaskValue DEF Slot
  <1>3. Slot(h, o) \in 0 .. c - 1
    BY <1>1, <1>2
  <1>4. h.arr \in [0 .. c - 1 -> Seq(Objs)]
    BY DEF Table
  <1> QED
    BY <1>2, <1>3, <1>4 DEF Bucket

\* The object o goes last in its chain, for which m has the nodes.
Appended(m, h, o) == [m EXCEPT !.arr[Slot(h, o)] = Append(@, o)]
TakesOne(m, h, o) ==
    Takes(m, h, PairsOf(Len(Bucket(h, o)) + 1) - PairsOf(Len(Bucket(h, o))),
                QuadsOf(Len(Bucket(h, o)) + 1) - QuadsOf(Len(Bucket(h, o))))

LEMMA AppendJoins ==
    ASSUME NEW c \in Nat, c > 0, NEW h \in Table(c), NEW o \in Objs, NEW m \in Table(c), TakesOne(m, h, o)
    PROVE  \E t : /\ Rebuckets(Appended(m, h, o), h, c, Slot(h, o), t, 0, 0)
                 /\ Joins(t, h.arr[Slot(h, o)], <<o>>) /\ Appended(m, h, o).size = h.size
  <1>1. PICK i, s : i = Slot(h, o) /\ s = Bucket(h, o)
    OBVIOUS
  <1>2. i \in 0 .. c - 1 /\ s = h.arr[i] /\ s \in Seq(Objs)
    BY <1>1, SlotValue
  <1>3. PICK t, src, z : t = Append(s, o) /\ src = <<o>> /\ z = 0
    OBVIOUS
  <1>4. src \in Seq(Objs) /\ Len(src) = 1 /\ t = s \o src /\ z \in Int
    <2>1. Append(s, o) = s \o <<o>>
      BY <1>2, AppendIsConcat
    <2>2. <<o>> \in Seq(Objs) /\ Len(<<o>>) = 1
      OBVIOUS
    <2>3. z \in Int
      BY <1>3
    <2> QED
      BY <1>3, <2>1, <2>2, <2>3
  <1>5. Joins(t, s, src) /\ t \in Seq(Objs) /\ Len(t) = Len(s) + 1
    BY <1>2, <1>4, ToSetConcat DEF Joins
  <1>6. Takes(m, h, PairsIn(t) - PairsIn(s) - z, QuadsIn(t) - QuadsIn(s) - z)
    <2>1. Takes(m, h, PairsOf(Len(s) + 1) - PairsOf(Len(s)), QuadsOf(Len(s) + 1) - QuadsOf(Len(s)))
      BY <1>1 DEF TakesOne
    <2>2. /\ PairsIn(t) = PairsOf(Len(s) + 1) /\ QuadsIn(t) = QuadsOf(Len(s) + 1)
          /\ PairsIn(s) = PairsOf(Len(s)) /\ QuadsIn(s) = QuadsOf(Len(s))
      BY <1>2, <1>5, LinkNodes
    <2>3. PairsIn(t) \in Int /\ QuadsIn(t) \in Int /\ PairsIn(s) \in Int /\ QuadsIn(s) \in Int
      BY <1>2, <1>5, LinkNodesType
    <2>4. PairsIn(t) - PairsIn(s) - z = PairsOf(Len(s) + 1) - PairsOf(Len(s))
      BY <1>3, <2>2, <2>3
    <2>5. QuadsIn(t) - QuadsIn(s) - z = QuadsOf(Len(s) + 1) - QuadsOf(Len(s))
      BY <1>3, <2>2, <2>3
    <2> QED
      BY <2>1, <2>4, <2>5
  <1>7. Appended(m, h, o) = [m EXCEPT !.arr[i] = t]
    <2>1. m.arr[i] = s
      BY <1>2, <1>6 DEF Takes
    <2> QED
      BY <1>1, <1>3, <2>1 DEF Appended
  <1>8. Takes(m, h, PairsIn(t) - PairsIn(h.arr[i]) - z, QuadsIn(t) - QuadsIn(h.arr[i]) - z)
    BY <1>2, <1>6
  <1>9. Rebuckets([m EXCEPT !.arr[i] = t], h, c, i, t, z, z) /\ [m EXCEPT !.arr[i] = t].size = h.size
    <2>1. m \in Table(c) /\ t \in Seq(Objs) /\ i \in 0 .. c - 1
      BY <1>2, <1>5
    <2>2. z \in Int
      BY <1>4
    <2>3. Rebuckets([m EXCEPT !.arr[i] = t], h, c, i, t, z, z)
      BY <1>8, <2>1, <2>2, TakesRebuckets
    <2>4. [m EXCEPT !.arr[i] = t].size = h.size
      BY <1>8 DEF Takes, Table
    <2> QED
      BY <2>3, <2>4
  <1> QED
    BY <1>1, <1>2, <1>3, <1>5, <1>7, <1>9

LEMMA AppendType ==
    ASSUME NEW c \in Nat, c > 0, NEW h \in Table(c), NEW o \in Objs, NEW m \in Table(c), TakesOne(m, h, o)
    PROVE  Appended(m, h, o) \in Table(c) /\ Appended(m, h, o).size = h.size
  <1>1. PICK t : Rebuckets(Appended(m, h, o), h, c, Slot(h, o), t, 0, 0) /\ Appended(m, h, o).size = h.size
    BY AppendJoins
  <1> QED
    BY <1>1 DEF Rebuckets

LEMMA AppendGains ==
    ASSUME NEW c \in Nat, c > 0, NEW h \in Table(c), NEW o \in Objs, NEW m \in Table(c), TakesOne(m, h, o),
           Chained(h, c), o \notin Within(h, c)
    PROVE  Gains(Appended(m, h, o), h, c, {o}, 0, 0)
  <1>1. PICK i, src, z, g : i = Slot(h, o) /\ src = <<o>> /\ z = 0 /\ g = Appended(m, h, o)
    OBVIOUS
  <1>2. PICK t : Rebuckets(g, h, c, i, t, z, z) /\ Joins(t, h.arr[i], src)
    <2>1. PICK t : Rebuckets(Appended(m, h, o), h, c, Slot(h, o), t, 0, 0) /\ Joins(t, h.arr[Slot(h, o)], <<o>>)
      BY AppendJoins
    <2> QED
      BY <1>1, <2>1
  <1>3. i \in 0 .. c - 1 /\ i = Hash[o] % c
    BY <1>1, SlotValue
  <1>4. ToSet(src) = {o} /\ Joinable(src, h, c, i)
    <2>1. src \in Seq(Objs) /\ ToSet(src) = {o} /\ Distinct(src)
      BY <1>1, Single
    <2> QED
      BY <1>3, <2>1 DEF Joinable
  <1>5. z \in Int /\ c \in 1 .. c
    BY <1>1
  <1>6. Gains(g, h, c, ToSet(src), z, z)
    BY <1>2, <1>3, <1>4, <1>5, JoinSlot
  <1> QED
    BY <1>1, <1>4, <1>6

\* _hset_reinsert
LEMMA ReinsertAppends ==
    ASSUME NEW c \in Nat, c > 0, NEW h \in Table(c), NEW o \in Objs
    PROVE  \E m \in Table(c) : TakesOne(m, h, o) /\ Reinsert(h, o) = Appended(m, h, o)
  <1>1. PICK s, m : s = Bucket(h, o) /\ m = MergeObjNodes(h, s)
    OBVIOUS
  <1>2. s \in Seq(Objs)
    BY <1>1, SlotValue
  <1>3. m \in Table(c) /\ TakesOne(m, h, o)
    BY <1>1, <1>2, MergeObjTakes DEF TakesOne
  <1>4. Reinsert(h, o) = Appended(m, h, o)
    BY <1>1 DEF Reinsert, Appended
  <1> QED
    BY <1>3, <1>4

LEMMA ReinsertMoves ==
    ASSUME NEW c \in Nat, c > 0, NEW h \in Table(c), NEW o \in Objs, Chained(h, c), o \notin Within(h, c)
    PROVE  Gains(Reinsert(h, o), h, c, {o}, 0, 0)
  <1>1. PICK m \in Table(c) : TakesOne(m, h, o) /\ Reinsert(h, o) = Appended(m, h, o)
    BY ReinsertAppends
  <1> QED
    BY <1>1, AppendGains

LEMMA ReinsertType ==
    ASSUME NEW c \in Nat, c > 0, NEW h \in Table(c), NEW o \in Objs
    PROVE  Reinsert(h, o) \in Table(c) /\ Reinsert(h, o).size = h.size
  <1>1. PICK m \in Table(c) : TakesOne(m, h, o) /\ Reinsert(h, o) = Appended(m, h, o)
    BY ReinsertAppends
  <1> QED
    BY <1>1, AppendType

-----------------------------------------------------------------------------
(* Growing.                                                                *)

\* The step of _hset_grow for the object at k in chain s.
Moved(f, s, k) ==
    CASE k % 3 = 0               -> StashQuad(Reinsert(f, s[k]))
      [] k % 3 = 2 /\ k = Len(s) -> StashPair(Reinsert(f, s[k]))
      [] OTHER                   -> Reinsert(f, s[k])

LEMMA MovedType ==
    ASSUME NEW c \in Nat, c > 0, NEW f \in Table(c), NEW s \in Seq(Objs), NEW k \in 1 .. Len(s)
    PROVE  Moved(f, s, k) \in Table(c) /\ Moved(f, s, k).size = f.size
  <1>1. s[k] \in Objs
    OBVIOUS
  <1>2. PICK g : g = Reinsert(f, s[k])
    OBVIOUS
  <1>3. g \in Table(c) /\ g.size = f.size
    BY <1>1, <1>2, ReinsertType
  <1>4. StashQuad(g) \in Table(c) /\ StashQuad(g).size = g.size
    BY <1>3, NodesTaken DEF Takes
  <1>5. StashPair(g) \in Table(c) /\ StashPair(g).size = g.size
    BY <1>3, NodesTaken DEF Takes
  <1>6. Moved(f, s, k) \in {g, StashQuad(g), StashPair(g)}
    BY <1>2 DEF Moved
  <1> QED
    BY <1>3, <1>4, <1>5, <1>6

LEMMA ReinsertedValue ==
    ASSUME NEW c \in Nat, c > 0, NEW h \in Table(c), NEW s \in Seq(Objs)
    PROVE  /\ Reinserted(h, s)[0] = h
           /\ \A k \in 0 .. Len(s) : Reinserted(h, s)[k] \in Table(c) /\ Reinserted(h, s)[k].size = h.size
           /\ \A k \in 1 .. Len(s) : Reinserted(h, s)[k] = Moved(Reinserted(h, s)[k - 1], s, k)
  <1>1. PICK N \in Nat : N = Len(s)
    OBVIOUS
  <1>2. PICK G : G = [k \in 1 .. N |-> [x \in Table(c) |-> Moved(x, s, k)]]
    OBVIOUS
  <1>3. Steps(Table(c), h, N, G)
    <2>1. ASSUME NEW k \in 1 .. N, NEW x \in Table(c) PROVE G[k][x] \in Table(c)
      <3>1. G[k][x] = Moved(x, s, k)
        BY <1>2
      <3> QED
        BY <1>1, <3>1, MovedType
    <2> QED
      BY <2>1 DEF Steps
  <1>4. PICK f : Follows(f, Table(c), h, N, G)
    BY <1>3, Recursion
  <1>5. f[0] = h /\ \A k \in 0 .. N : f[k] \in Table(c)
    BY <1>4 DEF Follows
  <1>6. ASSUME NEW k \in 1 .. N PROVE f[k] = Moved(f[k - 1], s, k)
    <2>1. k - 1 \in 0 .. N
      OBVIOUS
    <2>2. f[k - 1] \in Table(c)
      BY <1>5, <2>1
    <2>3. G[k][f[k - 1]] = Moved(f[k - 1], s, k)
      BY <1>2, <2>2
    <2> QED
      BY <1>4, <2>3 DEF Follows
  <1>7. f = [k \in 0 .. N |-> IF k = 0 THEN h ELSE Moved(f[k - 1], s, k)]
    <2>1. f \in [0 .. N -> Table(c)]
      BY <1>4 DEF Follows
    <2>2. \A k \in 0 .. N : f[k] = IF k = 0 THEN h ELSE Moved(f[k - 1], s, k)
      <3>1. \A k \in 0 .. N : k # 0 => k \in 1 .. N
        OBVIOUS
      <3> QED
        BY <1>5, <1>6, <3>1
    <2> QED
      BY <2>1, <2>2
  <1>8. Reinserted(h, s) = CHOOSE r : r = [k \in 0 .. N |-> IF k = 0 THEN h ELSE Moved(r[k - 1], s, k)]
    BY <1>1 DEF Reinserted, Moved
  <1>9. PICK r : r = Reinserted(h, s)
    OBVIOUS
  <1>10. r = [k \in 0 .. N |-> IF k = 0 THEN h ELSE Moved(r[k - 1], s, k)]
    BY <1>7, <1>8, <1>9
  <1>11. r[0] = h /\ \A k \in 1 .. N : r[k] = Moved(r[k - 1], s, k)
    BY <1>10
  <1> DEFINE T == {k \in Nat : k <= N => r[k] \in Table(c) /\ r[k].size = h.size}
  <1>12. Nat \subseteq T
    <2>1. 0 \in T
      BY <1>11
    <2>2. ASSUME NEW k \in Nat, k \in T PROVE k + 1 \in T
      <3>1. SUFFICES ASSUME k + 1 <= N PROVE r[k + 1] \in Table(c) /\ r[k + 1].size = h.size
        OBVIOUS
      <3>2. r[k] \in Table(c) /\ r[k].size = h.size
        BY <2>2, <3>1
      <3>3. k + 1 \in 1 .. N /\ (k + 1) - 1 = k
        BY <3>1
      <3>4. r[k + 1] = Moved(r[k], s, k + 1)
        BY <1>11, <3>3
      <3> QED
        BY <1>1, <3>2, <3>3, <3>4, MovedType
    <2> HIDE DEF T
    <2> QED
      BY <2>1, <2>2, Induction
  <1>13. \A k \in 0 .. N : r[k] \in Table(c) /\ r[k].size = h.size
    BY <1>12
  <1> QED
    BY <1>1, <1>9, <1>11, <1>13

LEMMA MovedGains ==
    ASSUME NEW c \in Nat, c > 0, NEW f \in Table(c), Chained(f, c),
           NEW s \in Seq(Objs), NEW k \in 1 .. Len(s), s[k] \notin Within(f, c)
    PROVE  Gains(Moved(f, s, k), f, c, {s[k]}, IF k % 3 = 2 /\ k = Len(s) THEN 1 ELSE 0, IF k % 3 = 0 THEN 1 ELSE 0)
  <1>1. s[k] \in Objs /\ c \in 0 .. c
    OBVIOUS
  <1>2. PICK g : g = Reinsert(f, s[k])
    OBVIOUS
  <1>3. g \in Table(c) /\ Gains(g, f, c, {s[k]}, 0, 0)
    BY <1>1, <1>2, ReinsertType, ReinsertMoves
  <1>4. Chained(g, c)
    BY <1>3 DEF Gains
  <1>5. PICK z \in Int, o \in Int : z = 0 /\ o = 1
    OBVIOUS
  <1>6. Gains(g, f, c, {s[k]}, z, z)
    BY <1>3, <1>5
  <1>7. CASE k % 3 = 0
    <2>1. Moved(f, s, k) = StashQuad(g)
      BY <1>2, <1>7 DEF Moved
    <2>2. PICK e, m : e = StashQuad(g) /\ m = -1
      OBVIOUS
    <2>3. e \in Table(c) /\ Takes(e, g, z, m) /\ m \in Int
      <3>1. e \in Table(c) /\ Takes(e, g, z, m)
        BY <1>3, <1>5, <2>2, NodesTaken
      <3>2. m \in Int
        BY <2>2
      <3> QED
        BY <3>1, <3>2
    <2>4. Gains(e, g, c, {}, -z, -m)
      BY <1>1, <1>3, <1>4, <2>3, TakesGains
    <2>5. Gains(e, g, c, {}, z, o)
      BY <1>5, <2>2, <2>4
    <2>6. Gains(e, f, c, {s[k]} \cup {}, z + z, z + o)
      BY <1>1, <1>6, <2>5, GainsMore
    <2>7. Gains(e, f, c, {s[k]}, 0, 1)
      <3>1. {s[k]} \cup {} = {s[k]} /\ z + z = 0 /\ z + o = 1
        BY <1>5
      <3> QED
        BY <2>6, <3>1
    <2> QED
      BY <1>7, <2>1, <2>2, <2>7
  <1>8. CASE k % 3 = 2 /\ k = Len(s)
    <2>1. Moved(f, s, k) = StashPair(g)
      BY <1>2, <1>8 DEF Moved
    <2>2. PICK e, m : e = StashPair(g) /\ m = -1
      OBVIOUS
    <2>3. e \in Table(c) /\ Takes(e, g, m, z) /\ m \in Int
      <3>1. e \in Table(c) /\ Takes(e, g, m, z)
        BY <1>3, <1>5, <2>2, NodesTaken
      <3>2. m \in Int
        BY <2>2
      <3> QED
        BY <3>1, <3>2
    <2>4. Gains(e, g, c, {}, -m, -z)
      BY <1>1, <1>3, <1>4, <2>3, TakesGains
    <2>5. Gains(e, g, c, {}, o, z)
      BY <1>5, <2>2, <2>4
    <2>6. Gains(e, f, c, {s[k]} \cup {}, z + o, z + z)
      BY <1>1, <1>6, <2>5, GainsMore
    <2>7. Gains(e, f, c, {s[k]}, 1, 0)
      <3>1. {s[k]} \cup {} = {s[k]} /\ z + z = 0 /\ z + o = 1
        BY <1>5
      <3> QED
        BY <2>6, <3>1
    <2> QED
      BY <1>8, <2>1, <2>2, <2>7
  <1>9. CASE k % 3 # 0 /\ ~(k % 3 = 2 /\ k = Len(s))
    <2>1. Moved(f, s, k) = g
      BY <1>2, <1>9 DEF Moved
    <2> QED
      BY <1>3, <1>9, <2>1
  <1> QED
    BY <1>7, <1>8, <1>9

\* One chain of _hset_grow: its objects are in their new buckets, and its
\* nodes are returned.
LEMMA ReinsertedGains ==
    ASSUME NEW c \in Nat, c > 0, NEW h \in Table(c), Chained(h, c),
           NEW s \in Seq(Objs), Distinct(s), ToSet(s) \cap Within(h, c) = {}
    PROVE  Gains(Reinserted(h, s)[Len(s)], h, c, ToSet(s), PairsIn(s), QuadsIn(s))
  <1>1. PICK N \in Nat : N = Len(s)
    OBVIOUS
  <1>2. PICK r : r = Reinserted(h, s)
    OBVIOUS
  <1>3. r[0] = h /\ \A k \in 0 .. N : r[k] \in Table(c)
    BY <1>1, <1>2, ReinsertedValue
  <1>4. \A k \in 1 .. N : r[k] = Moved(r[k - 1], s, k)
    BY <1>1, <1>2, ReinsertedValue
  <1>5. c \in 0 .. c
    OBVIOUS
  <1> DEFINE First(k) == {s[i] : i \in 1 .. k}
             Pairs(k) == IF k = N THEN PairsOf(k) ELSE 0
             Moves(k) == Gains(r[k], h, c, First(k), Pairs(k), QuadsOf(k))
             T == {k \in Nat : k <= N => Moves(k)}
  <1>6. Moves(0)
    <2>1. Pairs(0) = 0 /\ QuadsOf(0) = 0 /\ First(0) = {}
      BY DEF PairsOf, QuadsOf
    <2>2. PairSlack(h, c) \in Int /\ QuadSlack(h, c) \in Int
      BY <1>5, SlackType
    <2>3. Gains(h, h, c, {}, 0, 0)
      BY <2>2 DEF Gains
    <2> QED
      BY <1>3, <2>1, <2>3
  <1>7. ASSUME NEW k \in Nat, k + 1 <= N, Moves(k) PROVE Moves(k + 1)
    <2>1. k \in 0 .. N /\ k + 1 \in 1 .. N /\ (k + 1) - 1 = k /\ k # N
      BY <1>7
    <2>2. PICK f, g : f = r[k] /\ g = r[k + 1]
      OBVIOUS
    <2>3. f \in Table(c) /\ g = Moved(f, s, k + 1)
      BY <1>3, <1>4, <2>1, <2>2
    <2>4. PICK p \in Int, q \in Int : p = 0 /\ q = QuadsOf(k)
      BY DEF QuadsOf
    <2>5. Gains(f, h, c, First(k), p, q)
      BY <1>7, <2>1, <2>2, <2>4
    <2>6. Chained(f, c)
      BY <2>5 DEF Gains
    <2>7. s[k + 1] \notin Within(f, c)
      <3>1. s[k + 1] \notin Within(h, c)
        BY <1>1, <2>1 DEF ToSet
      <3>2. s[k + 1] \notin First(k)
        BY <1>1, <2>1 DEF Distinct
      <3>3. Within(f, c) = Within(h, c) \cup First(k)
        BY <2>5 DEF Gains
      <3> QED
        BY <3>1, <3>2, <3>3
    <2>8. PICK a \in Int, b \in Int : /\ a = IF (k + 1) % 3 = 2 /\ k + 1 = Len(s) THEN 1 ELSE 0
                                    /\ b = IF (k + 1) % 3 = 0 THEN 1 ELSE 0
      OBVIOUS
    <2>9. Gains(g, f, c, {s[k + 1]}, a, b)
      <3>1. k + 1 \in 1 .. Len(s)
        BY <1>1, <2>1
      <3>2. Gains(Moved(f, s, k + 1), f, c, {s[k + 1]},
                  IF (k + 1) % 3 = 2 /\ k + 1 = Len(s) THEN 1 ELSE 0, IF (k + 1) % 3 = 0 THEN 1 ELSE 0)
        BY <2>3, <2>6, <2>7, <3>1, MovedGains
      <3> QED
        BY <2>3, <2>8, <3>2
    <2>10. Gains(g, h, c, First(k) \cup {s[k + 1]}, p + a, q + b)
      <3>1. PICK X : X = First(k)
        OBVIOUS
      <3>2. Gains(g, h, c, X \cup {s[k + 1]}, p + a, q + b)
        BY <1>5, <2>5, <2>9, <3>1, GainsMore
      <3> QED
        BY <3>1, <3>2
    <2>11. First(k) \cup {s[k + 1]} = First(k + 1)
      <3>1. 1 .. k + 1 = (1 .. k) \cup {k + 1}
        OBVIOUS
      <3> QED
        BY <3>1
    <2>12. p + a = Pairs(k + 1)
      BY <1>1, <2>4, <2>8 DEF PairsOf
    <2>13. q + b = QuadsOf(k + 1)
      BY <2>4, <2>8 DEF QuadsOf
    <2> QED
      BY <2>2, <2>10, <2>11, <2>12, <2>13
  <1>8. Moves(N)
    <2> HIDE DEF Moves
    <2>1. 0 \in T
      BY <1>6
    <2>2. \A k \in Nat : k \in T => k + 1 \in T
      BY <1>7
    <2>3. Nat \subseteq T
      BY <2>1, <2>2, Induction
    <2> QED
      BY <2>3
  <1>9. First(N) = ToSet(s)
    BY <1>1 DEF ToSet
  <1>10. Pairs(N) = PairsIn(s) /\ QuadsOf(N) = QuadsIn(s)
    BY <1>1, LinkNodes
  <1> QED
    BY <1>1, <1>2, <1>8, <1>9, <1>10

\* h before any of its chains has been reinserted into cap buckets.
Emptied(h, cap) == [h EXCEPT !.arr = [i \in 0 .. cap - 1 |-> <<>>]]

LEMMA EmptyChain == <<>> \in Seq(Objs) /\ Distinct(<<>>) /\ ToSet(<<>>) = {} /\ PairsIn(<<>>) = 0 /\ QuadsIn(<<>>) = 0
  BY DEF Distinct, ToSet, PairsIn, QuadsIn, TailLen

LEMMA EmptiedValue ==
    ASSUME NEW m \in Nat, NEW h \in Table(m), NEW c \in Nat, c > 0
    PROVE  /\ Emptied(h, c) \in Table(c) /\ Emptied(h, c).size = h.size
           /\ Chained(Emptied(h, c), c) /\ Within(Emptied(h, c), c) = {}
           /\ PairSlack(Emptied(h, c), c) = h.pairs - h.free_pairs
           /\ QuadSlack(Emptied(h, c), c) = h.quads - h.free_quads
  <1>1. PICK e : e = Emptied(h, c)
    OBVIOUS
  <1>2. /\ e.arr = [i \in 0 .. c - 1 |-> <<>>] /\ e.size = h.size /\ e.pairs = h.pairs /\ e.quads = h.quads
        /\ e.free_pairs = h.free_pairs /\ e.free_quads = h.free_quads
    BY <1>1 DEF Emptied, Table
  <1>3. e \in Table(c)
    <2>1. [i \in 0 .. c - 1 |-> <<>>] \in [0 .. c - 1 -> Seq(Objs)]
      OBVIOUS
    <2> QED
      BY <1>1, <2>1 DEF Emptied, Table
  <1>4. \A i \in 0 .. c - 1 : e.arr[i] = <<>>
    BY <1>2
  <1>5. Chained(e, c)
    BY <1>4, EmptyChain DEF Chained
  <1>6. Within(e, c) = {}
    BY <1>4, EmptyChain DEF Within
  <1>7. c \in 0 .. c
    OBVIOUS
  <1>8. PairSums(e)[c] = 0
    <2>1. PICK f : f = [i \in DOMAIN e.arr |-> PairsIn(e.arr[i])]
      OBVIOUS
    <2>2. f \in [0 .. c - 1 -> Int] /\ DOMAIN e.arr = 0 .. c - 1
      BY <1>3, <2>1, SumsType
    <2>3. \A i \in 0 .. c - 1 : f[i] = 0
      BY <1>4, <2>1, <2>2, EmptyChain
    <2>4. Sums(f)[c] = 0
      BY <1>7, <2>2, <2>3, SumsZero
    <2> QED
      BY <2>1, <2>4 DEF PairSums
  <1>9. QuadSums(e)[c] = 0
    <2>1. PICK f : f = [i \in DOMAIN e.arr |-> QuadsIn(e.arr[i])]
      OBVIOUS
    <2>2. f \in [0 .. c - 1 -> Int] /\ DOMAIN e.arr = 0 .. c - 1
      BY <1>3, <2>1, SumsType
    <2>3. \A i \in 0 .. c - 1 : f[i] = 0
      BY <1>4, <2>1, <2>2, EmptyChain
    <2>4. Sums(f)[c] = 0
      BY <1>7, <2>2, <2>3, SumsZero
    <2> QED
      BY <2>1, <2>4 DEF QuadSums
  <1>10. h.pairs - h.free_pairs \in Int /\ h.quads - h.free_quads \in Int
    BY DEF Table
  <1>11. PairSlack(e, c) = h.pairs - h.free_pairs /\ QuadSlack(e, c) = h.quads - h.free_quads
    BY <1>2, <1>8, <1>9, <1>10 DEF PairSlack, QuadSlack
  <1> QED
    BY <1>1, <1>2, <1>3, <1>5, <1>6, <1>11

\* The step of _hset_grow for bucket n - 1.
Regrown(f, h, n) == Reinserted(f, h.arr[n - 1])[Len(h.arr[n - 1])]

LEMMA RegrownType ==
    ASSUME NEW m \in Nat, NEW h \in Table(m), NEW c \in Nat, c > 0, NEW f \in Table(c), NEW n \in 1 .. m
    PROVE  Regrown(f, h, n) \in Table(c) /\ Regrown(f, h, n).size = f.size
  <1>1. PICK s : s = h.arr[n - 1]
    OBVIOUS
  <1>2. s \in Seq(Objs)
    <2>1. n - 1 \in 0 .. m - 1 /\ h.arr \in [0 .. m - 1 -> Seq(Objs)]
      BY DEF Table
    <2> QED
      BY <1>1, <2>1
  <1>3. Len(s) \in 0 .. Len(s)
    BY <1>2
  <1>4. Reinserted(f, s)[Len(s)] \in Table(c) /\ Reinserted(f, s)[Len(s)].size = f.size
    BY <1>2, <1>3, ReinsertedValue
  <1> QED
    BY <1>1, <1>4 DEF Regrown

LEMMA GrownValue ==
    ASSUME NEW m \in Nat, NEW h \in Table(m), NEW c \in Nat, c > 0
    PROVE  /\ Grown(h, c)[0] = Emptied(h, c)
           /\ \A n \in 0 .. m : Grown(h, c)[n] \in Table(c) /\ Grown(h, c)[n].size = h.size
           /\ \A n \in 1 .. m : Grown(h, c)[n] = Regrown(Grown(h, c)[n - 1], h, n)
  <1>1. PICK b : b = Emptied(h, c)
    OBVIOUS
  <1>2. b \in Table(c) /\ b.size = h.size
    BY <1>1, EmptiedValue
  <1>3. PICK G : G = [n \in 1 .. m |-> [x \in Table(c) |-> Regrown(x, h, n)]]
    OBVIOUS
  <1>4. Steps(Table(c), b, m, G)
    <2>1. ASSUME NEW n \in 1 .. m, NEW x \in Table(c) PROVE G[n][x] \in Table(c)
      <3>1. G[n][x] = Regrown(x, h, n)
        BY <1>3
      <3> QED
        BY <3>1, RegrownType
    <2> QED
      BY <1>2, <2>1 DEF Steps
  <1>5. PICK f : Follows(f, Table(c), b, m, G)
    BY <1>4, Recursion
  <1>6. f[0] = b /\ \A n \in 0 .. m : f[n] \in Table(c)
    BY <1>5 DEF Follows
  <1>7. ASSUME NEW n \in 1 .. m PROVE f[n] = Regrown(f[n - 1], h, n)
    <2>1. n - 1 \in 0 .. m
      OBVIOUS
    <2>2. f[n - 1] \in Table(c)
      BY <1>6, <2>1
    <2>3. G[n][f[n - 1]] = Regrown(f[n - 1], h, n)
      BY <1>3, <2>2
    <2> QED
      BY <1>5, <2>3 DEF Follows
  <1>8. f = [n \in 0 .. m |-> IF n = 0 THEN b ELSE Regrown(f[n - 1], h, n)]
    <2>1. f \in [0 .. m -> Table(c)]
      BY <1>5 DEF Follows
    <2>2. \A n \in 0 .. m : f[n] = IF n = 0 THEN b ELSE Regrown(f[n - 1], h, n)
      <3>1. \A n \in 0 .. m : n # 0 => n \in 1 .. m
        OBVIOUS
      <3> QED
        BY <1>6, <1>7, <3>1
    <2> QED
      BY <2>1, <2>2
  <1>9. Grown(h, c) = CHOOSE r : r = [n \in 0 .. m |-> IF n = 0 THEN b ELSE Regrown(r[n - 1], h, n)]
    <2>1. Mask(h) + 1 = m
      BY MaskValue
    <2> QED
      BY <1>1, <2>1 DEF Grown, Regrown, Emptied
  <1>10. PICK r : r = Grown(h, c)
    OBVIOUS
  <1>11. r = [n \in 0 .. m |-> IF n = 0 THEN b ELSE Regrown(r[n - 1], h, n)]
    BY <1>8, <1>9, <1>10
  <1>12. r[0] = b /\ \A n \in 1 .. m : r[n] = Regrown(r[n - 1], h, n)
    BY <1>11
  <1> DEFINE T == {n \in Nat : n <= m => r[n] \in Table(c) /\ r[n].size = h.size}
  <1>13. Nat \subseteq T
    <2>1. 0 \in T
      BY <1>2, <1>12
    <2>2. ASSUME NEW n \in Nat, n \in T PROVE n + 1 \in T
      <3>1. SUFFICES ASSUME n + 1 <= m PROVE r[n + 1] \in Table(c) /\ r[n + 1].size = h.size
        OBVIOUS
      <3>2. r[n] \in Table(c) /\ r[n].size = h.size
        BY <2>2, <3>1
      <3>3. n + 1 \in 1 .. m /\ (n + 1) - 1 = n
        BY <3>1
      <3>4. r[n + 1] = Regrown(r[n], h, n + 1)
        BY <1>12, <3>3
      <3> QED
        BY <3>2, <3>3, <3>4, RegrownType
    <2> HIDE DEF T
    <2> QED
      BY <2>1, <2>2, Induction
  <1>14. \A n \in 0 .. m : r[n] \in Table(c) /\ r[n].size = h.size
    BY <1>13
  <1> QED
    BY <1>1, <1>10, <1>12, <1>14

\* In a set of m buckets, none of the objects of a bucket is in one before.
LEMMA ChainApart ==
    ASSUME NEW m \in Nat, NEW h, Chained(h, m), NEW j \in 0 .. m - 1
    PROVE  ToSet(h.arr[j]) \cap Within(h, j) = {}
  <1>1. SUFFICES ASSUME NEW x, x \in ToSet(h.arr[j]), x \in Within(h, j) PROVE FALSE
    OBVIOUS
  <1>2. PICK i \in 0 .. j - 1 : x \in ToSet(h.arr[i])
    BY <1>1 DEF Within
  <1>3. i \in 0 .. m - 1 /\ i # j
    OBVIOUS
  <1>4. Hash[x] % m = i /\ Hash[x] % m = j
    BY <1>1, <1>2, <1>3 DEF Chained
  <1> QED
    BY <1>3, <1>4

\* The buckets of _hset_grow: after n of them, their objects are in their new
\* places and their nodes have been returned.
LEMMA GrownGains ==
    ASSUME NEW m \in Nat, NEW h \in Table(m), Chained(h, m), NEW c \in Nat, c > 0
    PROVE  \A n \in 0 .. m : Gains(Grown(h, c)[n], Emptied(h, c), c, Within(h, n), PairSums(h)[n], QuadSums(h)[n])
  <1>1. PICK r, b : r = Grown(h, c) /\ b = Emptied(h, c)
    OBVIOUS
  <1>2. r[0] = b /\ \A n \in 0 .. m : r[n] \in Table(c)
    BY <1>1, GrownValue
  <1>3. \A n \in 1 .. m : r[n] = Regrown(r[n - 1], h, n)
    BY <1>1, GrownValue
  <1>4. c \in 0 .. c
    OBVIOUS
  <1>5. b \in Table(c) /\ Chained(b, c) /\ Within(b, c) = {}
    BY <1>1, EmptiedValue
  <1> DEFINE Moves(n) == Gains(r[n], b, c, Within(h, n), PairSums(h)[n], QuadSums(h)[n])
             T == {n \in Nat : n <= m => Moves(n)}
  <1>6. Moves(0)
    <2>1. PairSums(h)[0] = 0 /\ QuadSums(h)[0] = 0 /\ Within(h, 0) = {}
      BY SumsType, WithinNext
    <2>2. PairSlack(b, c) \in Int /\ QuadSlack(b, c) \in Int
      BY <1>4, <1>5, SlackType
    <2>3. Gains(b, b, c, {}, 0, 0)
      BY <1>5, <2>2 DEF Gains
    <2> QED
      BY <1>2, <2>1, <2>3
  <1>7. ASSUME NEW n \in Nat, n + 1 <= m, Moves(n) PROVE Moves(n + 1)
    <2>1. n \in 0 .. m /\ n + 1 \in 1 .. m /\ (n + 1) - 1 = n /\ n \in 0 .. m - 1
      BY <1>7
    <2>2. PICK f, g, s : f = r[n] /\ g = r[n + 1] /\ s = h.arr[n]
      OBVIOUS
    <2>3. f \in Table(c) /\ g = Reinserted(f, s)[Len(s)]
      BY <1>2, <1>3, <2>1, <2>2 DEF Regrown
    <2>4. s \in Seq(Objs) /\ Distinct(s)
      BY <2>1, <2>2 DEF Table, Chained
    <2>5. PICK p, q, X : p = PairSums(h)[n] /\ q = QuadSums(h)[n] /\ X = Within(h, n)
      OBVIOUS
    <2>6. p \in Int /\ q \in Int
      BY <2>1, <2>5, SumsType
    <2>7. Gains(f, b, c, X, p, q)
      BY <1>7, <2>2, <2>5
    <2>8. Chained(f, c) /\ Within(f, c) = X
      BY <1>5, <2>7 DEF Gains
    <2>9. ToSet(s) \cap Within(f, c) = {}
      BY <2>1, <2>2, <2>5, <2>8, ChainApart
    <2>10. PICK u \in Int, v \in Int : u = PairsIn(s) /\ v = QuadsIn(s)
      BY <2>4, LinkNodesType
    <2>11. Gains(g, f, c, ToSet(s), u, v)
      BY <2>3, <2>4, <2>8, <2>9, <2>10, ReinsertedGains
    <2>12. Gains(g, b, c, X \cup ToSet(s), p + u, q + v)
      BY <1>4, <1>5, <2>6, <2>7, <2>11, GainsMore
    <2>13. X \cup ToSet(s) = Within(h, n + 1)
      BY <2>2, <2>5, WithinNext
    <2>14. p + u = PairSums(h)[n + 1] /\ q + v = QuadSums(h)[n + 1]
      BY <2>1, <2>2, <2>5, <2>10, SumsType
    <2> QED
      BY <2>2, <2>12, <2>13, <2>14
  <1>8. \A n \in 0 .. m : Moves(n)
    <2> HIDE DEF Moves
    <2>1. 0 \in T
      BY <1>6
    <2>2. \A n \in Nat : n \in T => n + 1 \in T
      BY <1>7
    <2>3. Nat \subseteq T
      BY <2>1, <2>2, Induction
    <2> QED
      BY <2>3
  <1> QED
    BY <1>1, <1>8

\* g, of c buckets, is the set h, of m: the same objects, and no node more or
\* less outside the chains and the free lists.
Resized(g, c, h, m) ==
    /\ g \in Table(c) /\ g.size = h.size /\ Chained(g, c) /\ Within(g, c) = Within(h, m)
    /\ PairSlack(g, c) = PairSlack(h, m) /\ QuadSlack(g, c) = QuadSlack(h, m)

LEMMA PruneResized ==
    ASSUME NEW m \in Nat, NEW h \in Table(m), NEW c \in Nat, NEW g, Resized(g, c, h, m)
    PROVE  Resized(Prune(g), c, h, m)
  <1>1. g \in Table(c) /\ c \in 0 .. c /\ Chained(g, c)
    BY DEF Resized
  <1>2. PICK f, z : f = Prune(g) /\ z = 0
    OBVIOUS
  <1>3. z \in Int /\ f \in Table(c) /\ Takes(f, g, z, z)
    BY <1>1, <1>2, NodesTaken
  <1>4. Gains(f, g, c, {}, -z, -z)
    BY <1>1, <1>3, TakesGains
  <1>5. PairSlack(g, c) \in Int /\ QuadSlack(g, c) \in Int
    BY <1>1, SlackType
  <1>6. /\ Chained(f, c) /\ Within(f, c) = Within(g, c)
        /\ PairSlack(f, c) = PairSlack(g, c) /\ QuadSlack(f, c) = QuadSlack(g, c)
    BY <1>2, <1>4, <1>5 DEF Gains
  <1>7. f.size = g.size
    BY <1>3 DEF Takes
  <1> QED
    BY <1>2, <1>3, <1>6, <1>7 DEF Resized

\* _hset_grow keeps the set and its nodes.
LEMMA GrowResizes ==
    ASSUME NEW m \in Nat, NEW h \in Table(m), Chained(h, m), NEW c \in Nat, c > 0
    PROVE  Resized(Grow(h, c), c, h, m)
  <1>1. m \in 0 .. m
    OBVIOUS
  <1>2. PICK g, b : g = Grown(h, c)[m] /\ b = Emptied(h, c)
    OBVIOUS
  <1>3. g \in Table(c) /\ g.size = h.size
    BY <1>1, <1>2, GrownValue
  <1>4. Gains(g, b, c, Within(h, m), PairSums(h)[m], QuadSums(h)[m])
    BY <1>1, <1>2, GrownGains
  <1>5. /\ Within(b, c) = {} /\ PairSlack(b, c) = h.pairs - h.free_pairs
        /\ QuadSlack(b, c) = h.quads - h.free_quads
    BY <1>2, EmptiedValue
  <1>6. PairSlack(g, c) = PairSlack(h, m) /\ QuadSlack(g, c) = QuadSlack(h, m)
    BY <1>4, <1>5 DEF Gains, PairSlack, QuadSlack
  <1>7. Chained(g, c) /\ Within(g, c) = Within(h, m)
    BY <1>4, <1>5 DEF Gains
  <1>8. Resized(g, c, h, m)
    BY <1>3, <1>6, <1>7 DEF Resized
  <1>9. Grow(h, c) = Prune(g)
    <2>1. Mask(h) + 1 = m
      BY MaskValue
    <2> QED
      BY <1>2, <2>1 DEF Grow
  <1> QED
    BY <1>8, <1>9, PruneResized

-----------------------------------------------------------------------------
(* Shrinking.                                                              *)

\* The step of _hset_shrink for bucket c + n - 1 of h.
Folded(f, h, c, n) == MergeSlot(f, (c + n - 1) % c, h.arr[c + n - 1])

LEMMA FoldedType ==
    ASSUME NEW m \in Nat, NEW h \in Table(m), NEW c \in 1 .. m, NEW f \in Table(m), NEW n \in 1 .. m - c
    PROVE  Folded(f, h, c, n) \in Table(m) /\ Folded(f, h, c, n).size = f.size
  <1>1. PICK i, s : i = (c + n - 1) % c /\ s = h.arr[c + n - 1]
    OBVIOUS
  <1>2. c + n - 1 \in 0 .. m - 1 /\ c \in Nat /\ c > 0
    OBVIOUS
  <1>3. s \in Seq(Objs)
    BY <1>1, <1>2 DEF Table
  <1>4. i \in 0 .. c - 1
    <2>1. PICK y \in Nat : y = c + n - 1
      BY <1>2
    <2> QED
      BY <1>1, <1>2, <2>1, RemainderIs
  <1>5. i \in 0 .. m - 1
    BY <1>2, <1>4
  <1>6. PICK t : Rebuckets(MergeSlot(f, i, s), f, m, i, t, PairsIn(s), QuadsIn(s)) /\ MergeSlot(f, i, s).size = f.size
    BY <1>3, <1>5, MergeSlotMoves
  <1> QED
    BY <1>1, <1>6 DEF Folded, Rebuckets

LEMMA MergedValue ==
    ASSUME NEW m \in Nat, NEW h \in Table(m), NEW c \in 1 .. m
    PROVE  /\ Merged(h, c)[0] = h
           /\ \A n \in 0 .. m - c : Merged(h, c)[n] \in Table(m) /\ Merged(h, c)[n].size = h.size
           /\ \A n \in 1 .. m - c : Merged(h, c)[n] = Folded(Merged(h, c)[n - 1], h, c, n)
  <1>1. PICK N \in Nat : N = m - c
    OBVIOUS
  <1>2. PICK G : G = [n \in 1 .. N |-> [x \in Table(m) |-> Folded(x, h, c, n)]]
    OBVIOUS
  <1>3. Steps(Table(m), h, N, G)
    <2>1. ASSUME NEW n \in 1 .. N, NEW x \in Table(m) PROVE G[n][x] \in Table(m)
      <3>1. G[n][x] = Folded(x, h, c, n)
        BY <1>2
      <3> QED
        BY <1>1, <3>1, FoldedType
    <2> QED
      BY <2>1 DEF Steps
  <1>4. PICK f : Follows(f, Table(m), h, N, G)
    BY <1>3, Recursion
  <1>5. f[0] = h /\ \A n \in 0 .. N : f[n] \in Table(m)
    BY <1>4 DEF Follows
  <1>6. ASSUME NEW n \in 1 .. N PROVE f[n] = Folded(f[n - 1], h, c, n)
    <2>1. n - 1 \in 0 .. N
      OBVIOUS
    <2>2. f[n - 1] \in Table(m)
      BY <1>5, <2>1
    <2>3. G[n][f[n - 1]] = Folded(f[n - 1], h, c, n)
      BY <1>2, <2>2
    <2> QED
      BY <1>4, <2>3 DEF Follows
  <1>7. f = [n \in 0 .. N |-> IF n = 0 THEN h ELSE Folded(f[n - 1], h, c, n)]
    <2>1. f \in [0 .. N -> Table(m)]
      BY <1>4 DEF Follows
    <2>2. \A n \in 0 .. N : f[n] = IF n = 0 THEN h ELSE Folded(f[n - 1], h, c, n)
      <3>1. \A n \in 0 .. N : n # 0 => n \in 1 .. N
        OBVIOUS
      <3> QED
        BY <1>5, <1>6, <3>1
    <2> QED
      BY <2>1, <2>2
  <1>8. Merged(h, c) = CHOOSE r : r = [n \in 0 .. N |-> IF n = 0 THEN h ELSE Folded(r[n - 1], h, c, n)]
    <2>1. Mask(h) + 1 - c = N
      BY <1>1, MaskValue
    <2> QED
      BY <2>1 DEF Merged, Folded
  <1>9. PICK r : r = Merged(h, c)
    OBVIOUS
  <1>10. r = [n \in 0 .. N |-> IF n = 0 THEN h ELSE Folded(r[n - 1], h, c, n)]
    BY <1>7, <1>8, <1>9
  <1>11. r[0] = h /\ \A n \in 1 .. N : r[n] = Folded(r[n - 1], h, c, n)
    BY <1>10
  <1> DEFINE T == {n \in Nat : n <= N => r[n] \in Table(m) /\ r[n].size = h.size}
  <1>12. Nat \subseteq T
    <2>1. 0 \in T
      BY <1>11
    <2>2. ASSUME NEW n \in Nat, n \in T PROVE n + 1 \in T
      <3>1. SUFFICES ASSUME n + 1 <= N PROVE r[n + 1] \in Table(m) /\ r[n + 1].size = h.size
        OBVIOUS
      <3>2. r[n] \in Table(m) /\ r[n].size = h.size
        BY <2>2, <3>1
      <3>3. n + 1 \in 1 .. N /\ (n + 1) - 1 = n
        BY <3>1
      <3>4. r[n + 1] = Folded(r[n], h, c, n + 1)
        BY <1>11, <3>3
      <3> QED
        <4>1. n + 1 \in 1 .. m - c
          BY <1>1, <3>3
        <4>2. Folded(r[n], h, c, n + 1) \in Table(m) /\ Folded(r[n], h, c, n + 1).size = r[n].size
          BY <3>2, <4>1, FoldedType
        <4> QED
          BY <3>2, <3>4, <4>2
    <2> HIDE DEF T
    <2> QED
      BY <2>1, <2>2, Induction
  <1>13. \A n \in 0 .. N : r[n] \in Table(m) /\ r[n].size = h.size
    BY <1>12
  <1> QED
    BY <1>1, <1>9, <1>11, <1>13

\* A chain of a set of c * q buckets is one of a set of c, at its number
\* modulo c.
LEMMA ChainedModulo ==
    ASSUME NEW m \in Nat, NEW h \in Table(m), Chained(h, m), NEW c \in Nat, c > 0,
           NEW q \in Nat, q > 0, m = c * q, NEW j \in 0 .. m - 1
    PROVE  \A x \in ToSet(h.arr[j]) : Hash[x] % c = j % c
  <1>1. SUFFICES ASSUME NEW x \in ToSet(h.arr[j]) PROVE Hash[x] % c = j % c
    OBVIOUS
  <1>2. Hash[x] % m = j
    BY DEF Chained
  <1>3. x \in Objs
    <2>1. h.arr[j] \in Seq(Objs)
      BY DEF Table
    <2> QED
      BY <2>1, ToSetFinite
  <1>4. PICK y \in Nat : y = Hash[x]
    BY <1>3, HsetAssumption
  <1>5. (y % (c * q)) % c = y % c
    BY RemainderTwice
  <1> QED
    BY <1>2, <1>4, <1>5

\* The buckets of _hset_shrink: after n of them, the first c have the objects
\* of the first c + n.
LEMMA MergedGains ==
    ASSUME NEW m \in Nat, NEW h \in Table(m), Chained(h, m), NEW c \in 1 .. m,
           NEW e \in Nat, e > 0, m = c * e
    PROVE  \A n \in 0 .. m - c :
              /\ Chained(Merged(h, c)[n], c) /\ Within(Merged(h, c)[n], c) = Within(h, c + n)
              /\ PairSlack(Merged(h, c)[n], c) = PairSlack(h, c + n)
              /\ QuadSlack(Merged(h, c)[n], c) = QuadSlack(h, c + n)
  <1>1. PICK r : r = Merged(h, c)
    OBVIOUS
  <1>2. r[0] = h /\ \A n \in 0 .. m - c : r[n] \in Table(m)
    BY <1>1, MergedValue
  <1>3. \A n \in 1 .. m - c : r[n] = Folded(r[n - 1], h, c, n)
    BY <1>1, MergedValue
  <1>4. c \in 0 .. m /\ c \in Nat /\ c > 0
    OBVIOUS
  <1> DEFINE Moves(n) == /\ Chained(r[n], c) /\ Within(r[n], c) = Within(h, c + n)
                         /\ PairSlack(r[n], c) = PairSlack(h, c + n)
                         /\ QuadSlack(r[n], c) = QuadSlack(h, c + n)
             T == {n \in Nat : n <= m - c => Moves(n)}
  <1>5. Moves(0)
    <2>1. ASSUME NEW i \in 0 .. c - 1
          PROVE  Distinct(h.arr[i]) /\ \A x \in ToSet(h.arr[i]) : Hash[x] % c = i
      <3>1. i \in 0 .. m - 1 /\ i % c = i
        BY <1>4
      <3>2. \A x \in ToSet(h.arr[i]) : Hash[x] % c = i
        BY <1>4, <3>1, ChainedModulo
      <3> QED
        BY <3>1, <3>2 DEF Chained
    <2>2. Chained(h, c)
      BY <2>1 DEF Chained
    <2>3. c + 0 = c
      BY <1>4
    <2> QED
      BY <1>2, <2>2, <2>3
  <1>6. ASSUME NEW n \in Nat, n + 1 <= m - c, Moves(n) PROVE Moves(n + 1)
    <2>1. /\ n \in 0 .. m - c /\ n + 1 \in 1 .. m - c /\ (n + 1) - 1 = n /\ c + (n + 1) - 1 = c + n
          /\ c + n \in 0 .. m - 1 /\ c + n \in Nat /\ c + (n + 1) = (c + n) + 1
          /\ c + (n + 1) \in 1 .. m /\ (c + (n + 1)) - 1 = c + n
      BY <1>4, <1>6
    <2>2. PICK f, g, s, j, i : f = r[n] /\ g = r[n + 1] /\ j = c + n /\ s = h.arr[j] /\ i = j % c
      OBVIOUS
    <2>3. f \in Table(m) /\ g = MergeSlot(f, i, s)
      BY <1>2, <1>3, <2>1, <2>2 DEF Folded
    <2>4. s \in Seq(Objs) /\ Distinct(s)
      BY <2>1, <2>2 DEF Table, Chained
    <2>5. i \in 0 .. c - 1 /\ i \in 0 .. m - 1
      <3>1. i \in 0 .. c - 1
        BY <1>4, <2>1, <2>2, RemainderIs
      <3> QED
        BY <1>4, <3>1
    <2>6. Chained(f, c) /\ Within(f, c) = Within(h, j)
      BY <1>6, <2>2
    <2>7. Joinable(s, f, c, i)
      <3>1. \A x \in ToSet(s) : Hash[x] % c = i
        BY <1>4, <2>1, <2>2, ChainedModulo
      <3>2. ToSet(s) \cap Within(f, c) = {}
        BY <2>1, <2>2, <2>6, ChainApart
      <3> QED
        BY <2>4, <3>1, <3>2 DEF Joinable
    <2>8. PICK p \in Int, q \in Int : p = PairsIn(s) /\ q = QuadsIn(s)
      BY <2>4, LinkNodesType
    <2>9. PICK t : Rebuckets(g, f, m, i, t, p, q) /\ Joins(t, f.arr[i], s)
      <3>1. PICK t \in Seq(Objs) : /\ Rebuckets(MergeSlot(f, i, s), f, m, i, t, PairsIn(s), QuadsIn(s))
                                   /\ Joins(t, f.arr[i], s)
        BY <2>3, <2>4, <2>5, MergeSlotMoves
      <3> QED
        BY <2>3, <2>8, <3>1
    <2>10. Gains(g, f, c, ToSet(s), p, q)
      BY <2>3, <2>5, <2>6, <2>7, <2>9, JoinSlot
    <2>11. Chained(g, c) /\ Within(g, c) = Within(h, j + 1)
      <3>1. Within(h, j + 1) = Within(h, j) \cup ToSet(s)
        BY <2>1, <2>2, WithinNext
      <3> QED
        BY <2>6, <2>10, <3>1 DEF Gains
    <2>12. PairSlack(g, c) = PairSlack(h, j + 1) /\ QuadSlack(g, c) = QuadSlack(h, j + 1)
      <3>1. PairSums(h)[j + 1] = PairSums(h)[j] + p /\ QuadSums(h)[j + 1] = QuadSums(h)[j] + q
        BY <2>1, <2>2, <2>8, SumsType
      <3>2. /\ PairSums(h)[j] \in Int /\ QuadSums(h)[j] \in Int
            /\ h.pairs - h.free_pairs \in Int /\ h.quads - h.free_quads \in Int
        <4>1. j \in 0 .. m
          BY <2>1, <2>2
        <4>2. h.pairs - h.free_pairs \in Int /\ h.quads - h.free_quads \in Int
          BY DEF Table
        <4> QED
          BY <4>1, <4>2, SumsType
      <3>3. PairSlack(h, j + 1) = PairSlack(h, j) - p /\ QuadSlack(h, j + 1) = QuadSlack(h, j) - q
        BY <3>1, <3>2 DEF PairSlack, QuadSlack
      <3>4. PairSlack(f, c) = PairSlack(h, j) /\ QuadSlack(f, c) = QuadSlack(h, j)
        BY <1>6, <2>2
      <3> QED
        BY <2>10, <3>3, <3>4 DEF Gains
    <2>13. j + 1 = c + (n + 1)
      BY <2>1, <2>2
    <2> QED
      BY <2>2, <2>11, <2>12, <2>13
  <1>7. \A n \in 0 .. m - c : Moves(n)
    <2> HIDE DEF Moves
    <2>1. 0 \in T
      BY <1>5
    <2>2. \A n \in Nat : n \in T => n + 1 \in T
      BY <1>6
    <2>3. Nat \subseteq T
      BY <2>1, <2>2, Induction
    <2> QED
      BY <2>3
  <1> QED
    BY <1>1, <1>7

\* _hset_shrink keeps the set and its nodes.
LEMMA ShrinkResizes ==
    ASSUME NEW m \in Nat, NEW h \in Table(m), Chained(h, m), NEW c \in 1 .. m,
           NEW e \in Nat, e > 0, m = c * e
    PROVE  Resized(Shrink(h, c), c, h, m)
  <1>1. PICK N : N = m - c
    OBVIOUS
  <1>2. N \in 0 .. m - c /\ c + N = m /\ c \in Nat /\ c \in 0 .. c /\ c \in 0 .. m
    BY <1>1
  <1>3. PICK g : g = Merged(h, c)[N]
    OBVIOUS
  <1>4. g \in Table(m) /\ g.size = h.size
    BY <1>2, <1>3, MergedValue
  <1>5. /\ Chained(g, c) /\ Within(g, c) = Within(h, m)
        /\ PairSlack(g, c) = PairSlack(h, m) /\ QuadSlack(g, c) = QuadSlack(h, m)
    <2>1. /\ Chained(g, c) /\ Within(g, c) = Within(h, c + N)
          /\ PairSlack(g, c) = PairSlack(h, c + N) /\ QuadSlack(g, c) = QuadSlack(h, c + N)
      BY <1>2, <1>3, MergedGains
    <2> QED
      BY <1>2, <2>1
  <1>6. PICK f : f = [g EXCEPT !.arr = [i \in 0 .. c - 1 |-> g.arr[i]]]
    OBVIOUS
  <1>7. /\ f.arr = [i \in 0 .. c - 1 |-> g.arr[i]] /\ f.size = g.size /\ f.pairs = g.pairs /\ f.quads = g.quads
        /\ f.free_pairs = g.free_pairs /\ f.free_quads = g.free_quads
    BY <1>4, <1>6 DEF Table
  <1>8. f \in Table(c)
    <2>1. \A i \in 0 .. c - 1 : i \in 0 .. m - 1
      BY <1>2
    <2>2. [i \in 0 .. c - 1 |-> g.arr[i]] \in [0 .. c - 1 -> Seq(Objs)]
      BY <1>4, <2>1 DEF Table
    <2> QED
      BY <1>4, <1>6, <2>2 DEF Table
  <1>9. \A i \in 0 .. c - 1 : f.arr[i] = g.arr[i]
    BY <1>7
  <1>10. Chained(f, c) /\ Within(f, c) = Within(g, c)
    BY <1>5, <1>9 DEF Chained, Within
  <1>11. PairSums(f)[c] = PairSums(g)[c]
    <2>1. PICK a, b : /\ a = [i \in DOMAIN f.arr |-> PairsIn(f.arr[i])]
                      /\ b = [i \in DOMAIN g.arr |-> PairsIn(g.arr[i])]
      OBVIOUS
    <2>2. a \in [0 .. c - 1 -> Int] /\ DOMAIN f.arr = 0 .. c - 1
      BY <1>2, <1>8, <2>1, SumsType
    <2>3. b \in [0 .. m - 1 -> Int] /\ DOMAIN g.arr = 0 .. m - 1
      BY <1>4, <2>1, SumsType
    <2>4. \A i \in 0 .. c - 1 : a[i] = b[i]
      <3> SUFFICES ASSUME NEW i \in 0 .. c - 1 PROVE a[i] = b[i]
        OBVIOUS
      <3>1. i \in DOMAIN f.arr /\ i \in DOMAIN g.arr
        BY <1>2, <2>2, <2>3
      <3>2. a[i] = PairsIn(f.arr[i]) /\ b[i] = PairsIn(g.arr[i])
        BY <2>1, <3>1
      <3> QED
        BY <1>9, <3>2
    <2>5. Sums(a)[c] = Sums(b)[c]
      <3>1. c <= c /\ c <= m
        BY <1>2
      <3> QED
        BY <1>2, <2>2, <2>3, <2>4, <3>1, SumsAgree
    <2> QED
      BY <2>1, <2>5 DEF PairSums
  <1>12. QuadSums(f)[c] = QuadSums(g)[c]
    <2>1. PICK a, b : /\ a = [i \in DOMAIN f.arr |-> QuadsIn(f.arr[i])]
                      /\ b = [i \in DOMAIN g.arr |-> QuadsIn(g.arr[i])]
      OBVIOUS
    <2>2. a \in [0 .. c - 1 -> Int] /\ DOMAIN f.arr = 0 .. c - 1
      BY <1>2, <1>8, <2>1, SumsType
    <2>3. b \in [0 .. m - 1 -> Int] /\ DOMAIN g.arr = 0 .. m - 1
      BY <1>4, <2>1, SumsType
    <2>4. \A i \in 0 .. c - 1 : a[i] = b[i]
      <3> SUFFICES ASSUME NEW i \in 0 .. c - 1 PROVE a[i] = b[i]
        OBVIOUS
      <3>1. i \in DOMAIN f.arr /\ i \in DOMAIN g.arr
        BY <1>2, <2>2, <2>3
      <3>2. a[i] = QuadsIn(f.arr[i]) /\ b[i] = QuadsIn(g.arr[i])
        BY <2>1, <3>1
      <3> QED
        BY <1>9, <3>2
    <2>5. Sums(a)[c] = Sums(b)[c]
      <3>1. c <= c /\ c <= m
        BY <1>2
      <3> QED
        BY <1>2, <2>2, <2>3, <2>4, <3>1, SumsAgree
    <2> QED
      BY <2>1, <2>5 DEF QuadSums
  <1>13. PairSlack(f, c) = PairSlack(g, c) /\ QuadSlack(f, c) = QuadSlack(g, c)
    BY <1>7, <1>11, <1>12 DEF PairSlack, QuadSlack
  <1>14. Resized(f, c, h, m)
    BY <1>4, <1>5, <1>7, <1>8, <1>10, <1>13 DEF Resized
  <1>15. Shrink(h, c) = Prune(f)
    <2>1. Mask(h) + 1 - c = N
      BY <1>1, MaskValue
    <2> QED
      BY <1>3, <1>6, <2>1 DEF Shrink
  <1> QED
    BY <1>2, <1>14, <1>15, PruneResized

-----------------------------------------------------------------------------
(* Insertion and erasure.                                                  *)

\* The set of objects is finite, and the lengths of the chains count it.
LEMMA WithinCounted ==
    ASSUME NEW m \in Nat, NEW h \in Table(m), Chained(h, m)
    PROVE  \A c \in 0 .. m : /\ Within(h, c) \subseteq Objs /\ IsFiniteSet(Within(h, c))
                             /\ Cardinality(Within(h, c)) = Sums([i \in DOMAIN h.arr |-> Len(h.arr[i])])[c]
  <1>1. h.arr \in [0 .. m - 1 -> Seq(Objs)] /\ DOMAIN h.arr = 0 .. m - 1
    BY DEF Table
  <1>2. PICK f : f = [i \in DOMAIN h.arr |-> Len(h.arr[i])]
    OBVIOUS
  <1>3. f \in [0 .. m - 1 -> Int] /\ \A i \in 0 .. m - 1 : f[i] = Len(h.arr[i])
    <2>1. \A i \in 0 .. m - 1 : Len(h.arr[i]) \in Int
      BY <1>1
    <2> QED
      BY <1>1, <1>2, <2>1
  <1>4. /\ Sums(f) \in [0 .. m -> Int] /\ Sums(f)[0] = 0
        /\ \A c \in 1 .. m : Sums(f)[c] = Sums(f)[c - 1] + f[c - 1]
    BY <1>3, SumsValue
  <1> DEFINE Counted(c) == /\ Within(h, c) \subseteq Objs /\ IsFiniteSet(Within(h, c))
                           /\ Cardinality(Within(h, c)) = Sums(f)[c]
             T == {c \in Nat : c <= m => Counted(c)}
  <1>5. Counted(0)
    BY <1>4, WithinNext, FS_EmptySet
  <1>6. ASSUME NEW c \in Nat, c + 1 <= m, Counted(c) PROVE Counted(c + 1)
    <2>1. PICK W, s, X : W = Within(h, c) /\ s = h.arr[c] /\ X = ToSet(s)
      OBVIOUS
    <2>2. c \in 0 .. m - 1 /\ c + 1 \in 1 .. m /\ (c + 1) - 1 = c
      BY <1>6
    <2>3. s \in Seq(Objs) /\ Distinct(s)
      BY <1>1, <2>1, <2>2 DEF Chained
    <2>4. X \subseteq Objs /\ IsFiniteSet(X) /\ Cardinality(X) = Len(s)
      BY <2>1, <2>3, ToSetFinite
    <2>5. X \cap W = {}
      BY <2>1, <2>2, ChainApart
    <2>6. W \subseteq Objs /\ IsFiniteSet(W) /\ Cardinality(W) = Sums(f)[c]
      BY <1>6, <2>1
    <2>7. IsFiniteSet(W \cup X) /\ Cardinality(W \cup X) = Cardinality(W) + Cardinality(X) - Cardinality(W \cap X)
      BY <2>4, <2>6, FS_Union
    <2>8. Cardinality(W \cap X) = 0 /\ Cardinality(W) \in Nat /\ Cardinality(X) \in Nat
      <3>1. W \cap X = {}
        BY <2>5
      <3> QED
        BY <2>4, <2>6, <3>1, FS_EmptySet, FS_CardinalityType
    <2>9. Sums(f)[c + 1] = Sums(f)[c] + Len(s)
      BY <1>3, <1>4, <2>1, <2>2
    <2>10. Cardinality(W \cup X) = Sums(f)[c + 1]
      BY <2>4, <2>6, <2>7, <2>8, <2>9
    <2>11. Within(h, c + 1) = W \cup X
      BY <2>1, WithinNext
    <2> QED
      BY <2>4, <2>6, <2>7, <2>10, <2>11
  <1>7. \A c \in 0 .. m : Counted(c)
    <2> HIDE DEF Counted
    <2>1. 0 \in T
      BY <1>5
    <2>2. \A c \in Nat : c \in T => c + 1 \in T
      BY <1>6
    <2>3. Nat \subseteq T
      BY <2>1, <2>2, Induction
    <2> QED
      BY <2>3
  <1> QED
    BY <1>2, <1>7

\* What a set of m buckets has between operations.
Sound(h, m) ==
    /\ h \in Table(m) /\ Chained(h, m) /\ PairSlack(h, m) = 0 /\ QuadSlack(h, m) = 0
    /\ h.size = Cardinality(Within(h, m))

\* h with the count n of its objects.
Counting(h, n) == [h EXCEPT !.size = n]

LEMMA CountedSound ==
    ASSUME NEW m \in Nat, NEW h \in Table(m), Chained(h, m), PairSlack(h, m) = 0, QuadSlack(h, m) = 0,
           NEW n \in Nat, n = Cardinality(Within(h, m))
    PROVE  Sound(Counting(h, n), m) /\ Within(Counting(h, n), m) = Within(h, m)
  <1>1. PICK g : g = Counting(h, n)
    OBVIOUS
  <1>2. /\ g.arr = h.arr /\ g.size = n /\ g.pairs = h.pairs /\ g.quads = h.quads
        /\ g.free_pairs = h.free_pairs /\ g.free_quads = h.free_quads
    BY <1>1 DEF Counting, Table
  <1>3. g \in Table(m)
    BY <1>1 DEF Counting, Table
  <1>4. Chained(g, m) /\ Within(g, m) = Within(h, m)
    BY <1>2 DEF Chained, Within
  <1>5. PairSums(g) = PairSums(h) /\ QuadSums(g) = QuadSums(h)
    BY <1>2 DEF PairSums, QuadSums
  <1>6. PairSlack(g, m) = 0 /\ QuadSlack(g, m) = 0
    BY <1>2, <1>5 DEF PairSlack, QuadSlack
  <1> QED
    BY <1>1, <1>2, <1>3, <1>4, <1>6 DEF Sound

LEMMA ResizedSound ==
    ASSUME NEW m, NEW c, NEW h, NEW g, Sound(h, m), Resized(g, c, h, m)
    PROVE  Sound(g, c) /\ Within(g, c) = Within(h, m) /\ g.size = h.size
  BY DEF Sound, Resized

\* A search of the bucket of an object finds it when the set has it.
LEMMA SearchFinds ==
    ASSUME NEW m \in Nat, m > 0, NEW h \in Table(m), Chained(h, m), NEW o \in Objs
    PROVE  Contains(Bucket(h, o), o) <=> o \in Within(h, m)
  <1>1. PICK i : i = Slot(h, o)
    OBVIOUS
  <1>2. i = Hash[o] % m /\ i \in 0 .. m - 1 /\ Bucket(h, o) = h.arr[i] /\ Bucket(h, o) \in Seq(Objs)
    BY <1>1, SlotValue
  <1>3. Contains(Bucket(h, o), o) <=> o \in ToSet(h.arr[i])
    BY <1>2 DEF Contains, ToSet
  <1>4. o \in ToSet(h.arr[i]) => o \in Within(h, m)
    BY <1>2 DEF Within
  <1>5. o \in Within(h, m) => o \in ToSet(h.arr[i])
    <2>1. ASSUME o \in Within(h, m) PROVE o \in ToSet(h.arr[i])
      <3>1. PICK j \in 0 .. m - 1 : o \in ToSet(h.arr[j])
        BY <2>1 DEF Within
      <3>2. Hash[o] % m = j
        BY <3>1 DEF Chained
      <3> QED
        BY <1>2, <3>1, <3>2
    <2> QED
      BY <2>1
  <1> QED
    BY <1>3, <1>4, <1>5

\* The nodes of an insertion: a pair which becomes a quad is freed.
InsertNodes(h, s) ==
    CASE TailLen(s) = 0 -> h
      [] TailLen(s) = 1 -> AllocPair(h)
      [] TailLen(s) = 2 -> FreePair(AllocQuad(h))

LEMMA InsertTakes ==
    ASSUME NEW n, NEW h \in Table(n), NEW s \in Seq(Objs)
    PROVE  /\ InsertNodes(h, s) \in Table(n)
           /\ Takes(InsertNodes(h, s), h, PairsOf(Len(s) + 1) - PairsOf(Len(s)),
                                         QuadsOf(Len(s) + 1) - QuadsOf(Len(s)))
  <1>1. PICK k \in Nat : k = Len(s)
    OBVIOUS
  <1>2. CASE k % 3 = 0
    <2>1. PairsOf(k + 1) - PairsOf(k) = 0 /\ QuadsOf(k + 1) - QuadsOf(k) = 0
      BY <1>2 DEF PairsOf, QuadsOf
    <2>2. InsertNodes(h, s) = h
      BY <1>1, <1>2 DEF InsertNodes, TailLen
    <2>3. Takes(h, h, 0, 0)
      BY DEF Takes, Table
    <2> QED
      BY <1>1, <2>1, <2>2, <2>3
  <1>3. CASE k % 3 = 1
    <2>1. PairsOf(k + 1) - PairsOf(k) = 1 /\ QuadsOf(k + 1) - QuadsOf(k) = 0
      BY <1>3 DEF PairsOf, QuadsOf
    <2>2. InsertNodes(h, s) = AllocPair(h)
      BY <1>1, <1>3 DEF InsertNodes, TailLen
    <2> QED
      BY <1>1, <2>1, <2>2, NodesTaken
  <1>4. CASE k % 3 = 2
    <2>1. PairsOf(k + 1) - PairsOf(k) = -1 /\ QuadsOf(k + 1) - QuadsOf(k) = 1
      BY <1>4 DEF PairsOf, QuadsOf
    <2>2. InsertNodes(h, s) = FreePair(AllocQuad(h))
      BY <1>1, <1>4 DEF InsertNodes, TailLen
    <2>3. AllocQuad(h) \in Table(n) /\ Takes(AllocQuad(h), h, 0, 1)
      BY NodesTaken
    <2>4. FreePair(AllocQuad(h)) \in Table(n) /\ Takes(FreePair(AllocQuad(h)), AllocQuad(h), -1, 0)
      BY <2>3, NodesTaken
    <2>5. Takes(FreePair(AllocQuad(h)), h, 0 + (-1), 1 + 0)
      BY <2>3, <2>4, TakesMore
    <2> QED
      BY <1>1, <2>1, <2>2, <2>4, <2>5
  <1> QED
    BY <1>1, <1>2, <1>3, <1>4

LEMMA InsertSound ==
    ASSUME NEW m \in Nat, m > 0, NEW h, Sound(h, m), NEW o \in Objs, o \notin Within(h, m)
    PROVE  /\ Sound(Insert(h, o), m) /\ Within(Insert(h, o), m) = Within(h, m) \cup {o}
           /\ Insert(h, o).size = h.size + 1
  <1>1. /\ h \in Table(m) /\ Chained(h, m) /\ PairSlack(h, m) = 0 /\ QuadSlack(h, m) = 0
        /\ h.size = Cardinality(Within(h, m))
    BY DEF Sound
  <1>2. PICK s, b, g : s = Bucket(h, o) /\ b = InsertNodes(h, s) /\ g = Appended(b, h, o)
    OBVIOUS
  <1>3. s \in Seq(Objs)
    BY <1>1, <1>2, SlotValue
  <1>4. b \in Table(m) /\ TakesOne(b, h, o)
    BY <1>1, <1>2, <1>3, InsertTakes DEF TakesOne
  <1>5. g \in Table(m) /\ g.size = h.size
    BY <1>1, <1>2, <1>4, AppendType
  <1>6. Gains(g, h, m, {o}, 0, 0)
    BY <1>1, <1>2, <1>4, AppendGains
  <1>7. Chained(g, m) /\ Within(g, m) = Within(h, m) \cup {o} /\ PairSlack(g, m) = 0 /\ QuadSlack(g, m) = 0
    BY <1>1, <1>6 DEF Gains
  <1>8. IsFiniteSet(Within(h, m)) /\ h.size \in Nat
    <2>1. m \in 0 .. m
      OBVIOUS
    <2> QED
      BY <1>1, <2>1, WithinCounted DEF Table
  <1>9. Cardinality(Within(g, m)) = h.size + 1
    BY <1>1, <1>7, <1>8, FS_AddElement
  <1>10. Insert(h, o) = Counting(g, h.size + 1)
    <2>1. b.size = h.size /\ b = InsertNodes(h, Bucket(h, o))
      BY <1>2, <1>4 DEF TakesOne, Takes
    <2>2. Insert(h, o) = [b EXCEPT !.arr[Slot(h, o)] = Append(@, o), !.size = @ + 1]
      BY <2>1 DEF Insert, InsertNodes
    <2>3. Insert(h, o) = [[b EXCEPT !.arr[Slot(h, o)] = Append(@, o)] EXCEPT !.size = @ + 1]
      BY <2>2
    <2> QED
      BY <1>2, <1>5, <2>3 DEF Appended, Counting
  <1>11. h.size + 1 \in Nat
    BY <1>8
  <1>12. Sound(Counting(g, h.size + 1), m) /\ Within(Counting(g, h.size + 1), m) = Within(g, m)
    BY <1>5, <1>7, <1>9, <1>11, CountedSound
  <1>13. Counting(g, h.size + 1).size = h.size + 1
    BY <1>5 DEF Counting, Table
  <1> QED
    BY <1>7, <1>10, <1>12, <1>13

\* The nodes of a chain which loses its last object.
LEMMA PopTakes ==
    ASSUME NEW n, NEW h \in Table(n), NEW s \in Seq(Objs), Len(s) > 0
    PROVE  /\ PopNodes(h, s) \in Table(n)
           /\ Takes(PopNodes(h, s), h, PairsOf(Len(s) - 1) - PairsOf(Len(s)),
                                      QuadsOf(Len(s) - 1) - QuadsOf(Len(s)))
  <1>1. PICK k \in Nat : k = Len(s) /\ k > 0
    OBVIOUS
  <1>2. CASE k % 3 = 1
    <2>1. PairsOf(k - 1) - PairsOf(k) = 0 /\ QuadsOf(k - 1) - QuadsOf(k) = 0
      BY <1>1, <1>2 DEF PairsOf, QuadsOf
    <2>2. PopNodes(h, s) = h
      BY <1>1, <1>2 DEF PopNodes, TailLen
    <2>3. Takes(h, h, 0, 0)
      BY DEF Takes, Table
    <2> QED
      BY <1>1, <2>1, <2>2, <2>3
  <1>3. CASE k % 3 = 2
    <2>1. PairsOf(k - 1) - PairsOf(k) = -1 /\ QuadsOf(k - 1) - QuadsOf(k) = 0
      BY <1>1, <1>3 DEF PairsOf, QuadsOf
    <2>2. PopNodes(h, s) = StashPair(h)
      BY <1>1, <1>3 DEF PopNodes, TailLen
    <2> QED
      BY <1>1, <2>1, <2>2, NodesTaken
  <1>4. CASE k % 3 = 0
    <2>1. PairsOf(k - 1) - PairsOf(k) = 1 /\ QuadsOf(k - 1) - QuadsOf(k) = -1
      BY <1>1, <1>4 DEF PairsOf, QuadsOf
    <2>2. PopNodes(h, s) = StashQuad(AllocPair(h))
      BY <1>1, <1>4 DEF PopNodes, TailLen
    <2>3. AllocPair(h) \in Table(n) /\ Takes(AllocPair(h), h, 1, 0)
      BY NodesTaken
    <2>4. StashQuad(AllocPair(h)) \in Table(n) /\ Takes(StashQuad(AllocPair(h)), AllocPair(h), 0, -1)
      BY <2>3, NodesTaken
    <2>5. Takes(StashQuad(AllocPair(h)), h, 1 + 0, 0 + (-1))
      BY <2>3, <2>4, TakesMore
    <2> QED
      BY <1>1, <2>1, <2>2, <2>4, <2>5
  <1> QED
    BY <1>1, <1>2, <1>3, <1>4

LEMMA UnchainTakes ==
    ASSUME NEW n, NEW h \in Table(n), NEW s \in Seq(Objs), NEW p \in 1 .. Len(s)
    PROVE  /\ Unchain(h, s, p)[2] \in Table(n)
           /\ Takes(Unchain(h, s, p)[2], h, PairsOf(Len(s) - 1) - PairsOf(Len(s)),
                                           QuadsOf(Len(s) - 1) - QuadsOf(Len(s)))
  <1>1. PICK k \in Nat : k = Len(s) /\ k > 0
    OBVIOUS
  <1>2. CASE p > k - TailLen(s)
    <2>1. Unchain(h, s, p)[2] = IF k % 3 = 2 THEN FreePair(h) ELSE h
      BY <1>1, <1>2 DEF Unchain, TailLen
    <2>2. k % 3 = 1 \/ k % 3 = 2
      BY <1>1, <1>2 DEF TailLen
    <2>3. CASE k % 3 = 1
      <3>1. PairsOf(k - 1) - PairsOf(k) = 0 /\ QuadsOf(k - 1) - QuadsOf(k) = 0
        BY <1>1, <2>3 DEF PairsOf, QuadsOf
      <3>2. Takes(h, h, 0, 0)
        BY DEF Takes, Table
      <3> QED
        BY <1>1, <2>1, <2>3, <3>1, <3>2
    <2>4. CASE k % 3 = 2
      <3>1. PairsOf(k - 1) - PairsOf(k) = -1 /\ QuadsOf(k - 1) - QuadsOf(k) = 0
        BY <1>1, <2>4 DEF PairsOf, QuadsOf
      <3> QED
        BY <1>1, <2>1, <2>4, <3>1, NodesTaken
    <2> QED
      BY <2>2, <2>3, <2>4
  <1>3. CASE ~(p > k - TailLen(s)) /\ TailLen(s) = 0 /\ p > k - 3
    <2>1. Unchain(h, s, p)[2] = FreeQuad(AllocPair(h))
      BY <1>1, <1>3 DEF Unchain
    <2>2. PairsOf(k - 1) - PairsOf(k) = 1 /\ QuadsOf(k - 1) - QuadsOf(k) = -1
      <3>1. k % 3 = 0
        BY <1>1, <1>3 DEF TailLen
      <3> QED
        BY <1>1, <3>1 DEF PairsOf, QuadsOf
    <2>3. AllocPair(h) \in Table(n) /\ Takes(AllocPair(h), h, 1, 0)
      BY NodesTaken
    <2>4. FreeQuad(AllocPair(h)) \in Table(n) /\ Takes(FreeQuad(AllocPair(h)), AllocPair(h), 0, -1)
      BY <2>3, NodesTaken
    <2>5. Takes(FreeQuad(AllocPair(h)), h, 1 + 0, 0 + (-1))
      BY <2>3, <2>4, TakesMore
    <2> QED
      BY <1>1, <2>1, <2>2, <2>4, <2>5
  <1>4. CASE ~(p > k - TailLen(s)) /\ ~(TailLen(s) = 0 /\ p > k - 3)
    <2>1. Unchain(h, s, p)[2] = PopNodes(h, s)
      BY <1>1, <1>4 DEF Unchain
    <2> QED
      BY <1>1, <2>1, PopTakes
  <1> QED
    BY <1>2, <1>3, <1>4

\* g is h without the object o, and with no node more or less.
Loses(g, h, m, o) ==
    /\ g \in Table(m) /\ Chained(g, m) /\ Within(g, m) = Within(h, m) \ {o}
    /\ PairSlack(g, m) = PairSlack(h, m) /\ QuadSlack(g, m) = QuadSlack(h, m)

LEMMA DropSlot ==
    ASSUME NEW m \in Nat, NEW h \in Table(m), NEW i \in 0 .. m - 1, Chained(h, m),
           NEW s, s = h.arr[i], NEW p \in 1 .. Len(s), NEW t, Drops(t, s, p),
           NEW z, z = 0, NEW g, Rebuckets(g, h, m, i, t, z, z)
    PROVE  Loses(g, h, m, s[p])
  <1>1. PICK o : o = s[p]
    OBVIOUS
  <1>2. h.arr \in [0 .. m - 1 -> Seq(Objs)] /\ s \in Seq(Objs) /\ o \in ToSet(s)
    <2>1. h.arr \in [0 .. m - 1 -> Seq(Objs)] /\ s \in Seq(Objs)
      BY <1>1 DEF Table
    <2> QED
      BY <1>1, <2>1 DEF ToSet
  <1>3. t \in Seq(Objs) /\ Len(t) = Len(s) - 1 /\ ToSet(t) = ToSet(s) \ {o}
    BY <1>1 DEF Drops
  <1>4. g \in Table(m) /\ g.arr[i] = t /\ \A j \in 0 .. m - 1 : j # i => g.arr[j] = h.arr[j]
    BY <1>2 DEF Rebuckets
  <1>5. Distinct(s) /\ Hash[o] % m = i
    BY <1>1, <1>2 DEF Chained
  <1>6. Distinct(t)
    <2>1. IsFiniteSet(ToSet(s)) /\ Cardinality(ToSet(s)) = Len(s)
      BY <1>2, <1>5, ToSetFinite
    <2>2. Cardinality(ToSet(t)) = Len(t)
      BY <1>2, <1>3, <2>1, FS_RemoveElement
    <2> QED
      BY <1>3, <2>2, ToSetFinite
  <1>7. Chained(g, m)
    <2>1. ASSUME NEW j \in 0 .. m - 1
          PROVE  Distinct(g.arr[j]) /\ \A x \in ToSet(g.arr[j]) : Hash[x] % m = j
      <3>1. CASE j = i
        <4>1. \A x \in ToSet(s) : Hash[x] % m = i
          BY <1>1 DEF Chained
        <4> QED
          BY <1>3, <1>4, <1>6, <3>1, <4>1
      <3>2. CASE j # i
        BY <1>4, <3>2 DEF Chained
      <3> QED
        BY <3>1, <3>2
    <2> QED
      BY <2>1 DEF Chained
  <1>8. Within(g, m) = Within(h, m) \ {o}
    <2>1. ASSUME NEW x \in Within(g, m) PROVE x \in Within(h, m) /\ x # o
      <3>1. PICK j \in 0 .. m - 1 : x \in ToSet(g.arr[j])
        BY <2>1 DEF Within
      <3>2. CASE j = i
        <4>1. x \in ToSet(h.arr[i]) /\ x # o
          BY <1>1, <1>3, <1>4, <3>1, <3>2
        <4> QED
          BY <4>1 DEF Within
      <3>3. CASE j # i
        <4>1. x \in ToSet(h.arr[j])
          BY <1>4, <3>1, <3>3
        <4>2. Hash[x] % m = j
          BY <4>1 DEF Chained
        <4>3. x # o
          BY <1>5, <3>3, <4>2
        <4> QED
          BY <4>1, <4>3 DEF Within
      <3> QED
        BY <3>2, <3>3
    <2>2. ASSUME NEW x \in Within(h, m), x # o PROVE x \in Within(g, m)
      <3>1. PICK j \in 0 .. m - 1 : x \in ToSet(h.arr[j])
        BY <2>2 DEF Within
      <3>2. x \in ToSet(g.arr[j])
        BY <1>1, <1>3, <1>4, <2>2, <3>1
      <3> QED
        BY <3>2 DEF Within
    <2> QED
      BY <2>1, <2>2
  <1>9. PairSlack(g, m) = PairSlack(h, m) /\ QuadSlack(g, m) = QuadSlack(h, m)
    <2>1. z \in Int /\ m \in 0 .. m /\ m > i /\ Rebuckets(g, h, m, i, t, z, z)
      BY <1>1
    <2>2. PairSlack(g, m) = PairSlack(h, m) - z /\ QuadSlack(g, m) = QuadSlack(h, m) - z
      BY <1>3, <2>1, RebucketsSlack
    <2>3. PairSlack(h, m) \in Int /\ QuadSlack(h, m) \in Int
      BY <2>1, SlackType
    <2> QED
      BY <1>1, <2>2, <2>3
  <1> QED
    BY <1>1, <1>4, <1>7, <1>8, <1>9 DEF Loses

\* The set without the object o, before it is resized.
Erased(h, o) ==
    LET s == Bucket(h, o)
        left == Unchain(h, s, CHOOSE p \in 1 .. Len(s) : s[p] = o)
    IN  [left[2] EXCEPT !.arr[Slot(h, o)] = left[1], !.size = @ - 1]

LEMMA EraseSound ==
    ASSUME NEW m \in Nat, m > 0, NEW h, Sound(h, m), NEW o \in Objs, o \in Within(h, m)
    PROVE  /\ Sound(Erased(h, o), m) /\ Within(Erased(h, o), m) = Within(h, m) \ {o}
           /\ Erased(h, o).size = h.size - 1 /\ h.size - 1 \in Nat
  <1>1. /\ h \in Table(m) /\ Chained(h, m) /\ PairSlack(h, m) = 0 /\ QuadSlack(h, m) = 0
        /\ h.size = Cardinality(Within(h, m))
    BY DEF Sound
  <1>2. PICK i, s : i = Slot(h, o) /\ s = Bucket(h, o)
    OBVIOUS
  <1>3. i \in 0 .. m - 1 /\ s = h.arr[i] /\ s \in Seq(Objs)
    BY <1>1, <1>2, SlotValue
  <1>4. Distinct(s)
    BY <1>1, <1>3 DEF Chained
  <1>5. PICK p : p = CHOOSE q \in 1 .. Len(s) : s[q] = o
    OBVIOUS
  <1>6. p \in 1 .. Len(s) /\ s[p] = o
    <2>1. Contains(s, o)
      BY <1>1, <1>2, SearchFinds
    <2>2. \E q \in 1 .. Len(s) : s[q] = o
      BY <2>1 DEF Contains
    <2> QED
      BY <1>5, <2>2
  <1>7. PICK t, b, z : t = Unchain(h, s, p)[1] /\ b = Unchain(h, s, p)[2] /\ z = 0
    OBVIOUS
  <1>8. Drops(t, s, p)
    BY <1>3, <1>4, <1>6, <1>7, UnchainDrops
  <1>9. t \in Seq(Objs) /\ Len(t) = Len(s) - 1
    BY <1>8 DEF Drops
  <1>10. /\ b \in Table(m)
         /\ Takes(b, h, PairsOf(Len(s) - 1) - PairsOf(Len(s)), QuadsOf(Len(s) - 1) - QuadsOf(Len(s)))
    BY <1>1, <1>3, <1>6, <1>7, UnchainTakes
  <1>11. Takes(b, h, PairsIn(t) - PairsIn(h.arr[i]) - z, QuadsIn(t) - QuadsIn(h.arr[i]) - z)
    <2>1. /\ PairsIn(t) = PairsOf(Len(s) - 1) /\ QuadsIn(t) = QuadsOf(Len(s) - 1)
          /\ PairsIn(s) = PairsOf(Len(s)) /\ QuadsIn(s) = QuadsOf(Len(s))
      BY <1>3, <1>9, LinkNodes
    <2>2. PairsIn(t) \in Int /\ QuadsIn(t) \in Int /\ PairsIn(s) \in Int /\ QuadsIn(s) \in Int
      BY <1>3, <1>9, LinkNodesType
    <2>3. PairsIn(t) - PairsIn(s) - z = PairsOf(Len(s) - 1) - PairsOf(Len(s))
      BY <1>7, <2>1, <2>2
    <2>4. QuadsIn(t) - QuadsIn(s) - z = QuadsOf(Len(s) - 1) - QuadsOf(Len(s))
      BY <1>7, <2>1, <2>2
    <2> QED
      BY <1>3, <1>10, <2>3, <2>4
  <1>12. PICK g : g = [b EXCEPT !.arr[i] = t]
    OBVIOUS
  <1>13. Rebuckets(g, h, m, i, t, z, z) /\ g.size = h.size
    <2>1. z \in Int
      BY <1>7
    <2>2. Rebuckets(g, h, m, i, t, z, z)
      BY <1>1, <1>3, <1>9, <1>10, <1>11, <1>12, <2>1, TakesRebuckets
    <2>3. g.size = h.size
      BY <1>10, <1>12 DEF Takes, Table
    <2> QED
      BY <2>2, <2>3
  <1>14. /\ g \in Table(m) /\ Chained(g, m) /\ Within(g, m) = Within(h, m) \ {o}
         /\ PairSlack(g, m) = 0 /\ QuadSlack(g, m) = 0
    <2>1. Loses(g, h, m, s[p])
      BY <1>1, <1>3, <1>6, <1>7, <1>8, <1>13, DropSlot
    <2> QED
      BY <1>1, <1>6, <2>1 DEF Loses
  <1>15. IsFiniteSet(Within(h, m))
    <2>1. m \in 0 .. m
      OBVIOUS
    <2> QED
      BY <1>1, <2>1, WithinCounted
  <1>16. Cardinality(Within(g, m)) = h.size - 1 /\ h.size - 1 \in Nat
    <2>1. IsFiniteSet(Within(g, m)) /\ Cardinality(Within(g, m)) = h.size - 1
      BY <1>1, <1>14, <1>15, FS_RemoveElement
    <2>2. Cardinality(Within(g, m)) \in Nat
      BY <2>1, FS_CardinalityType
    <2> QED
      BY <2>1, <2>2
  <1>17. Erased(h, o) = Counting(g, h.size - 1)
    <2>1. Erased(h, o) = [b EXCEPT !.arr[i] = t, !.size = @ - 1]
      BY <1>2, <1>5, <1>7 DEF Erased
    <2>2. Erased(h, o) = [g EXCEPT !.size = @ - 1]
      BY <1>12, <2>1
    <2> QED
      BY <1>13, <1>14, <2>2 DEF Counting, Table
  <1>18. Sound(Counting(g, h.size - 1), m) /\ Within(Counting(g, h.size - 1), m) = Within(g, m)
    BY <1>14, <1>16, CountedSound
  <1>19. Counting(g, h.size - 1).size = h.size - 1
    BY <1>14 DEF Counting, Table
  <1> QED
    BY <1>14, <1>16, <1>17, <1>18, <1>19

-----------------------------------------------------------------------------
(* The operations.                                                         *)

\* h is a set of m buckets as it is between operations.
Fits(h, m) == Capacity(m) /\ Sound(h, m) /\ InLimits(h.size, m)

LEMMA FitsFacts ==
    ASSUME NEW h, NEW m, Fits(h, m)
    PROVE  /\ m \in Nat /\ m >= 2 /\ h \in Table(m) /\ Chained(h, m) /\ h.size \in Nat
           /\ Mask(h) = m - 1 /\ DOMAIN h.arr = 0 .. m - 1
           /\ Within(h, m) \subseteq Objs /\ IsFiniteSet(Within(h, m)) /\ h.size = Cardinality(Within(h, m))
  <1>1. m \in Nat /\ m >= 2
    BY CapacityFacts DEF Fits
  <1>2. h \in Table(m) /\ Chained(h, m) /\ h.size = Cardinality(Within(h, m))
    BY DEF Fits, Sound
  <1>3. Mask(h) = m - 1 /\ DOMAIN h.arr = 0 .. m - 1
    BY <1>1, <1>2, MaskValue
  <1>4. Within(h, m) \subseteq Objs /\ IsFiniteSet(Within(h, m))
    <2>1. m \in 0 .. m
      BY <1>1
    <2> QED
      BY <1>1, <1>2, <2>1, WithinCounted
  <1>5. h.size \in Nat
    BY <1>2 DEF Table
  <1> QED
    BY <1>1, <1>2, <1>3, <1>4, <1>5

\* What an allocation and a disclaiming make of the set h of m buckets.
Allocates(g, c, h, m, o, r) ==
    /\ Fits(g, c) /\ Within(g, c) = Within(h, m) \cup {o}
    /\ r = <<o, IF o \in Within(h, m) THEN "found" ELSE "inserted">>
    /\ \/ g = h /\ c = m
       \/ o \notin Within(h, m) /\ g.size = h.size + 1 /\ c = CapAfterInsert(h.size + 1, m - 1)

Disclaims(g, c, h, m, o, r) ==
    /\ Fits(g, c) /\ o \in Within(h, m) /\ Within(g, c) = Within(h, m) \ {o}
    /\ r = <<o, "disclaimed">>
    /\ h.size > 0 /\ g.size = h.size - 1 /\ c = CapAfterErase(h.size - 1, m - 1)

LEMMA HallocAllocates ==
    ASSUME NEW m, Fits(hset, m), NEW o \in Objs, Halloc(o)
    PROVE  \E c : Allocates(hset', c, hset, m, o, ret')
  <1>1. /\ m \in Nat /\ m > 0 /\ hset \in Table(m) /\ Chained(hset, m) /\ hset.size \in Nat
        /\ Mask(hset) = m - 1
    BY FitsFacts
  <1>2. Contains(Bucket(hset, o), o) <=> o \in Within(hset, m)
    BY <1>1, SearchFinds
  <1>3. CASE o \in Within(hset, m)
    <2>1. ret' = <<o, "found">> /\ hset' = hset
      BY <1>2, <1>3 DEF Halloc
    <2>2. Within(hset, m) = Within(hset, m) \cup {o}
      BY <1>3
    <2>3. Allocates(hset', m, hset, m, o, ret')
      BY <1>3, <2>1, <2>2 DEF Allocates
    <2> QED
      BY <2>3
  <1>4. CASE o \notin Within(hset, m)
    <2>1. PICK h : h = Insert(hset, o)
      OBVIOUS
    <2>2. Sound(h, m) /\ Within(h, m) = Within(hset, m) \cup {o} /\ h.size = hset.size + 1
      BY <1>1, <1>4, <2>1, InsertSound DEF Fits
    <2>3. PICK c : c = CapAfterInsert(hset.size + 1, m - 1)
      OBVIOUS
    <2>4. /\ c = IF Overloaded(hset.size + 1, m - 1) THEN 2 * m ELSE m
          /\ Capacity(c) /\ InLimits(hset.size + 1, c)
      BY <1>1, <2>3, GrowthInLimits DEF Fits
    <2>5. /\ ret' = <<o, "inserted">>
          /\ hset' = IF Overloaded(hset.size + 1, m - 1) THEN Grow(h, c) ELSE h
      <3>1. ret' = <<o, "inserted">> /\ hset' = IF Overloaded(h.size, m - 1) THEN Grow(h, (m - 1 + 1) * 2) ELSE h
        BY <1>1, <1>2, <1>4, <2>1 DEF Halloc
      <3>2. Overloaded(hset.size + 1, m - 1) => (m - 1 + 1) * 2 = c
        BY <1>1, <2>4
      <3> QED
        BY <2>2, <3>1, <3>2
    <2>6. Sound(hset', c) /\ Within(hset', c) = Within(h, m) /\ hset'.size = h.size
      <3>1. CASE Overloaded(hset.size + 1, m - 1)
        <4>1. hset' = Grow(h, c) /\ c \in Nat /\ c > 0
          BY <1>1, <2>4, <2>5, <3>1
        <4>2. h \in Table(m) /\ Chained(h, m)
          BY <2>2 DEF Sound
        <4>3. Resized(Grow(h, c), c, h, m)
          BY <1>1, <4>1, <4>2, GrowResizes
        <4> QED
          BY <2>2, <4>1, <4>3, ResizedSound
      <3>2. CASE ~Overloaded(hset.size + 1, m - 1)
        BY <2>2, <2>4, <2>5, <3>2
      <3> QED
        BY <3>1, <3>2
    <2>7. Fits(hset', c)
      BY <2>2, <2>4, <2>6 DEF Fits
    <2>8. Allocates(hset', c, hset, m, o, ret')
      BY <1>4, <2>2, <2>3, <2>5, <2>6, <2>7 DEF Allocates
    <2> QED
      BY <2>8
  <1> QED
    BY <1>3, <1>4

LEMMA DisclaimDisclaims ==
    ASSUME NEW m, Fits(hset, m), NEW o \in Objs, Disclaim(o)
    PROVE  \E c : Disclaims(hset', c, hset, m, o, ret')
  <1>1. /\ m \in Nat /\ m > 0 /\ hset \in Table(m) /\ Chained(hset, m) /\ hset.size \in Nat
        /\ Mask(hset) = m - 1
    BY FitsFacts
  <1>2. o \in Within(hset, m) /\ ret' = <<o, "disclaimed">>
    BY <1>1, SearchFinds DEF Disclaim
  <1>3. PICK h : h = Erased(hset, o)
    OBVIOUS
  <1>4. PICK s : s = hset.size - 1
    OBVIOUS
  <1>5. /\ Sound(h, m) /\ Within(h, m) = Within(hset, m) \ {o} /\ h.size = s
        /\ s \in Nat /\ hset.size > 0 /\ hset.size = s + 1
    BY <1>1, <1>2, <1>3, <1>4, EraseSound DEF Fits
  <1>6. hset' = IF Underloaded(s, m - 1) THEN Shrink(h, ShrunkCap(s)) ELSE h
    <2>1. hset' = IF Underloaded(h.size, m - 1) THEN Shrink(h, ShrunkCap(h.size)) ELSE h
      BY <1>1, <1>3 DEF Disclaim, Erased
    <2> QED
      BY <1>5, <2>1
  <1>7. PICK c : c = CapAfterErase(s, m - 1)
    OBVIOUS
  <1>8. Capacity(c) /\ InLimits(s, c) /\ Sound(hset', c) /\ Within(hset', c) = Within(h, m) /\ hset'.size = h.size
    <2>1. CASE Underloaded(s, m - 1)
      <3>1. c = ShrunkCap(s)
        BY <1>7, <2>1 DEF CapAfterErase
      <3>2. Capacity(c) /\ c < m /\ InLimits(s, c)
        BY <1>5, <2>1, <3>1, ShrinkingInLimits DEF Fits
      <3>3. c \in Nat /\ c > 0 /\ c \in 1 .. m
        BY <1>1, <3>2, CapacityFacts
      <3>4. PICK e \in Nat : m = c * e
        <4>1. Capacity(c) /\ Capacity(m) /\ c <= m
          BY <1>1, <3>2, <3>3 DEF Fits
        <4> QED
          BY <4>1, CapacityOrder
      <3>5. e > 0
        BY <1>1, <3>3, <3>4
      <3>6. h \in Table(m) /\ Chained(h, m)
        BY <1>5 DEF Sound
      <3>7. Resized(Shrink(h, c), c, h, m)
        BY <1>1, <3>3, <3>4, <3>5, <3>6, ShrinkResizes
      <3>8. hset' = Shrink(h, c)
        BY <1>6, <2>1, <3>1
      <3> QED
        BY <1>5, <3>2, <3>7, <3>8, ResizedSound
    <2>2. CASE ~Underloaded(s, m - 1)
      <3>1. c = m
        BY <1>1, <1>7, <2>2 DEF CapAfterErase
      <3>2. hset' = h
        BY <1>6, <2>2
      <3>3. Capacity(m)
        BY DEF Fits
      <3>4. InLimits(s, m)
        <4>1. s * 8 >= (m - 1) * 3 \/ m - 1 <= MIN_CAPACITY
          BY <1>1, <1>5, <2>2, CapacityAssumption
             DEF Underloaded, MIN_LOAD_DENOM, MIN_LOAD_NUMER
        <4>2. m = MIN_CAPACITY \/ 2 * MIN_CAPACITY <= m
          <5>1. Capacity(MIN_CAPACITY) /\ MIN_CAPACITY \in Nat /\ m >= MIN_CAPACITY
            BY <3>3, CapacityFacts DEF Capacity
          <5>2. MIN_CAPACITY < m => 2 * MIN_CAPACITY <= m
            BY <3>3, <5>1, CapacityOrder
          <5> QED
            BY <1>1, <5>1, <5>2
        <4>3. MIN_CAPACITY \in Nat /\ MIN_CAPACITY >= 2
          BY CapacityFacts
        <4>4. m - 1 <= MIN_CAPACITY => m = MIN_CAPACITY
          BY <1>1, <4>2, <4>3
        <4>5. s * 2 <= (m - 1) * 3 + 1
          BY <1>1, <1>5 DEF Fits, InLimits
        <4> QED
          BY <4>1, <4>4, <4>5 DEF InLimits
      <3> QED
        BY <1>5, <3>1, <3>2, <3>3, <3>4
    <2> QED
      BY <2>1, <2>2
  <1>9. Fits(hset', c)
    BY <1>5, <1>8 DEF Fits
  <1>10. Disclaims(hset', c, hset, m, o, ret')
    BY <1>2, <1>4, <1>5, <1>7, <1>8, <1>9 DEF Disclaims
  <1> QED
    BY <1>10

-----------------------------------------------------------------------------
(* The invariant: the set fits some number of buckets.                     *)

Results == {<<>>} \cup (Objs \X {"found", "inserted", "disclaimed"})

HsetInv == (\E m : Fits(hset, m)) /\ ret \in Results

LEMMA HsetInit == Init => Fits(hset, MIN_CAPACITY) /\ Within(hset, MIN_CAPACITY) = {} /\ HsetInv
  <1>1. SUFFICES ASSUME Init PROVE Fits(hset, MIN_CAPACITY) /\ Within(hset, MIN_CAPACITY) = {} /\ HsetInv
    OBVIOUS
  <1>2. PICK m : m = MIN_CAPACITY
    OBVIOUS
  <1>3. Capacity(m) /\ m \in Nat /\ m >= 2
    BY <1>2, CapacityFacts
  <1>4. /\ hset.arr = [i \in 0 .. m - 1 |-> <<>>] /\ hset.size = 0 /\ ret = <<>>
        /\ hset.free_pairs = 0 /\ hset.free_quads = 0 /\ hset.pairs = 0 /\ hset.quads = 0
    BY <1>1, <1>2 DEF Init
  <1>5. hset \in Table(m)
    <2>1. [i \in 0 .. m - 1 |-> <<>>] \in [0 .. m - 1 -> Seq(Objs)]
      OBVIOUS
    <2> QED
      BY <1>1, <1>2, <2>1 DEF Init, Table
  <1>6. hset = Emptied(hset, m)
    BY <1>4, <1>5 DEF Emptied, Table
  <1>7. /\ Chained(hset, m) /\ Within(hset, m) = {}
        /\ PairSlack(hset, m) = hset.pairs - hset.free_pairs
        /\ QuadSlack(hset, m) = hset.quads - hset.free_quads
    BY <1>3, <1>5, <1>6, EmptiedValue
  <1>8. PairSlack(hset, m) = 0 /\ QuadSlack(hset, m) = 0
    BY <1>4, <1>7
  <1>9. hset.size = Cardinality(Within(hset, m))
    BY <1>4, <1>7, FS_EmptySet
  <1>10. InLimits(0, m)
    BY <1>2, <1>3 DEF InLimits
  <1>11. Fits(hset, m)
    BY <1>3, <1>4, <1>5, <1>7, <1>8, <1>9, <1>10 DEF Fits, Sound
  <1> QED
    BY <1>2, <1>4, <1>7, <1>11 DEF HsetInv, Results

LEMMA HsetSteps ==
    ASSUME NEW m, Fits(hset, m), Next
    PROVE  \E o \in Objs : \E c : Allocates(hset', c, hset, m, o, ret') \/ Disclaims(hset', c, hset, m, o, ret')
  BY HallocAllocates, DisclaimDisclaims DEF Next

LEMMA HsetNext == HsetInv /\ [Next]_vars => HsetInv'
  <1>1. SUFFICES ASSUME HsetInv, [Next]_vars PROVE HsetInv'
    OBVIOUS
  <1>2. PICK m : Fits(hset, m)
    BY <1>1 DEF HsetInv
  <1>3. CASE Next
    <2>0. PICK o \in Objs :
            \E c : Allocates(hset', c, hset, m, o, ret') \/ Disclaims(hset', c, hset, m, o, ret')
      BY <1>2, <1>3, HsetSteps
    <2>1. PICK c : Allocates(hset', c, hset, m, o, ret') \/ Disclaims(hset', c, hset, m, o, ret')
      BY <2>0
    <2>2. Fits(hset', c)
      BY <2>1 DEF Allocates, Disclaims
    <2>3. ret' \in Results
      <3>1. ret' = <<o, "found">> \/ ret' = <<o, "inserted">> \/ ret' = <<o, "disclaimed">>
        BY <2>1 DEF Allocates, Disclaims
      <3> QED
        BY <3>1 DEF Results
    <2> QED
      BY <2>2, <2>3 DEF HsetInv
  <1>4. CASE UNCHANGED vars
    BY <1>1, <1>4 DEF vars, HsetInv
  <1> QED
    BY <1>1, <1>3, <1>4

\* The set is always sound, for a number of buckets which is a power of two
\* and within the limits of the load.
THEOREM HsetInvariant == Spec => []HsetInv
  BY HsetInit, HsetNext, PTL DEF Spec

\* What a sound set is made of.
LEMMA NodesCounted ==
    ASSUME NEW m, NEW h, Fits(h, m)
    PROVE  /\ Total([i \in DOMAIN h.arr |-> PairsIn(h.arr[i])]) \in Nat
           /\ Total([i \in DOMAIN h.arr |-> QuadsIn(h.arr[i])]) \in Nat
           /\ h.pairs = h.free_pairs + Total([i \in DOMAIN h.arr |-> PairsIn(h.arr[i])])
           /\ h.quads = h.free_quads + Total([i \in DOMAIN h.arr |-> QuadsIn(h.arr[i])])
  <1>1. m \in Nat /\ h \in Table(m) /\ DOMAIN h.arr = 0 .. m - 1
    BY FitsFacts
  <1>2. PICK f, g : /\ f = [i \in DOMAIN h.arr |-> PairsIn(h.arr[i])]
                    /\ g = [i \in DOMAIN h.arr |-> QuadsIn(h.arr[i])]
    OBVIOUS
  <1>3. \A i \in 0 .. m - 1 : PairsIn(h.arr[i]) \in Nat /\ QuadsIn(h.arr[i]) \in Nat
    <2>1. \A i \in 0 .. m - 1 : h.arr[i] \in Seq(Objs)
      BY <1>1 DEF Table
    <2> QED
      BY <2>1, LinkNodesType
  <1>4. f \in [0 .. m - 1 -> Nat] /\ g \in [0 .. m - 1 -> Nat]
    BY <1>1, <1>2, <1>3
  <1>5. Total(f) = Sums(f)[m] /\ Total(g) = Sums(g)[m]
    <2>1. f \in [0 .. m - 1 -> Int] /\ g \in [0 .. m - 1 -> Int]
      BY <1>4
    <2> QED
      BY <1>1, <2>1, SumsValue
  <1>6. Total(f) \in Nat /\ Total(g) \in Nat
    <2>1. m \in 0 .. m
      BY <1>1
    <2> QED
      BY <1>1, <1>4, <1>5, <2>1, SumsNatural
  <1>7. PairSlack(h, m) = 0 /\ QuadSlack(h, m) = 0
    BY DEF Fits, Sound
  <1>8. (h.pairs - h.free_pairs) - Total(f) = 0 /\ (h.quads - h.free_quads) - Total(g) = 0
    BY <1>2, <1>5, <1>7 DEF PairSlack, QuadSlack, PairSums, QuadSums
  <1>9. h.pairs \in Int /\ h.free_pairs \in Nat /\ h.quads \in Int /\ h.free_quads \in Nat
    BY <1>1 DEF Table
  <1>10. h.pairs = h.free_pairs + Total(f) /\ h.quads = h.free_quads + Total(g)
    <2>1. PICK a, b : a = Total(f) /\ b = Total(g)
      OBVIOUS
    <2>2. a \in Nat /\ b \in Nat
      BY <1>6, <2>1
    <2>3. h.pairs - h.free_pairs = a
      BY <1>8, <1>9, <2>1, <2>2
    <2>4. h.quads - h.free_quads = b
      BY <1>8, <1>9, <2>1, <2>2
    <2> QED
      BY <1>9, <2>1, <2>2, <2>3, <2>4
  <1> QED
    BY <1>2, <1>6, <1>10

LEMMA MembersWithin ==
    ASSUME NEW m, NEW h, Fits(h, m)
    PROVE  UNION {ToSet(h.arr[i]) : i \in DOMAIN h.arr} = Within(h, m)
  <1>1. DOMAIN h.arr = 0 .. m - 1
    BY FitsFacts
  <1> QED
    BY <1>1 DEF Within

LEMMA InvTypeOK == HsetInv => TypeOK
  <1>1. SUFFICES ASSUME HsetInv PROVE TypeOK
    OBVIOUS
  <1>2. PICK m : Fits(hset, m)
    BY <1>1 DEF HsetInv
  <1>3. hset \in Table(m) /\ Mask(hset) = m - 1 /\ Slots = 0 .. m - 1
    BY <1>2, FitsFacts DEF Slots
  <1>4. \A i \in Slots : hset.arr[i] \in Seq(Objs)
    BY <1>3 DEF Table
  <1>5. hset.size \in Nat /\ hset.free_pairs \in Nat /\ hset.free_quads \in Nat
    BY <1>3 DEF Table
  <1>6. hset.pairs \in Nat /\ hset.quads \in Nat
    <2>1. PICK a, b : /\ a = Total([i \in DOMAIN hset.arr |-> PairsIn(hset.arr[i])])
                      /\ b = Total([i \in DOMAIN hset.arr |-> QuadsIn(hset.arr[i])])
      OBVIOUS
    <2>2. a \in Nat /\ b \in Nat /\ hset.pairs = hset.free_pairs + a /\ hset.quads = hset.free_quads + b
      BY <1>2, <2>1, NodesCounted
    <2> QED
      BY <1>5, <2>2
  <1>7. ret \in {<<>>} \cup (Objs \X {"found", "inserted", "disclaimed"})
    BY <1>1 DEF HsetInv, Results
  <1> QED
    BY <1>3, <1>4, <1>5, <1>6, <1>7 DEF TypeOK

LEMMA InvPlaced == HsetInv => Placed
  <1>1. SUFFICES ASSUME HsetInv PROVE Placed
    OBVIOUS
  <1>2. PICK m : Fits(hset, m)
    BY <1>1 DEF HsetInv
  <1>3. /\ m \in Nat /\ m > 0 /\ hset \in Table(m) /\ Chained(hset, m) /\ Slots = 0 .. m - 1
        /\ hset.size = Cardinality(Within(hset, m))
    BY <1>2, FitsFacts DEF Slots
  <1>4. Members = Within(hset, m)
    BY <1>2, MembersWithin DEF Members, Slots
  <1>5. ASSUME NEW i \in Slots, NEW p \in DOMAIN hset.arr[i] PROVE Slot(hset, hset.arr[i][p]) = i
    <2>1. hset.arr[i] \in Seq(Objs)
      BY <1>3 DEF Table
    <2>2. hset.arr[i][p] \in ToSet(hset.arr[i]) /\ hset.arr[i][p] \in Objs
      BY <2>1 DEF ToSet
    <2>3. Hash[hset.arr[i][p]] % m = i
      BY <1>3, <2>2 DEF Chained
    <2> QED
      BY <1>3, <2>2, <2>3, SlotValue
  <1>6. Total([i \in Slots |-> Len(hset.arr[i])]) = Cardinality(Within(hset, m))
    <2>1. PICK f : f = [i \in DOMAIN hset.arr |-> Len(hset.arr[i])]
      OBVIOUS
    <2>2. m \in 0 .. m
      BY <1>3
    <2>3. Cardinality(Within(hset, m)) = Sums(f)[m]
      BY <1>3, <2>1, <2>2, WithinCounted
    <2>4. f \in [0 .. m - 1 -> Int]
      <3>1. \A i \in 0 .. m - 1 : Len(hset.arr[i]) \in Int
        BY <1>3 DEF Table
      <3> QED
        BY <1>3, <2>1, <3>1 DEF Slots
    <2>5. Total(f) = Sums(f)[m]
      BY <1>3, <2>4, SumsValue
    <2> QED
      BY <2>1, <2>3, <2>5 DEF Slots
  <1> QED
    BY <1>3, <1>4, <1>5, <1>6 DEF Placed

LEMMA InvNodesAccounted == HsetInv => NodesAccounted
  BY NodesCounted DEF HsetInv, NodesAccounted, Slots

LEMMA InvLoadBounded == HsetInv => LoadBounded
  <1>1. SUFFICES ASSUME HsetInv PROVE LoadBounded
    OBVIOUS
  <1>2. PICK m : Fits(hset, m)
    BY <1>1 DEF HsetInv
  <1>3. m \in Nat /\ Mask(hset) = m - 1 /\ hset.size \in Nat
    BY <1>2, FitsFacts
  <1>4. InLimits(hset.size, m)
    BY <1>2 DEF Fits
  <1> QED
    BY <1>3, <1>4 DEF InLimits, LoadBounded, NotSparse, NotDense,
       MIN_LOAD_DENOM, MIN_LOAD_NUMER, MAX_LOAD_DENOM, MAX_LOAD_NUMER

-----------------------------------------------------------------------------
(* A resizing lasts.                                                       *)

LEMMA GrowthLasts ==
    ASSUME NEW s \in Nat, NEW c, Capacity(c), InLimits(s, c), Overloaded(s + 1, c - 1)
    PROVE  /\ \A n \in 0 .. s + 1 : 2 * n > s + 1 => ~Underloaded(n, 2 * c - 1)
           /\ \A n \in 0 .. 2 * (s + 1) - 2 : ~Overloaded(n, 2 * c - 1)
           /\ ~Overloaded(s + 1, 2 * c - 1)
  <1>1. c \in Nat /\ c >= 2
    BY CapacityFacts
  <1>2. (s + 1) * 2 > (c - 1) * 3 /\ s * 2 <= (c - 1) * 3 + 1
    BY DEF Overloaded, MAX_LOAD_DENOM, MAX_LOAD_NUMER, InLimits
  <1>3. ASSUME NEW n \in 0 .. s + 1, 2 * n > s + 1 PROVE ~Underloaded(n, 2 * c - 1)
    BY <1>1, <1>2, <1>3 DEF Underloaded, MIN_LOAD_DENOM, MIN_LOAD_NUMER
  <1>4. ASSUME NEW n \in 0 .. 2 * (s + 1) - 2 PROVE ~Overloaded(n, 2 * c - 1)
    BY <1>1, <1>2 DEF Overloaded, MAX_LOAD_DENOM, MAX_LOAD_NUMER
  <1>5. ~Overloaded(s + 1, 2 * c - 1)
    BY <1>1, <1>2 DEF Overloaded, MAX_LOAD_DENOM, MAX_LOAD_NUMER
  <1> QED
    BY <1>3, <1>4, <1>5

LEMMA ShrinkingLasts ==
    ASSUME NEW s \in Nat, NEW n \in 0 .. s, 2 * n > s
    PROVE  ~Underloaded(n, ShrunkCap(s) - 1)
  <1>1. PICK k : k = (s * 2) \div 3
    OBVIOUS
  <1>2. k \in Nat /\ 3 * k <= 2 * s
    BY <1>1
  <1>3. PICK p : p = Exp2Ceil(k)
    OBVIOUS
  <1>4. ShrunkCap(s) = IF p < MIN_CAPACITY THEN MIN_CAPACITY ELSE p
    BY <1>1, <1>3 DEF ShrunkCap, MAX_LOAD_DENOM, MAX_LOAD_NUMER
  <1>5. MIN_CAPACITY \in Nat /\ MIN_CAPACITY >= 2
    BY CapacityFacts
  <1>6. CASE k = 0
    <2>1. p = 0
      BY <1>3, <1>6 DEF Exp2Ceil
    <2>2. ShrunkCap(s) = MIN_CAPACITY
      BY <1>4, <1>5, <2>1
    <2> QED
      BY <1>5, <2>2 DEF Underloaded
  <1>7. CASE k > 0
    <2>1. PICK j \in Nat : p = Exp2[j] /\ p >= k /\ p < 2 * k
      BY <1>2, <1>3, <1>7, Exp2CeilValue
    <2>2. p \in Nat
      BY <2>1, Exp2Value
    <2>3. CASE p < MIN_CAPACITY
      BY <1>4, <1>5, <2>3 DEF Underloaded
    <2>4. CASE ~(p < MIN_CAPACITY)
      <3>1. ShrunkCap(s) = p
        BY <1>4, <2>4
      <3>2. n * 8 >= (p - 1) * 3
        BY <1>2, <2>1, <2>2
      <3> QED
        BY <2>2, <3>1, <3>2 DEF Underloaded, MIN_LOAD_DENOM, MIN_LOAD_NUMER
    <2> QED
      BY <2>3, <2>4
  <1> QED
    BY <1>2, <1>6, <1>7

\* What ResizesLast says of a step from a set of m buckets and s objects to one
\* of c buckets and r objects.
Lasting(c, r, m, s) ==
    /\ c # m => \A n \in 0 .. r : 2 * n > r => ~Underloaded(n, c - 1)
    /\ c > m => \A n \in 0 .. 2 * r - 2 : ~Overloaded(n, c - 1)
    /\ r > s => ~Overloaded(r, c - 1)

LEMMA InsertionLasts ==
    ASSUME NEW s \in Nat, NEW m, Capacity(m), InLimits(s, m),
           NEW c, c = CapAfterInsert(s + 1, m - 1)
    PROVE  Lasting(c, s + 1, m, s)
  <1>1. m \in Nat /\ m >= 2 /\ c = IF Overloaded(s + 1, m - 1) THEN 2 * m ELSE m
    BY CapacityFacts, GrowthInLimits
  <1>2. CASE Overloaded(s + 1, m - 1)
    <2>1. c = 2 * m
      BY <1>1, <1>2
    <2> QED
      BY <1>2, <2>1, GrowthLasts DEF Lasting
  <1>3. CASE ~Overloaded(s + 1, m - 1)
    BY <1>1, <1>3 DEF Lasting
  <1> QED
    BY <1>2, <1>3

LEMMA ErasureLasts ==
    ASSUME NEW s \in Nat, NEW m, Capacity(m), InLimits(s + 1, m),
           NEW c, c = CapAfterErase(s, m - 1)
    PROVE  Lasting(c, s, m, s + 1)
  <1>1. m \in Nat /\ m >= 2
    BY CapacityFacts
  <1>2. CASE Underloaded(s, m - 1)
    <2>1. c = ShrunkCap(s)
      BY <1>2 DEF CapAfterErase
    <2>2. c < m /\ c \in Nat
      BY <1>2, <2>1, ShrinkingInLimits, CapacityFacts
    <2>3. \A n \in 0 .. s : 2 * n > s => ~Underloaded(n, c - 1)
      BY <2>1, ShrinkingLasts
    <2> QED
      BY <1>1, <2>2, <2>3 DEF Lasting
  <1>3. CASE ~Underloaded(s, m - 1)
    <2>1. c = m
      BY <1>1, <1>3 DEF CapAfterErase
    <2> QED
      BY <1>1, <2>1 DEF Lasting
  <1> QED
    BY <1>2, <1>3

LEMMA StepLasts ==
    HsetInv /\ [Next]_vars =>
        \/ UNCHANGED hset
        \/ \E m, c : /\ m \in Nat /\ c \in Nat /\ Mask(hset) = m - 1 /\ Mask(hset)' = c - 1
                    /\ Lasting(c, hset'.size, m, hset.size)
  <1>1. SUFFICES ASSUME HsetInv, Next, hset' # hset
                 PROVE  \E m, c : /\ m \in Nat /\ c \in Nat /\ Mask(hset) = m - 1 /\ Mask(hset)' = c - 1
                                 /\ Lasting(c, hset'.size, m, hset.size)
    BY DEF vars
  <1>2. PICK m : Fits(hset, m)
    BY <1>1 DEF HsetInv
  <1>3. PICK o \in Objs :
          \E c : Allocates(hset', c, hset, m, o, ret') \/ Disclaims(hset', c, hset, m, o, ret')
    BY <1>1, <1>2, HsetSteps
  <1>4. PICK c : Allocates(hset', c, hset, m, o, ret') \/ Disclaims(hset', c, hset, m, o, ret')
    BY <1>3
  <1>5. Mask(hset) = m - 1 /\ hset.size \in Nat /\ m \in Nat /\ Capacity(m) /\ InLimits(hset.size, m)
    BY <1>2, FitsFacts DEF Fits
  <1>6. Mask(hset)' = c - 1 /\ c \in Nat
    <2>1. Fits(hset', c)
      BY <1>4 DEF Allocates, Disclaims
    <2>2. PICK g : g = hset'
      OBVIOUS
    <2>3. Mask(g) = c - 1 /\ c \in Nat
      BY <2>1, <2>2, FitsFacts
    <2> QED
      BY <2>2, <2>3 DEF Mask
  <1>7. Lasting(c, hset'.size, m, hset.size)
    <2>1. CASE Allocates(hset', c, hset, m, o, ret')
      <3>1. hset'.size = hset.size + 1 /\ c = CapAfterInsert(hset.size + 1, m - 1)
        BY <1>1, <2>1 DEF Allocates
      <3> QED
        BY <1>5, <3>1, InsertionLasts
    <2>2. CASE Disclaims(hset', c, hset, m, o, ret')
      <3>1. hset.size > 0 /\ hset'.size = hset.size - 1 /\ c = CapAfterErase(hset.size - 1, m - 1)
        BY <2>2 DEF Disclaims
      <3>2. PICK s : s = hset.size - 1
        OBVIOUS
      <3>3. s \in Nat /\ hset.size = s + 1 /\ hset'.size = s /\ c = CapAfterErase(s, m - 1)
        BY <1>5, <3>1, <3>2
      <3>4. InLimits(s + 1, m)
        BY <1>5, <3>3
      <3> QED
        BY <1>5, <3>3, <3>4, ErasureLasts
    <2> QED
      BY <1>4, <2>1, <2>2
  <1> QED
    BY <1>5, <1>6, <1>7

\* Growing and shrinking do not chase each other, and an insertion leaves the
\* set as sparse as _hset_validate asserts.
THEOREM ResizingsLast == Spec => ResizesLast
  <1>1. HsetInv /\ [Next]_vars =>
          [ /\ Mask(hset)' # Mask(hset) =>
                   \A n \in 0 .. hset'.size : 2 * n > hset'.size => ~Underloaded(n, Mask(hset)')
            /\ Mask(hset)' > Mask(hset) =>
                   \A n \in 0 .. 2 * hset'.size - 2 : ~Overloaded(n, Mask(hset)')
            /\ hset'.size > hset.size => ~Overloaded(hset'.size, Mask(hset)') ]_vars
    <2>1. SUFFICES ASSUME HsetInv, [Next]_vars
                   PROVE  /\ Mask(hset)' # Mask(hset) =>
                                 \A n \in 0 .. hset'.size : 2 * n > hset'.size => ~Underloaded(n, Mask(hset)')
                          /\ Mask(hset)' > Mask(hset) =>
                                 \A n \in 0 .. 2 * hset'.size - 2 : ~Overloaded(n, Mask(hset)')
                          /\ hset'.size > hset.size => ~Overloaded(hset'.size, Mask(hset)')
      OBVIOUS
    <2>2. PICK k, l : k = Mask(hset) /\ l = Mask(hset)'
      OBVIOUS
    <2>3. CASE UNCHANGED hset
      <3>1. l = k /\ hset'.size = hset.size
        BY <2>2, <2>3 DEF Mask
      <3>2. k \in Int /\ hset.size \in Nat
        <4>1. PICK m : Fits(hset, m)
          BY <2>1 DEF HsetInv
        <4> QED
          BY <2>2, <4>1, FitsFacts
      <3> QED
        BY <2>2, <3>1, <3>2
    <2>4. CASE \E m, c : /\ m \in Nat /\ c \in Nat /\ Mask(hset) = m - 1 /\ Mask(hset)' = c - 1
                        /\ Lasting(c, hset'.size, m, hset.size)
      <3>1. PICK m, c : /\ m \in Nat /\ c \in Nat /\ Mask(hset) = m - 1 /\ Mask(hset)' = c - 1
                        /\ Lasting(c, hset'.size, m, hset.size)
        BY <2>4
      <3>2. (l # k => c # m) /\ (l > k => c > m) /\ l = c - 1
        BY <2>2, <3>1
      <3> QED
        BY <2>2, <3>1, <3>2 DEF Lasting
    <2> QED
      BY <2>1, <2>3, <2>4, StepLasts
  <1> QED
    BY <1>1, HsetInvariant, PTL DEF Spec, ResizesLast

\* The type invariant: in particular, no node is counted that malloc has not
\* handed out, and the buckets are those of the mask.
THEOREM TypeCorrect == Spec => []TypeOK
  BY HsetInvariant, InvTypeOK, PTL

\* Every object is in the bucket of its hash and nowhere else, and is counted,
\* through any growing and shrinking: what _hset_validate asserts.
THEOREM ObjectsPlaced == Spec => []Placed
  BY HsetInvariant, InvPlaced, PTL

\* The merges, pops and frees of chain nodes neither leak a node nor use one
\* twice, whatever the chains' lengths.
THEOREM NodesKept == Spec => []NodesAccounted
  BY HsetInvariant, InvNodesAccounted, PTL

\* The load is between its limits between operations.
THEOREM LoadKept == Spec => []LoadBounded
  BY HsetInvariant, InvLoadBounded, PTL

-----------------------------------------------------------------------------
(* The refinement.                                                         *)

LEMMA AbstractStep == HsetInv /\ [Next]_vars => [Abstract!Next]_<<Members, ret>>
  <1>1. SUFFICES ASSUME HsetInv, [Next]_vars PROVE [Abstract!Next]_<<Members, ret>>
    OBVIOUS
  <1>2. PICK m : Fits(hset, m)
    BY <1>1 DEF HsetInv
  <1>3. CASE Next
    <2>0. PICK o \in Objs :
            \E c : Allocates(hset', c, hset, m, o, ret') \/ Disclaims(hset', c, hset, m, o, ret')
      BY <1>2, <1>3, HsetSteps
    <2>1. PICK c : Allocates(hset', c, hset, m, o, ret') \/ Disclaims(hset', c, hset, m, o, ret')
      BY <2>0
    <2>2. Members = Within(hset, m)
      BY <1>2, MembersWithin DEF Members, Slots
    <2>3. Members' = Within(hset', c)
      <3>1. Fits(hset', c)
        BY <2>1 DEF Allocates, Disclaims
      <3>2. PICK g : g = hset'
        OBVIOUS
      <3>3. UNION {ToSet(g.arr[i]) : i \in DOMAIN g.arr} = Within(g, c)
        BY <3>1, <3>2, MembersWithin
      <3> QED
        BY <3>2, <3>3 DEF Members, Slots
    <2>4. CASE Allocates(hset', c, hset, m, o, ret')
      <3>1. Abstract!Alloc(o)
        BY <2>2, <2>3, <2>4 DEF Allocates, Abstract!Alloc
      <3>2. ret' # <<>>
        BY <2>4 DEF Allocates
      <3> QED
        BY <3>1, <3>2 DEF Abstract!Next
    <2>5. CASE Disclaims(hset', c, hset, m, o, ret')
      <3>1. Abstract!Disclaim(o)
        BY <2>2, <2>3, <2>5 DEF Disclaims, Abstract!Disclaim
      <3>2. ret' # <<>>
        BY <2>5 DEF Disclaims
      <3> QED
        BY <3>1, <3>2 DEF Abstract!Next
    <2> QED
      BY <2>1, <2>4, <2>5
  <1>4. CASE UNCHANGED vars
    BY <1>4 DEF vars, Members, Slots
  <1> QED
    BY <1>1, <1>3, <1>4

LEMMA AbstractInit == Init => Abstract!Init
  <1>1. SUFFICES ASSUME Init PROVE Abstract!Init
    OBVIOUS
  <1>2. Members = {}
    BY <1>1, HsetInit, MembersWithin DEF Members, Slots
  <1> QED
    BY <1>1, <1>2 DEF Init, Abstract!Init

\* Buckets, chains, free lists, growing and shrinking implement a set with one
\* object per key: cuexP_halloc_raw finds an object exactly when it has been
\* inserted and not been disclaimed since.
THEOREM HashSetImplemented == Spec => ImplementsHashSet
  BY HsetInvariant, AbstractInit, AbstractStep, PTL DEF Spec, ImplementsHashSet, Abstract!Spec
=============================================================================
