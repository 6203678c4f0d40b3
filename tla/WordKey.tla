------------------------------ MODULE WordKey ------------------------------
(***************************************************************************)
(* Keys of the binary tries of cucon/ucset.c and cucon/ucmap.c.  A key is  *)
(* a machine word that also names a span of words: the aligned block of    *)
(* twice the size of its lowest bit, of which the key is the middle.  The  *)
(* masks that the code computes from a key are that block.                 *)
(***************************************************************************)
EXTENDS Integers, Sequences, FiniteSets, SequencesExt

CONSTANT W              \* CUCONF_WIDTHOF_INTPTR_T, 64 in the build

WordCount == 2^W
UMAX == WordCount - 1
IMIN == 2^(W - 1)       \* INTPTR_MIN, as the unsigned word of the same bits
IMAX == IMIN - 1

\* The word read as a two's complement number.
Signed(k) == IF k >= IMIN THEN k - WordCount ELSE k
Unsigned(i) == i % WordCount

\* (key ^ (key - 1)) + 1; zero names all words.
Span(k) == IF k = 0 THEN WordCount
           ELSE 2 * CHOOSE b \in {2^i : i \in 0..(W - 1)} : k % b = 0 /\ k % (2 * b) # 0

SameSpan(k0, k1) == k0 \div Span(k0) = k1 \div Span(k0)
KeyMin(k) == k - (k % Span(k))
KeyMax(k) == KeyMin(k) + Span(k) - 1

\* The tightest key over k0 and k1, neither of which is over the other: the
\* middle of the least aligned block that holds both.
key_join(k0, k1) ==
    LET b == CHOOSE b \in {2^i : i \in 1..W} :
                 k0 \div b = k1 \div b /\ k0 \div (b \div 2) # k1 \div (b \div 2)
    IN  (k0 \div b) * b + b \div 2

\* The words of S in the unsigned and in the signed order.
Ascending(S) == SelectSeq([i \in 1..WordCount |-> i - 1], LAMBDA k : k \in S)
BySign(S) == SelectSeq([i \in 1..WordCount |-> Unsigned(i - 1 - IMIN)], LAMBDA k : k \in S)
TakeUpTo(s, max) == SelectSeq(s, LAMBDA k : k <= max)
DropUpTo(s, max) == SelectSeq(s, LAMBDA k : k > max)
=============================================================================
