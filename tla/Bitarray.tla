------------------------------ MODULE Bitarray ------------------------------
(***************************************************************************)
(* cucon/bitarray.c and cucon/bitarray_slice.c, arrays of bits in words    *)
(* and slices of them at any offset, with the functions on words and       *)
(* arrays of words of cu/word.c, cu/wordarr.c and cu/int.c.  A word is the *)
(* set of the numbers of its bits, and a Boolean function the number whose *)
(* bits are its values, as in cu/bool.h.                                   *)
(***************************************************************************)
EXTENDS Integers, Sequences, FiniteSets, FiniteSetsExt, SequencesExt

CONSTANTS
    WIDTH,                  \* CU_WORD_WIDTH
    MaxSize,                \* bound on the bits of an array
    Functions1, Functions2, \* the Boolean functions tried
    Other                   \* bits of another array

VARIABLES
    con,                    \* the array: size and words
    ref                     \* the bits of it, a sequence

AllBits == 0..(WIDTH - 1)
Not(w) == AllBits \ w
Xor(v, w) == (v \cup w) \ (v \cap w)
ShiftDown(w, n) == {b - n : b \in {c \in w : c >= n}}
ShiftUp(w, n) == {b + n : b \in w} \cap AllBits
WORD_MASK(n) == 0..(n - 1)

\* The arithmetic of words, which are numbers modulo 2^WIDTH.
NumberOf(w) == SumSet({2^b : b \in w})
WordOf(n) == {b \in AllBits : ((n % 2^WIDTH) \div 2^b) % 2 = 1}
MinusOne(w) == WordOf(NumberOf(w) - 1)

cu_bool1f_apply(f, x) == (f \div 2^x) % 2
cu_bool2f_apply(f, x, y) == (f \div 2^(x + 2 * y)) % 2
cu_bool2f_swap(f) == (f % 2) + 8 * (f \div 8) + 2 * ((f \div 4) % 2) + 4 * ((f \div 2) % 2)

cu_word_bitimg(f, w) ==
    IF f % 2 = 1 THEN (IF f \div 2 = 1 THEN AllBits ELSE Not(w))
    ELSE IF f \div 2 = 1 THEN w ELSE {}

\* The lower half of the functions, of which the others are the negations.
LowImage(f, v, w) ==
    CASE f = 0 -> {}
      [] f = 1 -> Not(v) \cap Not(w)
      [] f = 2 -> v \cap Not(w)
      [] f = 3 -> Not(w)
      [] f = 4 -> Not(v) \cap w
      [] f = 5 -> Not(v)
      [] f = 6 -> Xor(v, w)
      [] f = 7 -> Not(v \cap w)
cu_word_bitimg2(f, v, w) == IF f >= 8 THEN Not(LowImage(15 - f, v, w)) ELSE LowImage(f, v, w)

-----------------------------------------------------------------------------
(* cu/int.c: by halving shifts, by halves and by borrowing.                *)

RECURSIVE Covered(_, _), floor_log2(_, _)
Covered(w, shift) == IF shift >= WIDTH THEN w ELSE Covered(w \cup ShiftDown(w, shift), 2 * shift)
dcover(w) == Covered(w, 1)
ucover(w) == w \cup Not(MinusOne(w))
lzeros(w) == Not(w) \cap MinusOne(w)
uzeros(w) == Not(dcover(w))
bit_count(w) == Cardinality(w)
log2_lowbit(w) == bit_count(lzeros(w))

\* -1 for no bits, which ceil_log2 relies on.
floor_log2(w, width) ==
    LET half == width \div 2
    IN  IF width = 1 THEN (IF w = {} THEN -1 ELSE 0)
        ELSE IF \E b \in w : b >= half THEN floor_log2(ShiftDown(w, half), half) + half
        ELSE floor_log2(w, half)
ceil_log2(w) == floor_log2(MinusOne(w), WIDTH) + 1
exp2_ceil_log2(w) == WordOf(NumberOf(dcover(MinusOne(w))) + 1)

\* The lowest bit in which the words differ decides.
cu_word_rcmp(v, w) ==
    LET d == Xor(v, w)
        m == Xor(MinusOne(d), d)
        lower == NumberOf(v \cap m)
        upper == NumberOf(w \cap m)
    IN  IF lower < upper THEN -1 ELSE IF lower > upper THEN 1 ELSE 0

-----------------------------------------------------------------------------
(* cu/wordarr.c.  An array is a sequence of words; ptr is a number of      *)
(* words to skip, and what is read behind the end is anything, here 0.     *)

WordAt(arr, k) == IF k < Len(arr) THEN arr[k + 1] ELSE {}
Skewed(arr, ptr, offset, k) ==
    IF offset = 0 THEN WordAt(arr, ptr + k)
    ELSE ShiftDown(WordAt(arr, ptr + k), offset) \cup ShiftUp(WordAt(arr, ptr + k + 1), WIDTH - offset)

cu_wordarr_skewcopy_bitimg(f, count, src) ==
    [k \in 1..count |-> cu_word_bitimg(f, Skewed(src.arr, src.ptr, src.offset, k - 1))]

\* Functions of one argument are copies; with one offset 0 the function is
\* applied to the other way round.
cu_wordarr_skewcopy_bitimg2(f, count, src0, src1) ==
    LET word(s, k) == Skewed(s.arr, s.ptr, s.offset, k - 1)
    IN  CASE f \in {0, 15} -> cu_wordarr_skewcopy_bitimg(f % 4, count, src0)
          [] f \in {5, 10} -> cu_wordarr_skewcopy_bitimg(IF f = 5 THEN 1 ELSE 2, count, src0)
          [] f \in {3, 12} -> cu_wordarr_skewcopy_bitimg(IF f = 3 THEN 1 ELSE 2, count, src1)
          [] f \notin {0, 15, 5, 10, 3, 12} /\ src1.offset = 0 /\ src0.offset # 0 ->
                [k \in 1..count |-> cu_word_bitimg2(cu_bool2f_swap(f), word(src1, k), word(src0, k))]
          [] OTHER -> [k \in 1..count |-> cu_word_bitimg2(f, word(src0, k), word(src1, k))]

-----------------------------------------------------------------------------
(* bitarray.c                                                              *)

Cap(size) == (size + WIDTH - 1) \div WIDTH
Garbage(n, w) == [k \in 1..n |-> w]
Array(size, arr) == [size |-> size, arr |-> arr]
cucon_bitarray_init_fill(size, val) == Array(size, Garbage(Cap(size), IF val = 1 THEN AllBits ELSE {}))
cucon_bitarray_init_copy(ba) == Array(ba.size, SubSeq(ba.arr, 1, Cap(ba.size)))
cucon_bitarray_at(ba, i) == IF i % WIDTH \in ba.arr[(i \div WIDTH) + 1] THEN 1 ELSE 0
BitsOf(ba) == [i \in 1..ba.size |-> cucon_bitarray_at(ba, i - 1)]

Masked(w, mask, val) == IF val = 1 THEN w \cup mask ELSE w \ mask
cucon_bitarray_set_at(ba, i, val) == [ba EXCEPT !.arr[(i \div WIDTH) + 1] = Masked(@, {i % WIDTH}, val)]

cucon_bitarray_fill(ba, i, j, val) ==
    LET iword == i \div WIDTH
        jword == j \div WIDTH
        mask(k) == IF k < iword \/ k > jword THEN {}
                   ELSE (IF k = iword THEN (i % WIDTH)..(WIDTH - 1) ELSE AllBits)
                        \cap (IF k = jword THEN WORD_MASK(j % WIDTH) ELSE AllBits)
    IN  [ba EXCEPT !.arr = [n \in DOMAIN @ |-> Masked(@[n], mask(n - 1), val)]]

\* The memory behind what is copied is not initialised: g is what its words hold.
bitarray_realloc(ba, cap, size, g) ==
    LET copied == Cap(Min({size, ba.size}))
    IN  SubSeq(ba.arr, 1, copied) \o Garbage(cap - copied, g)

NewCap(how, old, min) ==
    CASE how = "gp" -> IF min > old THEN Max({min, 2 * old}) ELSE IF min * 2 < old THEN min ELSE old
      [] how = "gpmax" -> IF min > old THEN Max({min, 2 * old}) ELSE old
      [] how = "exact" -> min
      [] how = "exactmax" -> Max({min, old})
cucon_bitarray_resize(how, ba, size, g) ==
    LET cap == NewCap(how, Len(ba.arr), Cap(size))
    IN  Array(size, IF cap = Len(ba.arr) THEN ba.arr ELSE bitarray_realloc(ba, cap, size, g))

cucon_bitarray_resize_fill(how, ba, size, val, g) ==
    LET new == cucon_bitarray_resize(how, ba, size, g)
    IN  IF ba.size < size THEN cucon_bitarray_fill(new, ba.size, size, val) ELSE new

\* An element that the array has already is made its last one.
cucon_bitarray_resize_set_at(ba, i, val, set, g) ==
    cucon_bitarray_set_at(cucon_bitarray_resize_fill("gp", ba, i + 1, val, g), i, set)

cucon_bitarray_eq(ba0, ba1) ==
    LET full == ba0.size \div WIDTH
        mask == WORD_MASK(ba0.size % WIDTH)
    IN  /\ ba0.size = ba1.size
        /\ \A k \in 1..full : ba0.arr[k] = ba1.arr[k]
        /\ mask = {} \/ ba0.arr[full + 1] \cap mask = ba1.arr[full + 1] \cap mask

\* A partial last word is compared with what is behind the elements in it.
cucon_bitarray_cmp(ba0, ba1) ==
    LET differing == {k \in 1..Cap(Min({ba0.size, ba1.size})) : ba0.arr[k] # ba1.arr[k]}
    IN  IF differing # {} THEN cu_word_rcmp(ba0.arr[Min(differing)], ba1.arr[Min(differing)])
        ELSE IF ba0.size < ba1.size THEN -1 ELSE IF ba0.size > ba1.size THEN 1 ELSE 0

\* The words' bits that are looked for; a first word that is not tried from its
\* bit 0 is tried for ones, and if it has some below the start for those too.
FirstIn(size, words, start) ==
    LET n == Cap(size)
        inside(r) == IF r >= size THEN -1 ELSE r
        from == start \div WIDTH
        l == start % WIDTH
        i == IF l = 0 THEN from ELSE from + 1
        found == {k \in i..(n - 1) : words[k + 1] # {}}
    IN  IF l # 0 /\ words[from + 1] # {}
        THEN inside((from * WIDTH) + log2_lowbit(ShiftDown(words[from + 1], l)) + l)
        ELSE IF found # {} THEN inside((Min(found) * WIDTH) + log2_lowbit(words[Min(found) + 1]))
        ELSE -1
Sought(w, val) == IF val = 1 THEN w ELSE Not(w)
cucon_bitarray_find(ba, start, val) ==
    FirstIn(ba.size, [k \in DOMAIN ba.arr |->
        IF start % WIDTH # 0 /\ k = (start \div WIDTH) + 1 THEN ba.arr[k] ELSE Sought(ba.arr[k], val)], start)
cucon_bitarray_find2(ba0, ba1, start, val0, val1) ==
    LET size == Min({ba0.size, ba1.size})
    IN  FirstIn(size, [k \in 1..Cap(size) |-> Sought(ba0.arr[k], val0) \cap Sought(ba1.arr[k], val1)], start)

cucon_bitarray_update_img_bool1f(f, ba) ==
    [ba EXCEPT !.arr = cu_wordarr_skewcopy_bitimg(f, Cap(ba.size), [arr |-> @, ptr |-> 0, offset |-> 0])
                       \o SubSeq(@, Cap(ba.size) + 1, Len(@))]
cucon_bitarray_img_bool2f(f, ba0, ba1) ==
    LET size == Min({ba0.size, ba1.size})
        from(ba) == [arr |-> ba.arr, ptr |-> 0, offset |-> 0]
    IN  Array(size, cu_wordarr_skewcopy_bitimg2(f, Cap(size), from(ba0), from(ba1)))

-----------------------------------------------------------------------------
(* bitarray_slice.c: a partial first word, full words and a partial last   *)
(* word.  A slice is inside one word if first_width is above its size.     *)

cucon_bitarray_slice_init(ba, i, j) ==
    [arr |-> ba.arr, ptr |-> i \div WIDTH, offset |-> i % WIDTH, size |-> j - i]
cucon_bitarray_slice_init_sub(sl, i, j) ==
    LET k == sl.offset + i
    IN  [sl EXCEPT !.ptr = @ + (k \div WIDTH), !.offset = k % WIDTH, !.size = j - i]

FirstWidth(sl) == IF sl.offset = 0 THEN 0 ELSE WIDTH - sl.offset
Rest(sl) == Max({0, sl.size - FirstWidth(sl)})
SliceMask(sl, k) ==
    LET n == IF sl.offset = 0 THEN k ELSE k - 1
        full == Rest(sl) \div WIDTH
    IN  IF k < 0 THEN {}
        ELSE IF n < 0 THEN Not(WORD_MASK(sl.offset)) \cap WORD_MASK(Min({WIDTH, sl.offset + sl.size}))
        ELSE IF n < full THEN AllBits
        ELSE IF n = full THEN WORD_MASK(Rest(sl) % WIDTH)
        ELSE {}

cucon_bitarray_slice_fill(dst, val) ==
    [n \in DOMAIN dst.arr |-> Masked(dst.arr[n], SliceMask(dst, n - 1 - dst.ptr), val)]
cucon_bitarray_slice_update_not(dst) ==
    [n \in DOMAIN dst.arr |-> Xor(dst.arr[n], SliceMask(dst, n - 1 - dst.ptr))]
cucon_bitarray_slice_update_bool1f(f, dst) ==
    CASE f = 2 -> dst.arr
      [] f \in {0, 3} -> cucon_bitarray_slice_fill(dst, f % 2)
      [] f = 1 -> cucon_bitarray_slice_update_not(dst)

read_bits(width, sl) ==
    ShiftDown(WordAt(sl.arr, sl.ptr), sl.offset)
    \cup (IF sl.offset + width > WIDTH THEN ShiftUp(WordAt(sl.arr, sl.ptr + 1), WIDTH - sl.offset) ELSE {})
Moved(sl, width) ==
    IF sl.offset + width >= WIDTH THEN [sl EXCEPT !.ptr = @ + 1, !.offset = @ + width - WIDTH]
    ELSE [sl EXCEPT !.offset = @ + width]

\* The images of the three parts are put where the masks of the slice say.
Copied(dst, first, full, last) ==
    LET words == (IF dst.offset = 0 THEN << >> ELSE <<ShiftUp(first, dst.offset)>>) \o full \o <<last>>
        put(n, mask) == IF mask = {} THEN dst.arr[n]
                        ELSE (dst.arr[n] \ mask) \cup (words[n - dst.ptr] \cap mask)
    IN  [n \in DOMAIN dst.arr |-> put(n, SliceMask(dst, n - 1 - dst.ptr))]

AfterFirst(dst, src) == IF dst.offset = 0 THEN src ELSE Moved(src, FirstWidth(dst))
AfterFull(dst, src) == [AfterFirst(dst, src) EXCEPT !.ptr = @ + (Rest(dst) \div WIDTH)]
cucon_bitarray_slice_copy_bool1f(f, dst, src) ==
    Copied(dst, cu_word_bitimg(f, read_bits(FirstWidth(dst), src)),
           cu_wordarr_skewcopy_bitimg(f, Rest(dst) \div WIDTH, AfterFirst(dst, src)),
           cu_word_bitimg(f, read_bits(Rest(dst) % WIDTH, AfterFull(dst, src))))
cucon_bitarray_slice_copy_bool2f(f, dst, src0, src1) ==
    LET image(width, s0, s1) == cu_word_bitimg2(f, read_bits(width, s0), read_bits(width, s1))
    IN  Copied(dst, image(FirstWidth(dst), src0, src1),
               cu_wordarr_skewcopy_bitimg2(f, Rest(dst) \div WIDTH, AfterFirst(dst, src0), AfterFirst(dst, src1)),
               image(Rest(dst) % WIDTH, AfterFull(dst, src0), AfterFull(dst, src1)))
-----------------------------------------------------------------------------
Bit == {0, 1}
Init == \E n \in 0..MaxSize, val \in Bit :
            con = cucon_bitarray_init_fill(n, val) /\ ref = [i \in 1..n |-> val]

Positions == 0..(con.size - 1)
SetAt == \E i \in Positions, val \in Bit :
            con' = cucon_bitarray_set_at(con, i, val) /\ ref' = [ref EXCEPT ![i + 1] = val]

Resize == \E how \in {"gp", "gpmax", "exact", "exactmax"}, n \in 0..MaxSize, g \in {{}, AllBits} :
            /\ con' = cucon_bitarray_resize(how, con, n, g)
            \* The new elements are whatever was in their memory.
            /\ ref' = [i \in 1..n |-> IF i <= con.size THEN ref[i] ELSE cucon_bitarray_at(con', i - 1)]

Extended(n, val) == [i \in 1..n |-> IF i <= con.size THEN ref[i] ELSE val]
ResizeFill == \E how \in {"gp", "exact"}, n \in 0..MaxSize, val \in Bit, g \in {{}, AllBits} :
            /\ con' = cucon_bitarray_resize_fill(how, con, n, val, g)
            /\ ref' = Extended(n, val)
ResizeSetAt == \E i \in 0..(MaxSize - 1), val, set \in Bit, g \in {{}, AllBits} :
            /\ con' = cucon_bitarray_resize_set_at(con, i, val, set, g)
            /\ ref' = [Extended(i + 1, val) EXCEPT ![i + 1] = set]

UpdateAll == \E f \in Functions1 :
            /\ con' = cucon_bitarray_update_img_bool1f(f, con)
            /\ ref' = [i \in DOMAIN ref |-> cu_bool1f_apply(f, ref[i])]

\* Slices of the array are changed, some from slices of another one.
Slices == {s \in (0..con.size) \X (0..con.size) : s[1] <= s[2]}
Changed(s, New(_)) == [i \in DOMAIN ref |-> IF i \in (s[1] + 1)..s[2] THEN New(i) ELSE ref[i]]
OtherArray == Array(Len(Other), [k \in 1..Cap(Len(Other)) |->
                {b \in AllBits : LET i == ((k - 1) * WIDTH) + b + 1 IN i <= Len(Other) /\ Other[i] = 1}])
Source(from, s) ==
    cucon_bitarray_slice_init_sub(cucon_bitarray_slice_init(OtherArray, 1, Len(Other)), from, from + s[2] - s[1])
Sources(s) == 0..Min({WIDTH - 1, Len(Other) - 1 - (s[2] - s[1])})

Fill == \E s \in Slices, val \in Bit :
            con' = cucon_bitarray_fill(con, s[1], s[2], val) /\ ref' = Changed(s, LAMBDA i : val)
UpdateSlice == \E s \in Slices, f \in Functions1 :
            /\ con' = [con EXCEPT !.arr = cucon_bitarray_slice_update_bool1f(f, cucon_bitarray_slice_init(con, s[1], s[2]))]
            /\ ref' = Changed(s, LAMBDA i : cu_bool1f_apply(f, ref[i]))
CopySlice == \E s \in Slices, f \in Functions1 : \E k \in Sources(s) :
            LET dst == cucon_bitarray_slice_init(con, s[1], s[2])
            IN  /\ con' = [con EXCEPT !.arr = cucon_bitarray_slice_copy_bool1f(f, dst, Source(k, s))]
                /\ ref' = Changed(s, LAMBDA i : cu_bool1f_apply(f, Other[k + 1 + i - s[1]]))
UpdateSlice2 == \E s \in Slices, f \in Functions2 : \E k \in Sources(s) :
            LET dst == cucon_bitarray_slice_init(con, s[1], s[2])
            IN  /\ con' = [con EXCEPT !.arr = cucon_bitarray_slice_copy_bool2f(f, dst, dst, Source(k, s))]
                /\ ref' = Changed(s, LAMBDA i : cu_bool2f_apply(f, ref[i], Other[k + 1 + i - s[1]]))
\* Both sources are slices of another array, at offsets of their own.
CopySlice2 == \E s \in Slices, f \in Functions2 : \E k, l \in Sources(s) :
            LET dst == cucon_bitarray_slice_init(con, s[1], s[2])
            IN  /\ con' = [con EXCEPT !.arr = cucon_bitarray_slice_copy_bool2f(f, dst, Source(k, s), Source(l, s))]
                /\ ref' = Changed(s, LAMBDA i : cu_bool2f_apply(f, Other[k + 1 + i - s[1]], Other[l + 1 + i - s[1]]))

Next ==
    \/ SetAt \/ Resize \/ ResizeFill \/ ResizeSetAt \/ UpdateAll
    \/ Fill \/ UpdateSlice \/ CopySlice \/ UpdateSlice2 \/ CopySlice2
-----------------------------------------------------------------------------
FirstOf(bits, start, P(_)) ==
    LET found == {i \in start..(Len(bits) - 1) : P(bits[i + 1])}
    IN  IF found = {} THEN -1 ELSE Min(found)

(* Whatever the array is resized to, filled with, copied to or mapped by,  *)
(* in whole or a slice at a time, across the borders of words and with     *)
(* anything in the memory behind its elements, its elements are those of   *)
(* the sequence it stands for.                                             *)
Elements == con.size = Len(ref) /\ BitsOf(con) = ref

(* Comparisons and searches from the beginning of a word are not misled by *)
(* what is behind the elements.                                            *)
Compared ==
    LET n == Min({con.size, Len(Other)})
    IN  /\ cucon_bitarray_eq(con, cucon_bitarray_init_copy(con))
        /\ cucon_bitarray_eq(con, OtherArray) <=> ref = Other
        /\ n % WIDTH = 0 => cucon_bitarray_cmp(con, OtherArray) =
                LET d == FirstOf([i \in 1..n |-> Xor({ref[i]}, {Other[i]})], 0, LAMBDA x : x # {})
                IN  IF d = -1 THEN (IF con.size = Len(Other) THEN 0 ELSE IF con.size < Len(Other) THEN -1 ELSE 1)
                    ELSE ref[d + 1] - Other[d + 1]
        /\ \A val \in Bit : \A k \in 0..(con.size \div WIDTH) :
                /\ cucon_bitarray_find(con, k * WIDTH, val) = FirstOf(ref, k * WIDTH, LAMBDA x : x = val)
                /\ cucon_bitarray_find2(con, OtherArray, k * WIDTH, val, 1) =
                       FirstOf([i \in 1..n |-> <<ref[i], Other[i]>>], k * WIDTH, LAMBDA x : x = <<val, 1>>)
        /\ \A f \in Functions2 : BitsOf(cucon_bitarray_img_bool2f(f, con, OtherArray)) =
                [i \in 1..n |-> cu_bool2f_apply(f, ref[i], Other[i])]

(* The functions on words by shifting, halving and borrowing give what     *)
(* they are named after, for every word; rounded up to a power of two, 0   *)
(* and what is above the highest one give 0.                               *)
WordFunctions ==
    \A n \in 0..(2^WIDTH - 1) :
        LET w == WordOf(n)
            top == IF w = {} THEN -1 ELSE Max(w)
            low == IF w = {} THEN WIDTH ELSE Min(w)
            up == {l \in 0..WIDTH : 2^l >= n}
        IN  /\ dcover(w) = 0..top /\ uzeros(w) = (top + 1)..(WIDTH - 1)
            /\ ucover(w) = low..(WIDTH - 1) /\ lzeros(w) = 0..(low - 1)
            /\ log2_lowbit(w) = low /\ floor_log2(w, WIDTH) = top
            /\ n # 0 => ceil_log2(w) = Min(up)
            /\ NumberOf(exp2_ceil_log2(w)) = IF n = 0 THEN 0 ELSE 2^Min(up) % 2^WIDTH
            /\ \A v \in {{}, {0}, AllBits, WordOf(5 * n)} : cu_word_rcmp(v, w) =
                   IF v = w THEN 0 ELSE IF Min(Xor(v, w)) \in v THEN 1 ELSE -1
=============================================================================
