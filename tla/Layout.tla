------------------------------- MODULE Layout -------------------------------
(***************************************************************************)
(* cuoo/layout.c: where the fields of a run-time type are put.  A layout   *)
(* is a sequence of words, the last of which is the layout object and the  *)
(* others its prefix; a word has the bits allocated in it, and the         *)
(* alignment and the widest hole of the words so far.                      *)
(***************************************************************************)
EXTENDS Integers, Sequences, FiniteSets, FiniteSetsExt, SequencesExt

CONSTANTS
    WORD, BYTE,             \* bits of a cu_word_t and of a byte
    Requests,               \* sizes and alignments of the fields packed
    Members,                \* sequences of requests, which make a layout of their own
    MaxFields               \* bound on the fields of a layout, over all alternatives

VARIABLES
    con,                    \* the layout
    ref                     \* alternatives of a union, each the fields put in it

NULL == << >>
Bits(at, size) == at..(at + size - 1)
Larger(m, n) == IF m > n THEN m ELSE n
bitoffset(lyo) == (Len(lyo) - 1) * WORD
max_free_width(lyo) == IF lyo = NULL THEN 0 ELSE Last(lyo).free
bitalign(lyo) == IF lyo = NULL THEN 1 ELSE Last(lyo).align

\* Whole bytes from the top of one and then single bits: a hole is counted
\* from where the field above it begins, if that is at a byte.
FreeBelow(mask, t) == t - (IF \E b \in mask : b < t THEN Max({b \in mask : b < t}) + 1 ELSE 0)
max_free_width_of(lbound, mask) ==
    Max({lbound} \cup {FreeBelow(mask, n * BYTE) : n \in 1..(WORD \div BYTE)})

layout_new_raw(prefix, mask, align) ==
    Append(prefix, [mask |-> mask, align |-> Larger(align, bitalign(prefix)),
                    free |-> max_free_width_of(max_free_width(prefix), mask)])

\* FIND_OFFSET: bits of the mask that are shifted out of the word are lost.
Mask(at, size) == Bits(at, size) \cap 0..(WORD - 1)
LocalOffset(mask, size, align) ==
    IF align = WORD THEN 0
    ELSE Min({k \in 0..(2 * WORD) : k % align = 0 /\ Mask(k, size) \cap mask = {}})

\* The first word that has room is replaced, and those after it rebuilt.
RECURSIVE layout_new_pack(_, _, _)
layout_new_pack(lyo, size, align) ==
    LET prefix == Front(lyo)
        this == Last(lyo)
        inner == layout_new_pack(prefix, size, align)
        k == LocalOffset(this.mask, size, align)
    IN  IF prefix # NULL /\ size <= max_free_width(prefix)
        THEN [lyo |-> layout_new_raw(inner.lyo, this.mask, Larger(this.align, align)), at |-> inner.at]
        ELSE [lyo |-> layout_new_raw(prefix, this.mask \cup Mask(k, size), Larger(this.align, align)),
              at |-> bitoffset(lyo) + k]

\* A field longer than a word fills whole words first; the offset given is that
\* of its last word.
WholeWords(size) == (size - 1) \div WORD
cuoo_layout_pack_bits(lyo, size, align) ==
    IF size = 0 THEN [lyo |-> lyo, at |-> 0]
    ELSE IF lyo # NULL /\ size <= max_free_width(lyo) THEN layout_new_pack(lyo, size, align)
    ELSE LET full == [n \in 1..WholeWords(size) |-> 0..(WORD - 1)]
             rest == Bits(0, size - (Len(full) * WORD))
             new == FoldLeft(LAMBDA l, mask : layout_new_raw(l, mask, align), lyo, Append(full, rest))
         IN  [lyo |-> new, at |-> bitoffset(new)]

cuoo_layout_bitsize(lyo) ==
    IF lyo = NULL THEN 0
    ELSE IF Len(lyo) > 1 THEN bitoffset(lyo) + WORD
    ELSE WORD - max_free_width(lyo)

cuoo_layout_product(lyo, member) ==
    IF lyo = NULL THEN [lyo |-> member, at |-> 0]
    ELSE IF cuoo_layout_bitsize(member) < max_free_width(lyo)
    THEN cuoo_layout_pack_bits(lyo, cuoo_layout_bitsize(member), bitalign(member))
    ELSE [lyo |-> FoldLeft(LAMBDA l, w : layout_new_raw(l, w.mask, w.align), lyo, member),
          at |-> bitoffset(lyo) + WORD]

\* The words that both have are joined; a longer one keeps the rest of its own.
JoinedWord(l0, l1, k) ==
    LET words == {l[k] : l \in {m \in {l0, l1} : k <= Len(m)}}
    IN  [mask |-> UNION {w.mask : w \in words}, align |-> Max({w.align : w \in words})]
cuoo_layout_union(l0, l1) ==
    FoldLeft(LAMBDA l, w : layout_new_raw(l, w.mask, w.align), NULL,
             [k \in 1..Larger(Len(l0), Len(l1)) |-> JoinedWord(l0, l1, k)])

-----------------------------------------------------------------------------
Init == con = NULL /\ ref = {{}}

Field(at, size, align) == [at |-> at - (WholeWords(size) * WORD), size |-> size, align |-> align]
Pack(r) ==
    LET packed == cuoo_layout_pack_bits(con, r[1], r[2])
    IN  /\ con' = packed.lyo
        /\ ref' = {alt \cup {Field(packed.at, r[1], r[2])} : alt \in ref}

\* The layout of a member's type, with its fields.
RECURSIVE Made(_)
Made(m) ==
    IF m = << >> THEN [lyo |-> NULL, fields |-> {}]
    ELSE LET made == Made(Front(m))
             r == Last(m)
             packed == cuoo_layout_pack_bits(made.lyo, r[1], r[2])
         IN  [lyo |-> packed.lyo, fields |-> made.fields \cup {Field(packed.at, r[1], r[2])}]

Product(m) ==
    LET member == Made(m)
        packed == cuoo_layout_product(con, member.lyo)
    IN  /\ con' = packed.lyo
        /\ ref' = {alt \cup {[f EXCEPT !.at = @ + packed.at] : f \in member.fields} : alt \in ref}

Union(m) ==
    LET member == Made(m)
    IN  /\ con # NULL
        /\ con' = cuoo_layout_union(con, member.lyo)
        /\ ref' = ref \cup {member.fields}

Full == Cardinality(UNION ref) >= MaxFields
Next ==
    \/ ~Full /\ \E r \in Requests : Pack(r)
    \/ ~Full /\ \E m \in Members : Product(m) \/ Union(m)
    \/ Full /\ UNCHANGED <<con, ref>>
-----------------------------------------------------------------------------
Covered(f) == Bits(f.at, f.size)
Used == UNION {UNION {Covered(f) : f \in alt} : alt \in ref}
Hole(k) == Max({0} \cup {n \in 1..WORD : \E b \in 0..(WORD - n) : Bits(b, n) \cap con[k].mask = {}})

WidestAtEnd == Len(con) > 1 \/ \A b \in (WORD - max_free_width(con))..(WORD - 1) : b \notin con[1].mask

(* The bits of the fields are allocated in the words, and the widest hole  *)
(* that later fields are compared with is the widest one there is.         *)
Exact ==
    /\ Used \subseteq UNION {{((k - 1) * WORD) + b : b \in con[k].mask} : k \in DOMAIN con}
    /\ \A k \in DOMAIN con : con[k].free = Max({Hole(j) : j \in 1..k})

(* However fields are packed into the holes of others, appended and        *)
(* overlaid, no two fields of an alternative share a bit, each is at a     *)
(* multiple of its alignment, which is no larger than that of the layout,  *)
(* and inside its size, unless that is one word with a wider hole between  *)
(* its fields than after them.                                             *)
Fits ==
    \A alt \in ref : \A f \in alt :
        /\ \A g \in alt \ {f} : Covered(f) \cap Covered(g) = {}
        /\ f.at % f.align = 0 /\ f.align <= bitalign(con)
        /\ WidestAtEnd => f.at + f.size <= cuoo_layout_bitsize(con)
=============================================================================
