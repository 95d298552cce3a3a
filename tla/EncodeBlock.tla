----------------------------- MODULE EncodeBlock -----------------------------
(***************************************************************************)
(* What the vector kernels of the encoder share: a block is two vectors, A *)
(* and B, of X bytes, and tables are looked up for half a vector at a time *)
(* (m1..m4).  A mask is a set of lanes, those whose byte is escaped; a     *)
(* register of bits is the set of the bits that are set.                   *)
(*                                                                         *)
(* over is the kernels' col when it is not negative: how many of the bytes *)
(* put out are past the last column but one, which is where the last       *)
(* character of the line goes.                                             *)
(***************************************************************************)
EXTENDS Integers, FiniteSets, YencLines

VARIABLE X  \* bytes in a vector: 16, or 32 (AVX2), or half of vl2 (RVV)

Bits(mask) == Cardinality(mask)
Bit(mask)  == IF 0 \in mask THEN 1 ELSE 0   \* mask & 1
Bool(b)    == IF b THEN 1 ELSE 0

\* mask >> n
ShiftRight(mask, n) == {b - n : b \in {c \in mask : c >= n}}

\* lzcnt of a mask of lanes, for a register of n bits.
Clz(mask, n) == IF mask = {} THEN n ELSE n - 1 - (CHOOSE k \in mask : \A l \in mask : l <= k)

A == 0..(X - 1)
B == X..(2 * X - 1)

Half == X \div 2
m(q, mask) == ShiftRight(mask \intersect ((q - 1) * Half)..(q * Half - 1), (q - 1) * Half)

shufLen(mask) == Half + Bits(mask)

\* The tables of the bytes that half a vector becomes: where its own are, and
\* where the '=' are (the top bits of shufMix and shufExpand, NEON's expandLUT).
expandMask(mask) == {j + Bits({l \in mask : l <= j}) : j \in 0..(Half - 1)}
expandLUT(mask)  == {j + Bits({l \in mask : l < j}) : j \in mask}

\* Two of the halves side by side.
Join(Lut(_), ma, mb) == Lut(ma) \union {b + shufLen(ma) : b \in Lut(mb)}

Lane(mask, b) == Bits({d \in expandMask(mask) : d < b})

\* The data of half a vector shuffled, and '=' or 64 mixed in.
Shuffled(data, mask) ==
    [b \in 1..shufLen(mask) |->
        LET j == Lane(mask, b - 1)
        IN  CASE b - 1 \in expandLUT(mask) -> EQ
              [] b - 1 \notin expandLUT(mask) /\ j \in mask -> Shifted[data[j + 1]]
              [] OTHER -> data[j + 1]]

\* The four stores of the path for many escapes.
Expanded(data, mask) ==
    FlattenSeq([q \in 1..4 |->
        Shuffled(SubSeq(data, (q - 1) * Half + 1, q * Half), m(q, mask))])

\* Vectors of n bytes with at most one escape: those behind it move by one.
Inserted(data, mask) ==
    IF mask = {} THEN data
    ELSE LET k == CHOOSE k \in mask : TRUE
         IN  SubSeq(data, 1, k) \o Escape(data[k + 1]) \o SubSeq(data, k + 2, Len(data))

\* How much of the output, and of the data past the block, is taken back.
Cut(back, more) == [back |-> back, more |-> more]
=============================================================================
