----------------------------- MODULE DecodeBlock -----------------------------
(***************************************************************************)
(* What every decoding kernel works on: a block of Width bytes of the      *)
(* chunk with a few bytes after it, and what the block before it left to   *)
(* be known.  A comparison of vectors gives the set of the offsets (lanes) *)
(* where it holds, and the masks made of it are the same sets; the vectors *)
(* of a block are joined, so that a shift across them is a sum of offsets. *)
(*                                                                         *)
(* A kernel module extends this one with its Result(isa), which says of a  *)
(* block: the mask of its special bytes, whether the kernel stops at it,   *)
(* and otherwise the bytes decoded and the carries for the next block.     *)
(***************************************************************************)
EXTENDS YencAutomaton, EqMask
LOCAL INSTANCE SequencesExt

VARIABLES isRaw, searchEnd,     \* which instance of the templates runs
          chunk, pos,           \* *src, as a number of bytes read
          escFirst,             \* the first byte of the block is escaped
          kill                  \* the dots to drop there (lfCompare, minMask, nextMaskMix)

D(k) == chunk[pos + k + 1]              \* src[i + k]

\* The block, loaded n bytes further on, compared with c
Lane(c, n) == {k \in Bit : D(k + n) = c}

maskEq == Lane(EQ, 0)

\* Lines may begin in this block.
LooksAhead(mask) == (isRaw \/ searchEnd) /\ mask # maskEq

\* From which lanes the words of two bytes, loaded n bytes further on, are "=y"
Words(n) == {k \in even : D(k + n) = EQ /\ D(k + n + 1) = Y}

\* The lanes n bytes after those of the mask, in this block and in the next
After_(mask, n)  == {k + n : k \in mask} \intersect Bit
NextBlock(mask)  == {k + 2 - Width : k \in mask} \intersect Bit

Data(escaped) == [k \in 1..Width |-> IF k - 1 \in escaped THEN Escaped(D(k - 1)) ELSE Plain(D(k - 1))]

\* What a kernel leaves of a block at which it stops
Stop(mask) == [mask |-> mask, stops |-> TRUE, out |-> <<>>, escFirst |-> escFirst, kill |-> kill]

-----------------------------------------------------------------------------
(* Compaction: the bytes of a vector without those of the mask.            *)

\* decoder_init_lut: the lanes to keep, in their order, of a vector of size bytes
\* when the table is indexed by so many bits.
compactLUT(mask, size, bits) ==
    SetToSortSeq({k \in 0..(size - 1) : k \notin mask \intersect 0..(bits - 1)}, <)

\* The shuffle by the table.  The last lane is not part of the index, so it is
\* always stored; p is moved on by the bits not set in the mask.
Shuffle(vector, mask) ==
    LET size == Len(vector)  lanes == compactLUT(mask, size, size - 1)
    IN  [k \in 1..(size - Cardinality(mask)) |-> vector[lanes[k] + 1]]

\* With the table that has an entry for every mask
ThinShuffle(vector, mask) ==
    LET size == Len(vector)  lanes == compactLUT(mask, size, size)
    IN  [k \in 1..Len(lanes) |-> vector[lanes[k] + 1]]

\* The instruction that does this
CompressStore(vector, mask) ==
    LET lanes == SetToSortSeq({k \in 1..Len(vector) : k - 1 \notin mask}, <)
    IN  [k \in 1..Len(lanes) |-> vector[lanes[k]]]

\* The vectors of size bytes of a block one after the other, each compacted
Compact(Op(_, _), data, mask, size) ==
    FlattenSeq([v \in 1..(Width \div size) |->
                  Op(SubSeq(data, (v - 1) * size + 1, v * size),
                     {k - (v - 1) * size : k \in mask} \intersect 0..(size - 1))])
=============================================================================
