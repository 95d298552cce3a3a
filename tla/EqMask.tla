------------------------------- MODULE EqMask -------------------------------
(***************************************************************************)
(* fix_eqMask (src/src/decoder_common.h): which of the = of a block start  *)
(* an escape, when = may itself be escaped (a run of them), computed with  *)
(* one addition and an exclusive or on bit masks of Width bits.            *)
(*                                                                         *)
(* A mask is the set of the bits that are set: & is \intersect, | is       *)
(* \union, and only the addition, whose carries do the work, goes through  *)
(* the number the mask stands for.                                         *)
(***************************************************************************)
EXTENDS Integers, FiniteSets
LOCAL INSTANCE FiniteSetsExt

CONSTANT Width          \* the bits of T, the bytes of a block

ASSUME WidthAssumption == Width \in Nat \ {0} /\ Width % 2 = 0

Bit == 0..(Width - 1)

Number(mask) == MapThenSumSet(LAMBDA k : 2^k, mask)
Mask(n)      == {k \in Bit : (n \div 2^k) % 2 = 1}
Plus(a, b)   == Mask((Number(a) + Number(b)) % 2^Width)
Xor(a, b)    == (a \ b) \union (b \ a)

\* (mask << 1) + escFirst
Shift1(mask, escFirst) ==
    {k \in Bit : k - 1 \in mask} \union (IF escFirst THEN {0} ELSE {})

even == {k \in Bit : k % 2 = 0}

\* Fault: the groups that start on odd bits are cleared instead.
fix_eqMaskFault(mask, maskShift1) ==
    LET start     == mask \ maskShift1
        oddGroups == Plus(mask, start \ even)
    IN  Xor(oddGroups, even) \intersect mask

fix_eqMask(mask, maskShift1) ==
    LET start     == mask \ maskShift1
        oddGroups == Plus(mask, start \intersect even)
    IN  Xor(oddGroups, even) \intersect mask

\* The = at k starts an escape if it is not escaped itself; an = before the
\* block escapes its first byte.
Starts(mask, escFirst) ==
    LET starts[k \in -1..(Width - 1)] ==
          IF k = -1 THEN escFirst ELSE k \in mask /\ ~starts[k - 1]
    IN  {k \in Bit : starts[k]}
=============================================================================
