----------------------------- MODULE EncodeNeon ------------------------------
(***************************************************************************)
(* do_encode_neon and encode_eol_handle_pre (src/src/encoder_neon.cc).     *)
(* The end of a line is handled with the block it is in: its first byte    *)
(* ends the line and the others begin the next.                            *)
(***************************************************************************)
EXTENDS EncodeBlock

shufTotalLen(mask) == 2 * X + Bits(mask)
len2ndHalf(mask)   == shufLen(m(3, mask)) + shufLen(m(4, mask))
Many(mask)         == Bits(mask) > 1

Out(data, mask) == IF Many(mask) THEN Expanded(data, mask) ELSE Inserted(data, mask)

\* Fault: where the line ends in the first half, as if it were in the second.
CutManyFault(mask, over) ==
    LET inA  == len2ndHalf(mask) - over - 1 < 0
        bits == IF inA
                THEN ShiftRight(Join(expandLUT, m(1, mask), m(2, mask)),
                                shufTotalLen(mask) - over - 1)
                ELSE ShiftRight(Join(expandLUT, m(3, mask), m(4, mask)),
                                len2ndHalf(mask) - over - 1)
        revert == over + Bit(bits)
    IN  Cut(revert, Bits(bits) - revert)

CutMany(mask, over) ==
    LET inA  == len2ndHalf(mask) - over - 1 < 0
        bits == IF inA
                THEN ShiftRight(Join(expandLUT, m(1, mask), m(2, mask)),
                                shufTotalLen(mask) - over - 1)
                ELSE ShiftRight(Join(expandLUT, m(3, mask), m(4, mask)),
                                len2ndHalf(mask) - over - 1)
        revert == over + Bit(bits)
    IN  Cut(revert, (IF inA THEN len2ndHalf(mask) - X ELSE 0) + Bits(bits) - revert)

bitIndex(mask) == Clz(mask, 2 * X) + 1

CutAtOne(mask, over) == Cut(over + Bool(over = bitIndex(mask)), Bool(over > bitIndex(mask)) - over)

Cuts(mask, over) == IF Many(mask) THEN {CutMany(mask, over)} ELSE {CutAtOne(mask, over)}

Stored(mask) == IF Many(mask) THEN shufTotalLen(mask) - shufLen(m(4, mask)) + X ELSE 2 * X + 1

\* The lanes escaped in the block that ends a line.
EolMask(data) == {k \in 0..(2 * X - 1) : \/ data[k + 1] \in Critical
                                         \/ k < 2 /\ data[k + 1] \in Blank
                                         \/ k = 1 /\ data[k + 1] = DOT}

\* Fault: the column is counted as if the last character were on the new line.
EolColFault(mask) == 2 * X + Bits(mask \ {0})

EolCol(mask) == 2 * X - 1 + Bits(mask \ {0})

\* The first byte and the newline, and then the block again without it.
EolOut(data) ==
    LET mask == EolMask(data)
    IN  (IF 0 \in mask THEN Escape(data[1]) ELSE <<data[1]>>)
        \o NewLine \o Tail(Out(data, mask \ {0}))
=============================================================================
