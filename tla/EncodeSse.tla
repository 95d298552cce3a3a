------------------------------ MODULE EncodeSse ------------------------------
(***************************************************************************)
(* do_encode_sse (src/src/encoder_sse_base.h), for SSE2, SSSE3 (to AVX)    *)
(* and VBMI2.  Where a block passes the end of the line, SSE2 and VBMI2    *)
(* find it by the bits of the data, the others by those of the '='.        *)
(***************************************************************************)
EXTENDS EncodeBlock

outputBytes(mask) == 2 * X + Bits(mask)
manyBitsSet(mask) == Bits(mask) > 1
shuf2Len(mask)    == shufLen(m(1, mask)) + shufLen(m(2, mask))

Out(data, mask) == IF manyBitsSet(mask) THEN Expanded(data, mask) ELSE Inserted(data, mask)

shiftAmt(mask, over) == outputBytes(mask) - shuf2Len(mask) - over - 1
InA(mask, over)      == shiftAmt(mask, over) < 0

eqMask(Lut(_), mask, over) ==
    IF InA(mask, over)
    THEN ShiftRight(Join(Lut, m(1, mask), m(2, mask)), shiftAmt(mask, over) + shuf2Len(mask))
    ELSE ShiftRight(Join(Lut, m(3, mask), m(4, mask)), shiftAmt(mask, over))

\* SSE2 and VBMI2; "shr, shr, adc" is p -= col, and 1 more without the bit.
CutByData(mask, over) ==
    LET bits == eqMask(expandMask, mask, over)
    IN  Cut(over + 1 - Bit(bits),
            (IF InA(mask, over) THEN -X ELSE 0) + Bit(bits) - Bits(bits))

\* Fault: the line that has to overflow is not noticed.
CutByEscapesFault(mask, over) ==
    LET bits == eqMask(expandLUT, mask, over)
    IN  Cut(over, (IF InA(mask, over) THEN outputBytes(mask) - shuf2Len(mask) - X ELSE 0)
                  + Bits(bits) - over)

\* SSSE3
CutByEscapes(mask, over) ==
    LET bits == eqMask(expandLUT, mask, over)
        col  == over + Bit(bits)   \* revert if escape char
    IN  Cut(col, (IF InA(mask, over) THEN outputBytes(mask) - shuf2Len(mask) - X ELSE 0)
                 + Bits(bits) - col)

bitIndex(mask) == Clz(mask, 2 * X) + 1

\* Fault: as if the escape were one byte, not two.
CutAtOneFault(mask, over) == Cut(over, Bool(over > bitIndex(mask)) - over)

CutAtOne(mask, over) == Cut(over + Bool(over = bitIndex(mask)), Bool(over > bitIndex(mask)) - over)

Cuts(mask, over) == IF manyBitsSet(mask) THEN {CutByData(mask, over), CutByEscapes(mask, over)}
                    ELSE {CutAtOne(mask, over)}

\* The last vector that is stored ends here.
Stored(mask) == IF manyBitsSet(mask) THEN outputBytes(mask) - shufLen(m(4, mask)) + X
                ELSE 2 * X + 1
=============================================================================
