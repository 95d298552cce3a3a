----------------------------- MODULE EncodeAvx2 ------------------------------
(***************************************************************************)
(* do_encode_avx2 (src/src/encoder_avx_base.h), for AVX2 and VBMI2.  The   *)
(* fast path takes one escape in each of the vectors.                      *)
(***************************************************************************)
EXTENDS EncodeBlock

maskBitsA(mask)    == Bits(mask \intersect A)
maskBitsB(mask)    == Bits(mask \intersect B)
outputBytesA(mask) == X + maskBitsA(mask)
outputBytesB(mask) == X + maskBitsB(mask)

Slow(mask) == maskBitsA(mask) > 1 \/ maskBitsB(mask) > 1

maskA(mask) == mask \intersect A
maskB(mask) == ShiftRight(mask \intersect B, X)

Out(data, mask) == IF Slow(mask) THEN Expanded(data, mask)
                   ELSE Inserted(SubSeq(data, 1, X), maskA(mask))
                        \o Inserted(SubSeq(data, X + 1, 2 * X), maskB(mask))

shiftAmt(mask, over) == outputBytesB(mask) - 1 - over
InA(mask, over)      == shiftAmt(mask, over) < 0

eqMask(Lut(_), mask, over) ==
    IF InA(mask, over)
    THEN ShiftRight(Join(Lut, m(1, mask), m(2, mask)), shiftAmt(mask, over) + outputBytesA(mask))
    ELSE ShiftRight(Join(Lut, m(3, mask), m(4, mask)), shiftAmt(mask, over))

\* VBMI2
CutByData(mask, over) ==
    LET bits == eqMask(expandMask, mask, over)
    IN  Cut(over + 1 - Bit(bits),
            (IF InA(mask, over) THEN -X ELSE 0) + Bit(bits) - Bits(bits))

\* Fault: the '=' of B are not taken back with its bytes.
CutByEscapesFault(mask, over) ==
    LET bits   == eqMask(expandLUT, mask, over)
        revert == over + Bit(bits)
    IN  Cut(revert, Bits(bits) - revert)

CutByEscapes(mask, over) ==
    LET bits   == eqMask(expandLUT, mask, over)
        revert == over + Bit(bits)
    IN  Cut(revert, (IF InA(mask, over) THEN maskBitsB(mask) ELSE 0) + Bits(bits) - revert)

bitIndexA(mask) == Clz(maskA(mask), X) + 1 + outputBytesB(mask)
bitIndexB(mask) == Clz(maskB(mask), X) + 1

\* Fault: a line that ends where B begins is looked for in A.
CutFastFault(mask, over) ==
    LET inA      == over >= outputBytesB(mask)
        bitIndex == IF inA THEN bitIndexA(mask) ELSE bitIndexB(mask)
    IN  Cut(over + Bool(over = bitIndex),
            (IF inA THEN maskBitsB(mask) - 1 ELSE 0) + Bool(over > bitIndex) - over)

CutFast(mask, over) ==
    LET inA      == over > outputBytesB(mask)
        bitIndex == IF inA THEN bitIndexA(mask) ELSE bitIndexB(mask)
    IN  Cut(over + Bool(over = bitIndex),
            (IF inA THEN maskBitsB(mask) ELSE 0) + Bool(over > bitIndex) - over)

Cuts(mask, over) == IF Slow(mask) THEN {CutByData(mask, over), CutByEscapes(mask, over)}
                    ELSE {CutFast(mask, over)}

Stored(mask) == IF Slow(mask)
                THEN outputBytesA(mask) + outputBytesB(mask) - shufLen(m(4, mask)) + X
                ELSE outputBytesA(mask) + X + 1
=============================================================================
