------------------------------ MODULE KernelNeon ------------------------------
(***************************************************************************)
(* do_decode_neon (src/src/decoder_neon.cc), two vectors of 128 bits a     *)
(* block, as it is built for ARMv7 and for AArch64 without decoder_neon64. *)
(***************************************************************************)
EXTENDS DecodeBlock

\* ARMv7 compares with lfCompare; AArch64 adds nextMaskMix to a lookup of all three.
mask(isa) ==
    IF isa = "ARMv7" THEN maskEq \union Lane(CR, 0) \union {k \in Bit : D(k) = IF k \in kill THEN DOT ELSE LF}
    ELSE {k \in Bit : D(k) \in {CR, LF, EQ}} \union (IF isRaw THEN kill ELSE {})

match2Cr_Dot == Lane(CR, 0) \intersect Lane(DOT, 2)
match1Nl     == Lane(CR, 0) \intersect Lane(LF, 1)
match2NlDot  == match2Cr_Dot \intersect Lane(LF, 1)
match4Nl     == {k \in Bit : k + 3 \in match1Nl \/ (D(k + 3) = CR /\ D(k + 4) = LF)}
match3EqY    == Lane(EQ, 2) \intersect Lane(Y, 3)

\* vsri: the high byte of a word of match4EqY, the high byte of match3EqY below it
match4EqY    == After_(Words(4), 1) \union (After_(match3EqY, -1) \intersect even)

match4End == (match4Nl \union match4EqY) \intersect match2NlDot
match3End == match3EqY \intersect match1Nl

\* The two vectors are merged bit by bit before they are tested for any match.
stops(isa) == /\ LooksAhead(mask(isa)) /\ searchEnd
              /\ IF isRaw /\ match2Cr_Dot # {} THEN match4End \union match3End # {}
                 ELSE match3EqY \intersect match1Nl # {}

killDots(isa) == IF isRaw /\ LooksAhead(mask(isa)) THEN match2NlDot ELSE {}

\* lfCompare, nextMaskMix: the last two lanes of the second vector, or reset
nextKill(isa) == IF isRaw /\ LooksAhead(mask(isa)) THEN NextBlock(match2NlDot) ELSE kill

eqs(special) == LET shift1 == Shift1(maskEq, escFirst)
                IN  IF special \intersect shift1 = {} THEN maskEq ELSE fix_eqMask(maskEq, shift1)

\* Quarters by the table of 256 entries, or halves by the one of 32768
compress(isa, data, m) == IF isa = "ARMv7" THEN Compact(ThinShuffle, data, m, Width \div 4)
                          ELSE Compact(Shuffle, data, m, Width \div 2)

Result(isa) ==
    IF stops(isa) THEN Stop(mask(isa))
    ELSE LET special == mask(isa) \union After_(killDots(isa), 2)
             escaped == Shift1(eqs(special), escFirst)       \* (maskEq<<1) | escFirst
         IN  [mask |-> mask(isa), stops |-> FALSE,
              out |-> compress(isa, Data(escaped), special \ escaped),
              escFirst |-> Width - 1 \in eqs(special), kill |-> nextKill(isa)]
=============================================================================
