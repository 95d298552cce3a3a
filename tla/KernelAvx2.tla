------------------------------ MODULE KernelAvx2 ------------------------------
(***************************************************************************)
(* do_decode_avx2 (src/src/decoder_avx2_base.h), two vectors of 256 bits a *)
(* block, as it is built for AVX2, AVX3 and VBMI2.                         *)
(***************************************************************************)
EXTENDS DecodeBlock

\* The minimum with minMask leaves of a dot to drop the index of a dot, and of
\* every other byte there as well.
mask == {k \in Bit : D(k) \in IF k \in kill THEN {DOT} ELSE {CR, LF, EQ}}

match2CrXDt == Lane(CR, 0) \intersect Lane(DOT, 2)
match1Nl    == Lane(CR, 0) \intersect Lane(LF, 1)
match2NlDot == match2CrXDt \intersect match1Nl
match3EqY   == Lane(EQ, 2) \intersect Lane(Y, 3)
match4End   == Lane(CR, 3) \intersect Lane(LF, 4)

\* VBMI2 shifts two words as one, AVX2 shifts each; AVX3 blends, and its and with
\* -0xff leaves a bit of the low byte where 0xff00 would leave none.
match34EqY(isa) ==
    CASE isa = "AVX3" -> After_(match3EqY, -1) \union Words(4) \union After_(Words(4), 1)
      [] OTHER        -> (After_(match3EqY, -1) \intersect even) \union After_(Words(4), 1)

matchEnd(isa) == ((match4End \union match34EqY(isa)) \intersect match2NlDot)
                     \union (match3EqY \intersect match1Nl)

\* A block without \r_. is looked at for "\r\n=y" only.
endFound == match3EqY \intersect match1Nl # {}

killDotFound == isRaw /\ match2CrXDt # {}

stops(isa) == /\ LooksAhead(mask) /\ searchEnd
              /\ IF killDotFound THEN matchEnd(isa) # {} ELSE endFound

minMask == IF ~LooksAhead(mask) \/ ~isRaw THEN kill
           ELSE IF killDotFound THEN NextBlock(match2NlDot) ELSE {}

special == mask \union (IF LooksAhead(mask) /\ killDotFound THEN After_(match2NlDot, 2) ELSE {})

\* Fault: the escape that began in the block before is left out.
eqsFault == IF special \intersect Shift1(maskEq, FALSE) = {} THEN maskEq
            ELSE fix_eqMask(maskEq, Shift1(maskEq, FALSE))

eqs == LET shift1 == Shift1(maskEq, escFirst)
       IN  IF special \intersect shift1 = {} THEN maskEq ELSE fix_eqMask(maskEq, shift1)

\* yencOffset subtracts 64 more from the first byte.
escaped == After_(eqs, 1) \union (IF escFirst THEN {0} ELSE {})

\* Halves of 128 bits, each shuffled by its own entry of the table
compress(isa, data, m) == IF isa = "VBMI2" THEN Compact(CompressStore, data, m, Width \div 2)
                          ELSE Compact(Shuffle, data, m, Width \div 4)

Result(isa) ==
    IF stops(isa) THEN Stop(mask)
    ELSE [mask |-> mask, stops |-> FALSE,
          out |-> compress(isa, Data(escaped), special \ escaped),
          escFirst |-> Width - 1 \in eqs, kill |-> minMask]
=============================================================================
