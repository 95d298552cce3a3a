----------------------------- MODULE KernelNeon64 -----------------------------
(***************************************************************************)
(* do_decode_neon (src/src/decoder_neon64.cc), four vectors of 128 bits a  *)
(* block.  The last vector is compared with what is loaded after the block *)
(* (nextData), the others with each other; the lanes here run through all. *)
(***************************************************************************)
EXTENDS DecodeBlock

\* nextMaskMix marks the dots to drop, whatever the lookup says of them.
mask == {k \in Bit : D(k) \in {CR, LF, EQ}} \union (IF isRaw THEN kill ELSE {})

match2Cr_Dot == Lane(CR, 0) \intersect Lane(DOT, 2)
match1Nl     == Lane(LF, 1) \intersect Lane(CR, 0)
match2NlDot  == match2Cr_Dot \intersect Lane(LF, 1)

\* mergeCompares: each vector gives its own bits of every lane, so that a lane of
\* the merged vector is a quadruple, here the lanes of the block it stands for.
match4Nl  == Lane(CR, 3) \intersect Lane(LF, 4)
match3EqY == Lane(EQ, 2) \intersect Lane(Y, 3)
match4End == match2NlDot \intersect
                 (match4Nl \union After_(Words(4), 1) \union (After_(match3EqY, -1) \intersect even))
match3End == match3EqY \intersect match1Nl

terminated == IF isRaw /\ match2Cr_Dot # {} THEN match4End \union match3End # {}
              ELSE match3EqY \intersect match1Nl # {}

\* Fault: the vectors are shifted, but nothing comes in from the one before.
dotsFault == IF isRaw /\ LooksAhead(mask)
             THEN {k \in match2NlDot : k % (Width \div 4) < (Width \div 4) - 1} ELSE {}

dots == IF isRaw /\ LooksAhead(mask) THEN match2NlDot ELSE {}

nextMaskMix == IF isRaw /\ LooksAhead(mask) THEN NextBlock(match2NlDot) ELSE kill

special == mask \union After_(dots, 2)

eqs == LET shift1 == Shift1(maskEq, escFirst)
       IN  IF special \intersect shift1 = {} THEN maskEq ELSE fix_eqMask(maskEq, shift1)

Result ==
    IF LooksAhead(mask) /\ searchEnd /\ terminated THEN Stop(mask)
    ELSE LET escaped == Shift1(eqs, escFirst)
         IN  [mask |-> mask, stops |-> FALSE,
              out |-> Compact(Shuffle, Data(escaped), special \ escaped, Width \div 4),
              escFirst |-> Width - 1 \in eqs, kill |-> nextMaskMix]
=============================================================================
