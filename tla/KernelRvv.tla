------------------------------ MODULE KernelRvv ------------------------------
(***************************************************************************)
(* do_decode_rvv (src/src/decoder_rvv.cc), one group of two vectors as     *)
(* long as the processor has them.  Masks are vectors of bits, and the     *)
(* numbers that are added to find the escapes are Word bits of them.       *)
(***************************************************************************)
EXTENDS DecodeBlock

CONSTANT Word           \* 64

\* Negated in the code: the bytes to keep
cmp == Bit \ (maskEq \union Lane(CR, 0)
                 \union {k \in Bit : D(k) = IF isRaw /\ k \in kill THEN DOT ELSE LF})

looksAhead == (isRaw \/ searchEnd) /\ Bit \ cmp # maskEq

match2Cr_Dot == Lane(CR, 0) \intersect Lane(DOT, 2)
match3EqY    == Lane(EQ, 2) \intersect Lane(Y, 3)
match2NlDot  == match2Cr_Dot \intersect Lane(LF, 1)
match4Nl     == Lane(CR, 3) \intersect Lane(LF, 4)
match4EqY    == Lane(EQ, 3) \intersect Lane(Y, 4)

matchEnd == IF isRaw /\ match2Cr_Dot # {}
            THEN ((match4Nl \union match4EqY) \intersect match2NlDot)
                     \union (Lane(CR, 0) \intersect Lane(LF, 1) \intersect match3EqY)
            ELSE match3EqY \intersect Lane(CR, 0) \intersect Lane(LF, 1)

\* What is kept when the dots of stuffed lines are not
kept == cmp \ (IF looksAhead /\ isRaw THEN After_(match2NlDot, 2) ELSE {})

\* Unlike in the other kernels, reset also by a block with nothing special in it
lfCompare == IF isRaw /\ (looksAhead \/ cmp = Bit)
             THEN IF looksAhead THEN NextBlock(match2NlDot) ELSE {} ELSE kill

-----------------------------------------------------------------------------
(* "replicate fix_eqMask, but in vector form"                              *)

\* One addition of a word, when that holds the mask.  When it does not, the sum has
\* been asked for one word only, and the carries for none: vl/8 is 0.  What a vector
\* operation is not asked for is not defined, here all words but the first.
oddGroups(evenStart) ==
    LET first == 0..(Word - 1)
    IN  IF Width <= Word THEN {Plus(maskEq, evenStart)}
        ELSE {(Plus(maskEq \intersect first, evenStart \intersect first) \intersect first) \union rest :
                 rest \in SUBSET (Bit \ first)}

\* The = that start an escape, whatever the undefined words are
eqs == LET shift1 == Shift1(maskEq, escFirst)
       IN  IF shift1 \ kept = {} THEN {maskEq}
           ELSE {Xor(odd, even) \intersect maskEq : odd \in oddGroups((maskEq \ shift1) \intersect even)}

Decoded(eq) ==
    LET escaped == Shift1(eq, escFirst)
    IN  [mask |-> Bit \ cmp, stops |-> FALSE,
         out |-> CompressStore(Data(escaped), Bit \ (kept \union escaped)),
         escFirst |-> Width - 1 \in eq, kill |-> lfCompare]

Results == IF looksAhead /\ searchEnd /\ matchEnd # {} THEN {Stop(Bit \ cmp)}
           ELSE {Decoded(eq) : eq \in eqs}
=============================================================================
