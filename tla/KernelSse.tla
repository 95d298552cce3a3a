------------------------------ MODULE KernelSse ------------------------------
(***************************************************************************)
(* do_decode_sse (src/src/decoder_sse_base.h), two vectors of 128 bits a   *)
(* block, as it is built for SSE2, SSSE3 (and AVX), AVX3 and VBMI2.        *)
(***************************************************************************)
EXTENDS DecodeBlock
LOCAL INSTANCE SequencesExt

USING_FAST_MATCH(isa) == isa # "SSE2"

\* lfCompare has a dot in place of the "\n" where one is to be dropped; minMask
\* makes of what is there a dot or nothing.
mask(isa) ==
    IF USING_FAST_MATCH(isa)
    THEN {k \in Bit : IF k \in kill THEN D(k) = DOT ELSE D(k) \in {CR, LF, EQ}}
    ELSE maskEq \union Lane(CR, 0) \union {k \in Bit : D(k) = IF k \in kill THEN DOT ELSE LF}

-----------------------------------------------------------------------------
(* The dots of stuffed lines, and the ends of the data.                    *)

match2CrXDt == Lane(CR, 0) \intersect Lane(DOT, 2)
match1Nl    == Lane(CR, 0) \intersect Lane(LF, 1)
match2NlDot == match2CrXDt \intersect match1Nl
match3EqY   == Lane(EQ, 2) \intersect Lane(Y, 3)
match4Nl    == Lane(CR, 3) \intersect Lane(LF, 4)

\* "=y" three bytes after a lane: the words tell it of the odd lanes, match3EqY
\* shifted within words of the even ones.  The and with -0xff leaves a bit of both.
match34EqY(isa) ==
    IF isa = "AVX3" THEN After_(match3EqY, -1) \union Words(4) \union After_(Words(4), 1)
    ELSE (After_(match3EqY, -1) \intersect even) \union After_(Words(4), 1)

\* Fault: "\r\n.=y" is looked for from the odd lanes only.
matchEndFault(isa) == ((match4Nl \union After_(Words(4), 1)) \intersect match2NlDot)
                          \union (match3EqY \intersect match1Nl)

matchEnd(isa) == ((match4Nl \union match34EqY(isa)) \intersect match2NlDot)
                     \union (match3EqY \intersect match1Nl)

\* Where no \r_. was found
endFound == match3EqY \intersect match1Nl

stops(isa) == /\ LooksAhead(mask(isa)) /\ searchEnd
              /\ IF isRaw /\ match2CrXDt # {} THEN matchEnd(isa) # {} ELSE endFound # {}

Dots(isa) == IF LooksAhead(mask(isa)) /\ isRaw THEN match2NlDot ELSE {}

\* Fault: lfCompare stays as it is when there is no \r_. in a block.
nextKillFault(isa) == IF Dots(isa) = {} THEN kill ELSE NextBlock(match2NlDot)

nextKill(isa) == IF LooksAhead(mask(isa)) /\ isRaw THEN NextBlock(match2NlDot) ELSE kill

-----------------------------------------------------------------------------
(* Escapes and compaction.                                                 *)

\* The = that start an escape: only if a special byte follows an = are they looked for
starts(isa, special) == IF special \intersect Shift1(maskEq, escFirst) = {} THEN maskEq
                        ELSE fix_eqMask(maskEq, Shift1(maskEq, escFirst))

\* From the highest bit of the mask down: the bytes after it move up.
sse2_compact_vect(vector, m) ==
    LET n == Len(vector)
    IN  FoldLeft(LAMBDA v, k : IF k \in m THEN RemoveAt(v, k + 1) ELSE v,
                 vector, [j \in 1..n |-> n - j])

compress(isa, data, m) ==
    CASE isa = "SSE2"  -> Compact(sse2_compact_vect, data, m, Width \div 2)
      [] isa = "VBMI2" -> Compact(CompressStore, data, m, Width \div 2)
      [] OTHER         -> Compact(Shuffle, data, m, Width \div 2)

\* The first byte is unescaped by yencOffset, the others after their =.
Result(isa) ==
    IF stops(isa) THEN Stop(mask(isa))
    ELSE LET special == mask(isa) \union After_(Dots(isa), 2)
             eqs     == starts(isa, special)
             escaped == After_(eqs, 1) \union (IF escFirst THEN {0} ELSE {})
         IN  [mask |-> mask(isa), stops |-> FALSE,
              out |-> compress(isa, Data(escaped), special \ escaped),
              escFirst |-> Width - 1 \in eqs, kill |-> nextKill(isa)]
=============================================================================
