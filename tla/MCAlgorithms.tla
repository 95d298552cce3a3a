---------------------------- MODULE MCAlgorithms -----------------------------
(***************************************************************************)
(* What can be checked against a definition of its own, each in its turn:  *)
(* the byte-by-byte streams against the tests' reference decoder, the      *)
(* arithmetic on masks against the escapes it stands for, and the CRC      *)
(* implementations against the remainder they compute.                     *)
(***************************************************************************)
EXTENDS CrcCalls, YencReference, MCChunks

CONSTANTS MaxLen, MaxToken

VARIABLE which

MCChunk == Upto(Char, MaxLen) \union OfTokens(MaxToken)

-----------------------------------------------------------------------------
(* The three in turn.                                                      *)

Masks == INSTANCE EqMask WITH Width <- 8

MCInit == /\ which \in {"streams", "masks", "crcs"}
          /\ StreamInit
          /\ which # "streams" => mode = "plain"
          /\ Init
          /\ which # "crcs" => buffer = {5, 64, 129, 200}

Crcs(A) == which = "crcs" /\ A /\ UNCHANGED <<which, stream>>

MCNext == \/ which = "streams" /\ StreamNext /\ UNCHANGED <<which, vars>>
          \/ which = "masks" /\ UNCHANGED <<which, vars, stream>>
          \/ Crcs(Begin) \/ Crcs(Reads) \/ Crcs(Counts) \/ Crcs(Follows)

MCSpec == MCInit /\ [][MCNext]_<<which, vars, stream>>

-----------------------------------------------------------------------------
(* Dense data with all of memory set after it, and four bits in 130 bytes.  *)
(* 33023 is 80 FF: with the bits of a byte its words carry once more.       *)
MCBuffers == {{i \in 0..339 : i > 259 \/ i % 7 \in {0, 1, 4}}, {5, 64, 129, 200}}

MCLength == {0, 1, 3, 15, 16, 28, 33, 64, 95, 130}
MCCount  == {0, 1, 2, 7, 8, 9, 100, 127, -1, -8, -100, -127}
MCOther  == {[bits |-> {}, len |-> 0], [bits |-> {}, len |-> 3], [bits |-> {0, 3}, len |-> 2],
             [bits |-> {1, 9, 120}, len |-> 63], [bits |-> {}, len |-> 33023]}
MCWide   == {[bits |-> {1, 9, 120}, len |-> 64]}

(* The carries of one addition find exactly the = that start an escape, in *)
(* every block and after every block (fix_eqMask, decoder_common.h).       *)
FixesEq == which = "masks" => \A mask \in SUBSET Masks!Bit, escFirst \in BOOLEAN :
    Masks!fix_eqMask(mask, Masks!Shift1(mask, escFirst)) = Masks!Starts(mask, escFirst)

(* crc32_2pow is the power of x it names, for a negative exponent too, and  *)
(* crc32_shift by crc32_powmod takes any CRC held on by as many bits, on    *)
(* every implementation (crc.h, crc32_shift_* of the crc files).            *)
PowersAgree == which = "crcs" /\ ~last => \A isa \in Isa, n \in Count :
    /\ crc32_2pow(isa, n) = Power(n)
    /\ crc32_shift(isa, crc, crc32_powmod(IF n < 0 THEN -n ELSE n)) =
         Steps(crc, IF n < 0 THEN -n ELSE n)
=============================================================================
