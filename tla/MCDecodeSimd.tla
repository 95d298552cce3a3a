---------------------------- MODULE MCDecodeSimd ----------------------------
(* Chunks of a few tokens with padding after them or before them, or none:   *)
(* with blocks of Width bytes and every alignment of the source, each        *)
(* sequence comes to lie across each boundary of head, blocks and tail, and  *)
(* each short one at the end of the data.                                    *)
EXTENDS DecodeSimd, MCChunks

CONSTANTS MaxToken, Pad

Padding(n) == [k \in 1..n |-> "a"]

MCChunk == {t \o Padding(n) : t \in OfTokens(MaxToken), n \in Pad}
             \union {Padding(n) \o t : t \in OfTokens(2), n \in Pad}
=============================================================================
