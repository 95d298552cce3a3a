---------------------------- MODULE MCDecodeNoEnd ----------------------------
(* The decoder that looks for no end, with and without a state carried from *)
(* call to call, given any of the chunks of MCChunks.                        *)
EXTENDS DecodeNoEnd, MCChunks

CONSTANTS MaxLen, MaxToken

MCChunk == Upto(Char, MaxLen) \union OfTokens(MaxToken)
=============================================================================
