----------------------------- MODULE MCDecodeEnd -----------------------------
(* The portable incremental decoder, called again and again with any of the *)
(* chunks of MCChunks.                                                       *)
EXTENDS DecodeEnd, MCChunks

CONSTANTS MaxLen, MaxToken

MCChunk == Upto(Char, MaxLen) \union OfTokens(MaxToken)
=============================================================================
