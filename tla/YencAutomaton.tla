---------------------------- MODULE YencAutomaton ----------------------------
(***************************************************************************)
(* The byte-by-byte meaning of a yEnc stream received over NNTP, as the    *)
(* decoder of node-yencode understands it: for each context, i.e. what the *)
(* bytes before the current one amount to, which context the next byte     *)
(* leads to, which decoded byte (if any) it yields and whether it ends the *)
(* yEnc data.  The contexts are the values of YencDecoderState in          *)
(* src/src/decoder.h; every decoder of the repository (scalar, SIMD, C#)   *)
(* is a different way of computing these three operators.                  *)
(*                                                                         *)
(* Bytes are abstracted to the classes the decoders tell apart; a decoded  *)
(* byte is the pair of the source byte and of what is subtracted from it.  *)
(***************************************************************************)
EXTENDS Naturals, Sequences

CONSTANT OtherChar      \* the bytes no decoder gives a special meaning to

CR  == "\r"
LF  == "\n"
DOT == "."
EQ  == "="
Y   == "y"

Special == {CR, LF, DOT, EQ, Y}
Char    == Special \union OtherChar

ASSUME OtherCharAssumption == OtherChar \intersect Special = {}

State == {"CRLF", "EQ", "CR", "NONE", "CRLFDT", "CRLFDTCR", "CRLFEQ"}
End   == {"NONE", "CONTROL", "ARTICLE"}

\* c - 42 and c - 42 - 64
Plain(c)   == <<c, 42>>
Escaped(c) == <<c, 106>>
Byte       == Char \X {42, 106}

-----------------------------------------------------------------------------
(* Raw data (dots still stuffed), watching for the end of the yEnc data.   *)

EndsData(ctx, c) == \/ ctx = "CRLFEQ"   /\ c = Y
                    \/ ctx = "CRLFDTCR" /\ c = LF

Verdict(ctx, c) == IF ~EndsData(ctx, c) THEN "NONE"
                   ELSE IF c = Y THEN "CONTROL" ELSE "ARTICLE"

IsEscaped(ctx, c) == ctx = "EQ" \/ (ctx = "CRLFEQ" /\ c # Y)

\* The bytes that are dropped because of the line structure alone.
IsStuffing(ctx, c) == ctx = "CRLF" /\ c = DOT

AfterPlain(c) == IF c = CR THEN "CR" ELSE IF c = EQ THEN "EQ" ELSE "NONE"

\* Fault: "\r\n.=y" is not taken for a control line.
GotoFault(ctx, c) ==
    CASE IsEscaped(ctx, c)                            -> IF c = CR THEN "CR" ELSE "NONE"
      [] ctx = "CRLFEQ"   /\ c = Y                    -> "NONE"
      [] ctx \in {"CR", "CRLFDTCR"} /\ c = LF         -> "CRLF"
      [] IsStuffing(ctx, c)                           -> "CRLFDT"
      [] ctx = "CRLFDT" /\ c = CR                     -> "CRLFDTCR"
      [] ctx = "CRLF" /\ c = EQ                       -> "CRLFEQ"
      [] OTHER                                        -> AfterPlain(c)

Goto(ctx, c) ==
    CASE IsEscaped(ctx, c)                            -> IF c = CR THEN "CR" ELSE "NONE"
      [] ctx = "CRLFEQ"   /\ c = Y                    -> "NONE"
      [] ctx \in {"CR", "CRLFDTCR"} /\ c = LF         -> "CRLF"
      [] IsStuffing(ctx, c)                           -> "CRLFDT"
      [] ctx = "CRLFDT" /\ c = CR                     -> "CRLFDTCR"
      [] ctx \in {"CRLF", "CRLFDT"} /\ c = EQ         -> "CRLFEQ"
      [] OTHER                                        -> AfterPlain(c)

Emit(ctx, c) ==
    IF IsEscaped(ctx, c) THEN <<Escaped(c)>>
    ELSE IF c \in {CR, LF, EQ} \/ IsStuffing(ctx, c) \/ EndsData(ctx, c) THEN <<>>
    ELSE <<Plain(c)>>

-----------------------------------------------------------------------------
(* Raw data without watching for an end: only the dots are taken out.      *)

\* Fault: an escaped \r is not taken for the start of a line end.
RawGotoFault(ctx, c) ==
    CASE ctx = "EQ"                     -> "NONE"
      [] ctx = "CR" /\ c = LF           -> "CRLF"
      [] IsStuffing(ctx, c)             -> "NONE"
      [] OTHER                          -> AfterPlain(c)

RawGoto(ctx, c) ==
    CASE ctx = "EQ"                     -> IF c = CR THEN "CR" ELSE "NONE"
      [] ctx = "CR" /\ c = LF           -> "CRLF"
      [] IsStuffing(ctx, c)             -> "NONE"
      [] OTHER                          -> AfterPlain(c)

RawEmit(ctx, c) ==
    IF ctx = "EQ" THEN <<Escaped(c)>>
    ELSE IF c \in {CR, LF, EQ} \/ IsStuffing(ctx, c) THEN <<>>
    ELSE <<Plain(c)>>

-----------------------------------------------------------------------------
(* Data whose dots the NNTP layer below has already taken out.             *)

UnstuffedGoto(ctx, c) == IF ctx # "EQ" /\ c = EQ THEN "EQ" ELSE "NONE"

UnstuffedEmit(ctx, c) ==
    IF ctx = "EQ" THEN <<Escaped(c)>>
    ELSE IF c \in {CR, LF, EQ} THEN <<>>
    ELSE <<Plain(c)>>

-----------------------------------------------------------------------------
NoEnd(ctx, c) == "NONE"
=============================================================================
