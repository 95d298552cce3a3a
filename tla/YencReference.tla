---------------------------- MODULE YencReference ----------------------------
(***************************************************************************)
(* The slow reference decoder the repository's tests compare every decoder *)
(* with (refYDec and refYDecRaw, src/test/testdec.js), as functions of a   *)
(* whole text: the NNTP layer is undone first, then yEnc is decoded.  It   *)
(* knows nothing of states, chunks or look-ahead.                          *)
(*                                                                         *)
(* Next to it, the byte-by-byte streams in the three modes the tests       *)
(* decode in, and what the two have to do with each other.                 *)
(***************************************************************************)
EXTENDS YencAutomaton, SequencesExt

Drop(s, n) == SubSeq(s, n + 1, Len(s))

\* The loop of refYDecRaw: drop the dot of "\r\n.", stop at "\r\n.\r\n".
UndoStuffing(s, findEnd) ==
    LET undo[t \in Seq(Char)] ==
          IF t = <<>> THEN <<>>
          ELSE IF ~IsPrefix(<<CR, LF, DOT>>, t) THEN <<Head(t)>> \o undo[Tail(t)]
          ELSE IF findEnd /\ IsPrefix(<<CR, LF, DOT, CR, LF>>, t) THEN <<CR, LF>>
          ELSE <<CR, LF>> \o undo[Drop(t, 3)]
    IN  undo[s]

\* The loop of refYDec.
Unescape(s, findEnd) ==
    LET data[t \in Seq(Char)] ==
          IF t = <<>> \/ (findEnd /\ IsPrefix(<<CR, LF, EQ, Y>>, t)) THEN <<>>
          ELSE IF Head(t) \in {CR, LF} THEN data[Tail(t)]
          ELSE IF Head(t) # EQ THEN <<Plain(Head(t))>> \o data[Tail(t)]
          ELSE IF Len(t) = 1 THEN <<>>
          ELSE <<Escaped(t[2])>> \o data[Drop(t, IF t[2] = CR THEN 1 ELSE 2)]
    IN  data[s]

RefYDec(s, findEnd) ==
    IF findEnd /\ IsPrefix(<<EQ, Y>>, s) THEN <<>> ELSE Unescape(s, findEnd)

RefYDecRaw(s, findEnd) ==
    IF ~IsPrefix(<<DOT>>, s) THEN RefYDec(UndoStuffing(s, findEnd), findEnd)
    ELSE IF findEnd /\ IsPrefix(<<DOT, CR, LF>>, s) THEN <<>>
    ELSE RefYDec(UndoStuffing(Tail(s), findEnd), findEnd)

-----------------------------------------------------------------------------
(* The streams in the three modes of testdec.js: "nntp-end", "nntp" and    *)
(* "plain".  start remembers the context a chunk began in; Before gives a  *)
(* text that leads to that context without any output.                     *)

CONSTANT Chunk

ASSUME ChunkAssumption == Chunk \subseteq Seq(Char)

VARIABLES mode, chunk, at, decoded, start

stream == <<mode, chunk, at, decoded, start>>

NntpEnd == INSTANCE YencStream WITH
             Start <- "CRLF", To <- Goto, Yields <- Emit, Ends <- Verdict
Nntp    == INSTANCE YencStream WITH
             Start <- "CRLF", To <- RawGoto, Yields <- RawEmit, Ends <- NoEnd
Other   == INSTANCE YencStream WITH
             Start <- "NONE", To <- UnstuffedGoto, Yields <- UnstuffedEmit, Ends <- NoEnd

StreamInit == /\ mode \in {"nntp-end", "nntp", "plain"}
              /\ IF mode = "plain" THEN Other!Init ELSE NntpEnd!Init
              /\ start = decoded.ctx

Deliver == NntpEnd!Deliver /\ UNCHANGED <<mode, start>>
Collect == NntpEnd!Collect /\ start' = decoded.ctx /\ UNCHANGED mode
Restart == /\ IF mode = "plain" THEN Other!Restart ELSE NntpEnd!Restart
           /\ start' = decoded'.ctx /\ UNCHANGED mode

Consume == /\ \/ mode = "nntp-end" /\ (NntpEnd!Consume1 \/ NntpEnd!Consume2 \/ NntpEnd!Consume3)
              \/ mode = "nntp"     /\ (Nntp!Consume1 \/ Nntp!Consume2 \/ Nntp!Consume3)
              \/ mode = "plain"    /\ (Other!Consume1 \/ Other!Consume2 \/ Other!Consume3)
           /\ UNCHANGED <<mode, start>>

StreamNext == Deliver \/ Collect \/ Restart \/ Consume

StreamSpec == StreamInit /\ [][StreamNext]_stream

Before == [CRLF |-> <<CR, LF>>, EQ |-> <<LF, EQ>>, CR |-> <<CR>>, NONE |-> <<LF>>,
           CRLFDT |-> <<CR, LF, DOT>>, CRLFDTCR |-> <<CR, LF, DOT, CR>>,
           CRLFEQ |-> <<CR, LF, EQ>>]

Text == Before[start] \o SubSeq(chunk, 1, at)

Reference == IF mode = "nntp-end" THEN RefYDecRaw(Text, TRUE)
             ELSE IF mode = "nntp" THEN RefYDecRaw(Text, FALSE) ELSE RefYDec(Text, FALSE)

-----------------------------------------------------------------------------
(* Properties.                                                             *)

(* What the stream has emitted is what the tests' reference decoder makes  *)
(* of the same bytes taken as one text, whatever context the chunk was     *)
(* cut in (refYDec and refYDecRaw, src/test/testdec.js).                   *)
AgreesWithReference == decoded.out = Reference

Terminator == [CONTROL |-> {<<CR, LF, EQ, Y>>, <<CR, LF, DOT, EQ, Y>>},
               ARTICLE |-> {<<CR, LF, DOT, CR, LF>>}]

EndsIn(s, e) == \E t \in Terminator[e] : IsSuffix(t, s)

(* The end is reported right after the first "\r\n=y" (or "\r\n.=y") or    *)
(* "\r\n.\r\n" of the stream, as src/src/decoder.h says, and only there.   *)
EndsAtFirstTerminator ==
    mode = "nntp-end" =>
        /\ \A e \in DOMAIN Terminator : decoded.ended = e <=> EndsIn(Text, e)
        /\ \A n \in Len(Before[start])..(Len(Text) - 1), e \in DOMAIN Terminator :
              ~EndsIn(SubSeq(Text, 1, n), e)
=============================================================================
