----------------------------- MODULE DecodeNoEnd -----------------------------
(***************************************************************************)
(* do_decode_noend_scalar<isRaw> (src/src/decoder.cc) and its caller       *)
(* do_decode_scalar: the portable decoder that does not look for the end   *)
(* of the data.  It is used for whole buffers (the state pointer is NULL), *)
(* and for the unaligned head and the tail of a buffer whose middle a SIMD *)
(* kernel decodes (with the state in between).                             *)
(*                                                                         *)
(* As in DecodeEnd, es[i] is chunk[pos + 1], pc names the label the code   *)
(* is at ("loop" is the head of the main loop, "last" the test for the     *)
(* final byte) and ctx and taken are history variables.  out is what has   *)
(* been written from *dest on; got is by how much the caller then advances *)
(* *dest, the value the function returned.                                 *)
(***************************************************************************)
EXTENDS YencAutomaton

CONSTANT Chunk

ASSUME ChunkAssumption == Chunk \subseteq Seq(Char)

VARIABLES isRaw,        \* which of the two instances of the template runs
          chunk, pc, pos,
          given,        \* whether a state pointer is passed
          state,        \* *state, when one is
          out, got,
          ctx, taken    \* history

hist == <<ctx, taken>>
vars == <<isRaw, chunk, pc, pos, given, state, out, got, ctx, taken>>

\* The byte-by-byte meaning of this instance.
Goes(x, c) == IF isRaw THEN RawGoto(x, c) ELSE UnstuffedGoto(x, c)
StartCtx == IF isRaw THEN "CRLF" ELSE "NONE"

Rem     == Len(chunk) - pos
Here    == chunk[pos + 1]
Peek(n) == chunk[pos + 1 + n]

Label == {"idle", "done", "EQ", "CR", "CRLF", "loop", "last"}

Init == /\ isRaw \in BOOLEAN /\ chunk = <<>>
        /\ pc = "idle" /\ pos = 0
        /\ given \in BOOLEAN /\ state = "CRLF"
        /\ out = <<>> /\ got = 0
        /\ ctx = StartCtx /\ taken = 0

Ctx1 == Goes(ctx, chunk[taken + 1])
Ctx2 == Goes(Ctx1, chunk[taken + 2])
Ctx3 == Goes(Ctx2, chunk[taken + 3])

Consumed(n) == /\ taken' = taken + n
               /\ ctx' = IF n = 0 THEN ctx ELSE IF n = 1 THEN Ctx1
                         ELSE IF n = 2 THEN Ctx2 ELSE Ctx3

\* The bytes up to pos + n that the history has not consumed yet.
Ahead(n) == pos + n - taken

Write(b)   == out' = Append(out, b)
NoWrite    == UNCHANGED out
GoOn(l, p) == pc' = l /\ pos' = p /\ UNCHANGED <<isRaw, chunk, given, got>>

\* if(state) *state = s
Store(s) == state' = IF given THEN s ELSE state

\* return n; the caller adds it to *dest, and len to *src
Return(n) == pc' = "done" /\ got' = n /\ pos' = Len(chunk) /\ UNCHANGED <<isRaw, chunk, given>>

-----------------------------------------------------------------------------
(* The caller.                                                             *)

Call == /\ pc = "idle"
        /\ chunk' \in Chunk
        /\ pc' = IF chunk' = <<>> THEN "done"
                 ELSE IF isRaw THEN IF ~given THEN "CRLF"
                                    ELSE IF state \in {"EQ", "CR", "CRLF"} THEN state
                                    ELSE "loop"
                 ELSE IF given /\ state = "EQ" THEN "EQ" ELSE "loop"
        /\ UNCHANGED <<isRaw, pos, given, state, out, got, hist>>

Collected == /\ pc = "done" /\ pc' = "idle"
             /\ chunk' = <<>> /\ pos' = 0 /\ out' = <<>> /\ got' = 0 /\ taken' = 0
             /\ UNCHANGED isRaw

\* The next call continues from the state stored.
Collect == Collected /\ given /\ UNCHANGED <<given, state, ctx>>

\* The next call is about other data, with a fresh state or none.
Restart == /\ Collected
           /\ given' \in BOOLEAN /\ state' = "CRLF" /\ ctx' = StartCtx

-----------------------------------------------------------------------------
(* The entry switch of raw data.                                           *)

\* Fault: looks for a line end after any escaped byte.
EnterEqFault == /\ isRaw /\ pc = "EQ"
                /\ Write(Escaped(Here)) /\ Consumed(1)
                /\ Store("CR")
                /\ IF Rem = 1 THEN Return(0) ELSE GoOn("CR", pos + 1)

EnterEqCr == /\ isRaw /\ pc = "EQ" /\ Here = CR
             /\ Write(Escaped(Here)) /\ Consumed(1)
             /\ Store("CR")
             /\ IF Rem = 1 THEN Return(0) ELSE GoOn("CR", pos + 1)

EnterEq == /\ isRaw /\ pc = "EQ" /\ Here # CR
           /\ Write(Escaped(Here)) /\ Consumed(1)
           /\ Store("NONE")
           /\ GoOn("loop", pos + 1)

\* Fault: a call that ends with the \n goes on.
EnterCrFault == /\ isRaw /\ pc = "CR" /\ Here = LF
                /\ NoWrite /\ Consumed(1)
                /\ Store("CRLF")
                /\ GoOn("CRLF", pos + 1)

EnterCr == /\ isRaw /\ pc = "CR" /\ Here = LF
           /\ NoWrite /\ Consumed(1)
           /\ Store("CRLF")
           /\ IF Rem = 1 THEN Return(0) ELSE GoOn("CRLF", pos + 1)

EnterCrOther == /\ isRaw /\ pc = "CR" /\ Here # LF
                /\ GoOn("loop", pos)
                /\ NoWrite /\ Consumed(0) /\ UNCHANGED state

\* Skips the first dot of a line.
EnterCrLf == /\ isRaw /\ pc = "CRLF"
             /\ LET n == IF Here = DOT THEN 1 ELSE 0
                IN  GoOn("loop", pos + n) /\ Consumed(n)
             /\ NoWrite /\ UNCHANGED state

\* The entry of other data.
EnterPlainEq == /\ ~isRaw /\ pc = "EQ"
                /\ Write(Escaped(Here)) /\ Consumed(1)
                /\ Store("NONE")
                /\ GoOn("loop", pos + 1)

Enter == EnterEqCr \/ EnterEq \/ EnterCr \/ EnterCrOther \/ EnterCrLf \/ EnterPlainEq
-----------------------------------------------------------------------------
(* The main loops: raw while i < -2, otherwise while i < -1.               *)

InLoop == pc = "loop" /\ Rem > (IF isRaw THEN 2 ELSE 1)

LoopData == /\ InLoop /\ Here \notin {CR, LF, EQ}
            /\ Write(Plain(Here)) /\ Consumed(Ahead(1))
            /\ GoOn("loop", pos + 1) /\ UNCHANGED state

StuffedDot == isRaw /\ Here = CR /\ Peek(1) = LF /\ Peek(2) = DOT

\* Fault: the i-- of an escaped \r for any line end.
LoopNewlineFault == /\ InLoop /\ Here \in {CR, LF} /\ ~StuffedDot
                    /\ NoWrite /\ Consumed(Ahead(1))
                    /\ GoOn("loop", pos) /\ UNCHANGED state

LoopNewline == /\ InLoop /\ Here \in {CR, LF} /\ ~StuffedDot
               /\ NoWrite /\ Consumed(Ahead(1))
               /\ GoOn("loop", pos + 1) /\ UNCHANGED state

\* Fault: the += 2 is taken for the whole step.
LoopSkipDotFault == /\ InLoop /\ StuffedDot
                    /\ NoWrite /\ Consumed(Ahead(2))
                    /\ GoOn("loop", pos + 2) /\ UNCHANGED state

LoopSkipDot == /\ InLoop /\ StuffedDot
               /\ NoWrite /\ Consumed(Ahead(3))
               /\ GoOn("loop", pos + 3) /\ UNCHANGED state

\* Fault: goes back to the = instead of to the escaped \r.
LoopEscapeFault == /\ InLoop /\ Here = EQ
                   /\ Write(Escaped(Peek(1))) /\ Consumed(Ahead(2))
                   /\ GoOn("loop", IF Peek(1) = CR THEN pos ELSE pos + 2)
                   /\ UNCHANGED state

\* In raw data an escaped \r is the loop's next byte, for it may start "\r\n.".
LoopEscape == /\ InLoop /\ Here = EQ
              /\ Write(Escaped(Peek(1))) /\ Consumed(Ahead(2))
              /\ GoOn("loop", IF isRaw /\ Peek(1) = CR THEN pos + 1 ELSE pos + 2)
              /\ UNCHANGED state

Loop == LoopData \/ LoopNewline \/ LoopSkipDot \/ LoopEscape
-----------------------------------------------------------------------------
(* The second last byte of raw data, and the last one.                     *)

AtSecondLast == isRaw /\ pc = "loop" /\ Rem = 2

SecondLastCrLf == /\ AtSecondLast /\ given /\ Here = CR /\ Peek(1) = LF
                  /\ NoWrite /\ Consumed(Ahead(2))
                  /\ Store("CRLF") /\ Return(Len(out))

SecondLastNewline == /\ AtSecondLast /\ Here \in {CR, LF}
                     /\ ~(given /\ Here = CR /\ Peek(1) = LF)
                     /\ NoWrite /\ Consumed(Ahead(1))
                     /\ Store("NONE") /\ GoOn("last", pos + 1)

\* Fault: skips the escaped byte twice.
SecondLastEscapeFault == /\ AtSecondLast /\ Here = EQ
                         /\ Write(Escaped(Peek(1))) /\ Consumed(Ahead(2))
                         /\ Store("NONE")
                         /\ GoOn("last", IF Peek(1) = CR THEN pos + 1 ELSE pos + 3)

SecondLastEscape == /\ AtSecondLast /\ Here = EQ
                    /\ Write(Escaped(Peek(1))) /\ Consumed(Ahead(2))
                    /\ Store("NONE")
                    /\ GoOn("last", IF Peek(1) = CR THEN pos + 1 ELSE pos + 2)

SecondLastData == /\ AtSecondLast /\ Here \notin {CR, LF, EQ}
                  /\ Write(Plain(Here)) /\ Consumed(Ahead(1))
                  /\ Store("NONE") /\ GoOn("last", pos + 1)

AtLast == pc \in {"loop", "last"} /\ Rem = 1

LastData == /\ AtLast /\ Here \notin {CR, LF, EQ}
            /\ Write(Plain(Here)) /\ Consumed(Ahead(1))
            /\ Store("NONE") /\ Return(Len(out) + 1)

LastSpecial == /\ AtLast /\ Here \in {CR, LF, EQ}
               /\ NoWrite /\ Consumed(Ahead(1))
               /\ Store(IF Here = EQ THEN "EQ"
                        ELSE IF isRaw /\ Here = CR THEN "CR" ELSE "NONE")
               /\ Return(Len(out))

Finish == /\ pc \in {"loop", "last"} /\ Rem = 0
          /\ NoWrite /\ Consumed(0)
          /\ Store("NONE") /\ Return(Len(out))

Final == \/ SecondLastCrLf \/ SecondLastNewline \/ SecondLastEscape
         \/ SecondLastData \/ LastData \/ LastSpecial \/ Finish
-----------------------------------------------------------------------------
Decode == Enter \/ Loop \/ Final
Next   == Call \/ Decode \/ Collect \/ Restart

Spec     == Init /\ [][Next]_vars
FairSpec == Spec /\ WF_vars(Decode)
-----------------------------------------------------------------------------
(* Properties.                                                             *)

(* Every variable keeps its type; i stays between -len and 0.              *)
TypeOK == /\ chunk \in Seq(Char)
          /\ pc \in Label
          /\ pos \in 0..Len(chunk) /\ taken \in 0..Len(chunk)
          /\ isRaw \in BOOLEAN /\ given \in BOOLEAN
          /\ state \in {"CRLF", "EQ", "CR", "NONE"}
          /\ ctx \in {"CRLF", "EQ", "CR", "NONE"}
          /\ out \in Seq(Byte) /\ got \in 0..Len(chunk)

(* No label that reads es[i] is reached without a byte left, and the test  *)
(* for the final byte with at most one ("we process this separately to     *)
(* prevent an overflow if the final char is '='").                         *)
NoOverread == /\ pc \in {"EQ", "CR", "CRLF"} => Rem >= 1
              /\ pc = "last" => Rem <= 1

(* decodeTo may be given one buffer as source and destination: a byte is   *)
(* never written over one that is still to be read.                        *)
OutputNeverOvertakes == Len(out) <= pos

(* What the caller adds to *dest is what was written, with one exception:  *)
(* a call that begins after a = and holds nothing but a "\r" or a "\r\n"   *)
(* returns 0 although it wrote the escaped \r (return 0 in the entry       *)
(* switch).                                                                *)
CountsButEscapedCr ==
    pc = "done" /\ got # Len(out) =>
        isRaw /\ given /\ got = 0 /\ chunk \in {<<CR>>, <<CR, LF>>} /\ out = <<Escaped(CR)>>

(* Every call returns.                                                     *)
CallReturns == pc \notin {"idle", "done"} ~> pc = "done"

Returned == pc \in {"idle", "done"}

\* Only what the other mode never looks at is left out of the state.
Seen(s) == IF isRaw \/ s = "EQ" THEN s ELSE "NONE"

StreamDecoded == [ctx   |-> IF Returned /\ given THEN Seen(state) ELSE ctx,
                  out   |-> out,
                  ended |-> "NONE"]
StreamAt == IF Returned THEN Len(chunk) ELSE taken

RawStream == INSTANCE YencStream WITH
               Chunk <- Seq(Char), Start <- "CRLF",
               To <- RawGoto, Yields <- RawEmit, Ends <- NoEnd,
               at <- StreamAt, decoded <- StreamDecoded

UnstuffedStream == INSTANCE YencStream WITH
                     Chunk <- Seq(Char), Start <- "NONE",
                     To <- UnstuffedGoto, Yields <- UnstuffedEmit, Ends <- NoEnd,
                     at <- StreamAt, decoded <- StreamDecoded

(* Whatever the cuts, each call writes the bytes the stream emits and      *)
(* stores the state from which the next continues; without a state each    *)
(* call is a stream of its own.                                            *)
ImplementsStream ==
    /\ IF isRaw THEN RawStream!Init ELSE UnstuffedStream!Init
    /\ [][IF isRaw THEN RawStream!Next ELSE UnstuffedStream!Next]_<<chunk, StreamAt, StreamDecoded>>
=============================================================================
