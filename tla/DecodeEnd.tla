------------------------------ MODULE DecodeEnd ------------------------------
(***************************************************************************)
(* do_decode_end_scalar<true> (src/src/decoder.cc), the portable           *)
(* incremental decoder: called with a chunk and the state the last call    *)
(* stored, it resumes in the middle of whatever sequence the cut fell in,  *)
(* runs a loop that looks ahead over "\r\n." and "\r\n=", and treats the   *)
(* last two bytes apart so that it never reads past the chunk.             *)
(*                                                                         *)
(* pos is len + i of the code, so es[i] is chunk[pos + 1] and i < -2 is    *)
(* Rem > 2.  pc names the label the code is at: the arms of the entry      *)
(* switch (the states themselves), "loop" for the head of the main loop,   *)
(* "ldt", "ldtcr", "leq" for the nested tests inside it, "last" after the  *)
(* second last byte.  The arms are C code without interleaving, so a step  *)
(* is what happens between two labels.                                     *)
(*                                                                         *)
(* ctx and taken are history variables: what the bytes consumed so far     *)
(* amount to, and how many they are.  They never influence a step.         *)
(***************************************************************************)
EXTENDS YencAutomaton

CONSTANT Chunk

ASSUME ChunkAssumption == Chunk \subseteq Seq(Char)

VARIABLES chunk, pc, pos,
          state,        \* *state
          out,          \* the bytes written from *dest on
          read,         \* how far *src was advanced by the last call
          ended,        \* its return value
          ctx, taken    \* history

call == <<state, read, ended>>
hist == <<ctx, taken>>
vars == <<chunk, pc, pos, state, out, read, ended, ctx, taken>>

Rem     == Len(chunk) - pos
Here    == chunk[pos + 1]               \* es[i]
Peek(n) == chunk[pos + 1 + n]           \* es[i + n]

Label == {"idle", "done", "loop", "ldt", "ldtcr", "leq", "last"} \union State

Init == /\ chunk = <<>>
        /\ pc = "idle" /\ pos = 0
        /\ state = "CRLF" /\ out = <<>> /\ read = 0 /\ ended = "NONE"
        /\ ctx = "CRLF" /\ taken = 0

\* The history of consuming n more bytes.
Ctx1 == Goto(ctx, chunk[taken + 1])
Ctx2 == Goto(Ctx1, chunk[taken + 2])
Ctx3 == Goto(Ctx2, chunk[taken + 3])

Consumed(n) == /\ taken' = taken + n
               /\ ctx' = IF n = 0 THEN ctx ELSE IF n = 1 THEN Ctx1
                         ELSE IF n = 2 THEN Ctx2 ELSE Ctx3

Write(b)   == out' = Append(out, b)
NoWrite    == UNCHANGED out
GoOn(l, p) == pc' = l /\ pos' = p /\ UNCHANGED <<call, chunk>>

Return(s, e, p) == /\ pc' = "done" /\ pos' = p
                   /\ state' = s /\ ended' = e /\ read' = p
                   /\ UNCHANGED chunk

\* Fault: the check for the end of the chunk is forgotten.
CheckEndFault(s, l, p) == GoOn(l, p)

\* YDEC_CHECK_END(s), on the way to label l
CheckEnd(s, l, p) == IF p = Len(chunk) THEN Return(s, "NONE", p) ELSE GoOn(l, p)

\* c = es[i]; *p++ = c - 42 - 64; an escaped \r is looked at again as a line end
EscapeHere == Write(Escaped(Here))

-----------------------------------------------------------------------------
(* The call and the entry switch.                                          *)

Call == /\ pc = "idle"
        /\ chunk' \in Chunk
        /\ pc' = IF chunk' = <<>> THEN "done"        \* len < 1
                 ELSE IF state = "NONE" THEN "loop" ELSE state
        /\ UNCHANGED <<call, pos, out, hist>>

\* The caller takes the output, and keeps the state for its next call.
Collect == /\ pc = "done"
           /\ chunk' = <<>> /\ pos' = 0 /\ out' = <<>> /\ read' = 0 /\ ended' = "NONE"
           /\ pc' = "idle"
           /\ taken' = 0
           /\ UNCHANGED <<state, ctx>>

\* do_decode_endable_scalar_ceq
EnterCeqEnd == /\ pc = "CRLFEQ" /\ Here = Y
               /\ Return("NONE", "CONTROL", pos + 1)
               /\ NoWrite /\ Consumed(1)

\* Fault: an escaped \r at a cut is left for the loop to look at, as the loop does.
EnterEqFault == /\ pc = "EQ" \/ (pc = "CRLFEQ" /\ Here # Y)
                /\ EscapeHere
                /\ GoOn("loop", IF Here # CR THEN pos + 1 ELSE pos)
                /\ Consumed(1)

EnterEq == /\ pc = "EQ" \/ (pc = "CRLFEQ" /\ Here # Y)
           /\ EscapeHere
           /\ IF Here # CR THEN GoOn("loop", pos + 1)
                           ELSE CheckEnd("CR", "CR", pos + 1)
           /\ Consumed(1)

EnterCr == /\ pc = "CR" /\ Here = LF
           /\ CheckEnd("CRLF", "CRLF", pos + 1)
           /\ NoWrite /\ Consumed(1)

\* do_decode_endable_scalar_c0
EnterC0Dot == /\ pc = "CRLF" /\ Here = DOT
              /\ CheckEnd("CRLFDT", "CRLFDT", pos + 1)
              /\ NoWrite /\ Consumed(1)

\* Fault: a cut between "\r\n=" and "y" is remembered as an ordinary escape.
EnterC0EqFault == /\ pc = "CRLF" /\ Here = EQ
                  /\ CheckEnd("EQ", "EQ", pos + 1)
                  /\ NoWrite /\ Consumed(1)

EnterC0Eq == /\ pc = "CRLF" /\ Here = EQ
             /\ CheckEnd("CRLFEQ", "CRLFEQ", pos + 1)
             /\ NoWrite /\ Consumed(1)

EnterDtCr == /\ pc = "CRLFDT" /\ Here = CR
             /\ CheckEnd("CRLFDTCR", "CRLFDTCR", pos + 1)
             /\ NoWrite /\ Consumed(1)

EnterDtEq == /\ pc = "CRLFDT" /\ Here = EQ
             /\ CheckEnd("CRLFEQ", "CRLFEQ", pos + 1)
             /\ NoWrite /\ Consumed(1)

EnterDtCrEnd == /\ pc = "CRLFDTCR" /\ Here = LF
                /\ Return("CRLF", "ARTICLE", pos + 1)
                /\ NoWrite /\ Consumed(1)

\* The byte does not continue the sequence: break, and the loop takes it.
EnterBreak == /\ \/ pc = "CR"       /\ Here # LF
                 \/ pc = "CRLF"     /\ Here \notin {DOT, EQ}
                 \/ pc = "CRLFDT"   /\ Here \notin {CR, EQ}
                 \/ pc = "CRLFDTCR" /\ Here # LF
              /\ GoOn("loop", pos)
              /\ NoWrite /\ Consumed(0)

Enter == \/ EnterCeqEnd \/ EnterEq \/ EnterCr \/ EnterC0Dot \/ EnterC0Eq
         \/ EnterDtCr \/ EnterDtEq \/ EnterDtCrEnd \/ EnterBreak

-----------------------------------------------------------------------------
(* The main loop, i < -2.                                                  *)

InLoop == pc = "loop" /\ Rem > 2

LineStart(c) == Here = CR /\ Peek(1) = LF /\ Peek(2) = c

\* The bytes a branch at pos skips, less the one a redone \r already accounts for.
Ahead(n) == pos + n - taken

LoopData == /\ InLoop /\ Here \notin {CR, LF, EQ}
            /\ Write(Plain(Here))
            /\ GoOn("loop", pos + 1) /\ Consumed(Ahead(1))

LoopNewline == /\ InLoop /\ Here \in {CR, LF}
               /\ ~LineStart(DOT) /\ ~LineStart(EQ)
               /\ NoWrite
               /\ GoOn("loop", pos + 1) /\ Consumed(Ahead(1))

\* i += (c != '\r'), then i++: the escaped \r is the loop's next byte.
LoopEscape == /\ InLoop /\ Here = EQ
              /\ Write(Escaped(Peek(1)))
              /\ GoOn("loop", IF Peek(1) = CR THEN pos + 1 ELSE pos + 2)
              /\ Consumed(Ahead(2))

LoopDot == /\ InLoop /\ LineStart(DOT)
           /\ CheckEnd("CRLFDT", "ldt", pos + 3)
           /\ NoWrite /\ Consumed(Ahead(3))

LoopEq == /\ InLoop /\ LineStart(EQ)
          /\ CheckEnd("CRLFEQ", "leq", pos + 3)
          /\ NoWrite /\ Consumed(Ahead(3))

LoopDotCr == /\ pc = "ldt" /\ Here = CR
             /\ CheckEnd("CRLFDTCR", "ldtcr", pos + 1)
             /\ NoWrite /\ Consumed(1)

LoopDotEq == /\ pc = "ldt" /\ Here = EQ
             /\ CheckEnd("CRLFEQ", "leq", pos + 1)
             /\ NoWrite /\ Consumed(1)

\* Fault: undoes the whole i += 3.
LoopDotOtherFault == /\ pc = "ldt" /\ Here \notin {CR, EQ}
                     /\ GoOn("loop", pos - 3)
                     /\ NoWrite /\ Consumed(0)

\* i--, and the loop's i++
LoopDotOther == /\ pc = "ldt" /\ Here \notin {CR, EQ}
                /\ GoOn("loop", pos)
                /\ NoWrite /\ Consumed(0)

LoopDotCrEnd == /\ pc = "ldtcr" /\ Here = LF
                /\ Return("CRLF", "ARTICLE", pos + 1)
                /\ NoWrite /\ Consumed(1)

LoopDotCrOther == /\ pc = "ldtcr" /\ Here # LF
                  /\ GoOn("loop", pos)
                  /\ NoWrite /\ Consumed(0)

LoopEqEnd == /\ pc = "leq" /\ Here = Y
             /\ Return("NONE", "CONTROL", pos + 1)
             /\ NoWrite /\ Consumed(1)

\* i -= (c == '\r'), then i++
LoopEqEscape == /\ pc = "leq" /\ Here # Y
                /\ EscapeHere
                /\ GoOn("loop", IF Here = CR THEN pos ELSE pos + 1)
                /\ Consumed(1)

Loop == \/ LoopData \/ LoopNewline \/ LoopEscape \/ LoopDot \/ LoopEq
        \/ LoopDotCr \/ LoopDotEq \/ LoopDotOther \/ LoopDotCrEnd
        \/ LoopDotCrOther \/ LoopEqEnd \/ LoopEqEscape
-----------------------------------------------------------------------------
(* The last two bytes.                                                     *)

AtSecondLast == pc = "loop" /\ Rem = 2

SecondLastCrLf == /\ AtSecondLast /\ Here = CR /\ Peek(1) = LF
                  /\ Return("CRLF", "NONE", Len(chunk))
                  /\ NoWrite /\ Consumed(Ahead(2))

SecondLastNewline == /\ AtSecondLast /\ Here \in {CR, LF}
                     /\ ~(Here = CR /\ Peek(1) = LF)
                     /\ GoOn("last", pos + 1)
                     /\ NoWrite /\ Consumed(Ahead(1))

\* Fault: skips the escaped byte twice.
SecondLastEscapeFault == /\ AtSecondLast /\ Here = EQ
                         /\ Write(Escaped(Peek(1)))
                         /\ GoOn("last", IF Peek(1) = CR THEN pos + 1 ELSE pos + 3)
                         /\ Consumed(Ahead(2))

SecondLastEscape == /\ AtSecondLast /\ Here = EQ
                    /\ Write(Escaped(Peek(1)))
                    /\ GoOn("last", IF Peek(1) = CR THEN pos + 1 ELSE pos + 2)
                    /\ Consumed(Ahead(2))

SecondLastData == /\ AtSecondLast /\ Here \notin {CR, LF, EQ}
                  /\ Write(Plain(Here))
                  /\ GoOn("last", pos + 1) /\ Consumed(Ahead(1))

AtLast == pc \in {"loop", "last"} /\ Rem = 1

\* Every path to here went through *state = YDEC_STATE_NONE.
LastData == /\ AtLast /\ Here \notin {CR, LF, EQ}
            /\ Write(Plain(Here))
            /\ Return("NONE", "NONE", pos + 1) /\ Consumed(Ahead(1))

LastSpecial == /\ AtLast /\ Here \in {CR, LF, EQ}
               /\ Return(IF Here = EQ THEN "EQ" ELSE IF Here = CR THEN "CR" ELSE "NONE",
                         "NONE", pos + 1)
               /\ NoWrite /\ Consumed(Ahead(1))

Finish == /\ pc \in {"loop", "last"} /\ Rem = 0
          /\ Return("NONE", "NONE", pos)
          /\ NoWrite /\ Consumed(0)

Final == \/ SecondLastCrLf \/ SecondLastNewline \/ SecondLastEscape
         \/ SecondLastData \/ LastData \/ LastSpecial \/ Finish
-----------------------------------------------------------------------------
Decode == Enter \/ Loop \/ Final
Next   == Call \/ Decode \/ Collect

Spec     == Init /\ [][Next]_vars
FairSpec == Spec /\ WF_vars(Decode)
-----------------------------------------------------------------------------
(* Properties.                                                             *)

(* Every variable keeps its type; i stays between -len and 0.              *)
TypeOK == /\ chunk \in Seq(Char)
          /\ pc \in Label \ {"NONE"}
          /\ pos \in 0..Len(chunk) /\ read \in 0..Len(chunk)
          /\ taken \in 0..Len(chunk)
          /\ state \in State /\ ctx \in State /\ ended \in End
          /\ out \in Seq(Byte)

(* The code never dereferences es[0] or beyond ("we process this           *)
(* separately to prevent an overflow if the final char is '='"): wherever  *)
(* the control is at a label that reads es[i], a byte is left.             *)
NoOverread == /\ pc \notin {"idle", "done", "loop", "last"} => Rem >= 1
              /\ pc = "last" => Rem <= 1

(* Decoding in place (dest = src) and into a destination of the source's   *)
(* length (DecodeTo, DecodeIncr in src/src/yencode.cc size it so) are safe:*)
(* the bytes written never overtake the byte to be read next, although an  *)
(* escaped \r is written before i moves past it.                           *)
OutputNeverOvertakes == Len(out) <= pos

\* How far a call is from its end at the same byte: tests on the way, the loop, or returned.
Stage == IF pc = "done" THEN 0 ELSE IF pc \in {"loop", "last"} THEN 1 ELSE 2

(* A call cannot go on for ever: every step of it, also one that looks at  *)
(* a byte again (i--, i -= (c == '\r'), the breaks of the entry switch),   *)
(* leaves fewer bytes, or as many and fewer tests before the loop takes    *)
(* them; and it never steps past the end.                                  *)
EveryStepGetsOn ==
    [][pc \notin {"idle", "done"} =>
          /\ Rem' >= 0
          /\ Rem' < Rem \/ (Rem' = Rem /\ Stage' < Stage)]_vars

(* Every call returns.                                                     *)
CallReturns == pc \notin {"idle", "done"} ~> pc = "done"

(* Between calls the caller sees *state, the return value and the advance  *)
(* of *src; during a call the history says where the abstract decoder is.  *)
Returned == pc \in {"idle", "done"}
StreamAt == IF Returned THEN read ELSE taken
StreamDecoded == [ctx   |-> IF Returned THEN state ELSE ctx,
                  out   |-> out,
                  ended |-> ended]

Stream == INSTANCE YencStream WITH
            Chunk <- Seq(Char), Start <- "CRLF",
            To <- Goto, Yields <- Emit, Ends <- Verdict,
            at <- StreamAt, decoded <- StreamDecoded

(* The chunked decoder implements the byte-by-byte stream: whatever the    *)
(* cuts, each call writes exactly the bytes the stream emits, reports the  *)
(* end at exactly the byte where the data ends, and stores the state from  *)
(* which the next call continues as if there had been no cut.              *)
ImplementsStream == Stream!Spec
=============================================================================
